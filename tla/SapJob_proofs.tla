--------------------------- MODULE SapJob_proofs ---------------------------
(***************************************************************************)
(* SapSystem keeps the promises of ProtectedJob (SapSystem!JobIsProtected):*)
(* each stage is one view of the job, and each cycle from a stage to a     *)
(* stage is one of the abstract steps, or none.                            *)
(***************************************************************************)
EXTENDS SapStages_proofs

-----------------------------------------------------------------------------
(* The machines as the job sees them.                                      *)

LEMMA TeamIs ==
  ASSUME TypeOK, NEW k \in Kinds, Paired(k)
  PROVE  /\ Team(k) \subseteq Hart /\ master \in Team(k) /\ master \in Hart
         /\ k = "TMR_MODE" => Team(k) = Hart
         /\ k = "DMR_MODE" => Team(k) = mask /\ mask \in Pair(master)
BY DEF Team, Kinds, Paired, Pair, TypeOK, CtrlTypeOK

\* all machines of the team in one state
LEMMA AllInSeen ==
  ASSUME TypeOK, NEW k \in Kinds, NEW g, NEW s, NEW x, x # "IDLE",
         Machines(g, s, k, x, x), Paired(k)
  PROVE  /\ Engaged = Team(k) /\ Engaged # {}
         /\ Loading <=> s = "START" \/ x \in {"START", "BOOT"}
         /\ Checked # {} <=> x = "SYNC"
         /\ Repairing <=> \/ k = "TMR_MODE" /\ x \in {"SYNCINTC", "SWSYNC"}
                          \/ k = "DMR_MODE" /\ x \in {"STOP", "INTC_RECOVERY", "RECOVERY"}
<1>1. Team(k) \subseteq Hart /\ master \in Team(k)
  BY TeamIs
<1>2. \A h \in Hart : /\ tmr[h] = IF k = "TMR_MODE" /\ h \in Team(k) THEN x ELSE "IDLE"
                      /\ dmr[h] = IF k = "DMR_MODE" /\ h \in Team(k) THEN x ELSE "IDLE"
  BY DEF Machines, Team, Kinds
<1>3. Engaged = Team(k) /\ Engaged # {}
  BY <1>1, <1>2 DEF Engaged, Kinds
<1>4. \A Z : "IDLE" \notin Z => /\ TmrIn(Z) = IF k = "TMR_MODE" /\ x \in Z THEN Team(k) ELSE {}
                                /\ DmrIn(Z) = IF k = "DMR_MODE" /\ x \in Z THEN Team(k) ELSE {}
  BY <1>1, <1>2 DEF TmrIn, DmrIn
<1>5. Loading <=> s = "START" \/ x \in {"START", "BOOT"}
  <2>1. single = s
    BY DEF Machines
  <2>2. TmrIn({"START", "BOOT"}) \cup DmrIn({"START", "BOOT"}) # {} <=> x \in {"START", "BOOT"}
    BY <1>1, <1>4 DEF Kinds
  <2>3. QED
    BY <2>1, <2>2 DEF Loading
<1>6. Checked # {} <=> x = "SYNC"
  BY <1>1, <1>4 DEF Checked, Kinds
<1>7. Repairing <=> \/ k = "TMR_MODE" /\ x \in {"SYNCINTC", "SWSYNC"}
                    \/ k = "DMR_MODE" /\ x \in {"STOP", "INTC_RECOVERY", "RECOVERY"}
  BY <1>1, <1>4 DEF Repairing, Kinds
<1>8. QED
  BY <1>3, <1>5, <1>6, <1>7

\* none at work, or only the master's, on the way to another mode
LEMMA LoneSeen ==
  ASSUME TypeOK, NEW k \in Kinds, NEW g, NEW s, NEW x \in {"IDLE", "SH_HALT", "END_SYNC"},
         Machines(g, s, k, x, "IDLE"), Paired(k)
  PROVE  /\ Engaged = IF x = "IDLE" THEN {} ELSE {master}
         /\ Loading <=> s = "START"
         /\ Checked = {} /\ ~Repairing
<1>1. master \in Team(k) /\ Team(k) \subseteq Hart
  BY TeamIs
<1>2. \A h \in Hart : /\ tmr[h] = IF k = "TMR_MODE" /\ h = master THEN x ELSE "IDLE"
                      /\ dmr[h] = IF k = "DMR_MODE" /\ h = master THEN x ELSE "IDLE"
  BY <1>1 DEF Machines, Team, Kinds
<1>3. Engaged = IF x = "IDLE" THEN {} ELSE {master}
  BY <1>1, <1>2 DEF Engaged, Kinds
<1>4. \A Z : "IDLE" \notin Z /\ x \notin Z => TmrIn(Z) = {} /\ DmrIn(Z) = {}
  BY <1>2 DEF TmrIn, DmrIn
<1>5. single = s
  BY DEF Machines
<1>6. Loading <=> s = "START"
  BY <1>4, <1>5 DEF Loading
<1>7. Checked = {} /\ ~Repairing
  BY <1>4 DEF Checked, Repairing
<1>8. QED
  BY <1>3, <1>6, <1>7

Seen(ph, c, t, r) ==
  /\ JobPhase = ph /\ JobProtection = c /\ JobTeam = t
  /\ Repairing <=> r

Active == single # "IDLE" \/ Engaged # {}

LEMMA ActiveSeen ==
  ASSUME TypeOK, Staged, Active, gen # "RESET"
  PROVE  /\ JobPhase = IF Loading THEN "launch" ELSE IF Settled THEN "run" ELSE "switch"
         /\ JobProtection = cfg /\ JobTeam = Engaged \cup Named /\ ~interrupt
<1>1. ASSUME Finished PROVE FALSE
  <2>1. PICK g : AllIdle(g, "IDLE")
    BY <1>1 DEF Finished
  <2>2. Machines(g, "IDLE", "TMR_MODE", "IDLE", "IDLE") /\ single = "IDLE"
    BY <2>1 DEF AllIdle, Machines
  <2>3. Engaged = {}
    BY <2>2, LoneSeen DEF Kinds, Paired
  <2>4. QED
    BY <2>2, <2>3 DEF Active
<1>2. ~interrupt
  BY <1>1, InterruptIsFinished
<1>3. JobPhase = IF Loading THEN "launch" ELSE IF Settled THEN "run" ELSE "switch"
  BY <1>2 DEF JobPhase, Active
<1>4. ~NoJob
  BY <1>3 DEF NoJob
<1>5. QED
  BY <1>2, <1>3, <1>4 DEF JobProtection, JobTeam

LEMMA NamedIs ==
  ASSUME TypeOK
  PROVE  /\ cfg = SINGLE => Named = {master}
         /\ cfg = TCLS => Named = Hart
         /\ cfg \in Dual => Named = mask
         /\ \A k \in Kinds : ModeOf(cfg) = k => Named = Team(k) /\ cfg # SINGLE
BY ConfigOf DEF Named, ModeOf, Team, Kinds, TypeOK, CtrlTypeOK, Config, Dual, SINGLE, TCLS,
                DCLS, LOCKSTEP

\* a team on one bus
LEMMA TeamSeen ==
  ASSUME TypeOK, Staged, NEW k \in Kinds, NEW x, x # "IDLE", AllIn(k, x), Paired(k),
         cfg = SINGLE \/ ModeOf(cfg) = k
  PROVE  /\ JobProtection = cfg /\ JobTeam = Team(k)
         /\ JobPhase = IF x \in {"START", "BOOT"} THEN "launch"
                       ELSE IF cfg # SINGLE /\ (x = "SYNC" \/ Repairing) THEN "run" ELSE "switch"
         /\ Repairing <=> \/ k = "TMR_MODE" /\ x \in {"SYNCINTC", "SWSYNC"}
                          \/ k = "DMR_MODE" /\ x \in {"STOP", "INTC_RECOVERY", "RECOVERY"}
<1>1. Machines(k, "IDLE", k, x, x) /\ single = "IDLE" /\ gen = k
  BY DEF AllIn, Machines
<1>2. /\ Engaged = Team(k) /\ Engaged # {}
      /\ Loading <=> x \in {"START", "BOOT"}
      /\ Checked # {} <=> x = "SYNC"
      /\ Repairing <=> \/ k = "TMR_MODE" /\ x \in {"SYNCINTC", "SWSYNC"}
                       \/ k = "DMR_MODE" /\ x \in {"STOP", "INTC_RECOVERY", "RECOVERY"}
  BY <1>1, AllInSeen
<1>3. Named \subseteq Team(k)
  BY NamedIs, TeamIs
<1>4. Settled <=> cfg # SINGLE /\ (x = "SYNC" \/ Repairing)
  BY <1>1, <1>2 DEF Settled
<1>5. /\ JobPhase = IF Loading THEN "launch" ELSE IF Settled THEN "run" ELSE "switch"
      /\ JobProtection = cfg /\ JobTeam = Engaged \cup Named
  BY <1>1, <1>2, ActiveSeen DEF Active, Kinds
<1>6. JobTeam = Team(k)
  BY <1>2, <1>3, <1>5
<1>7. JobPhase = IF x \in {"START", "BOOT"} THEN "launch"
                 ELSE IF cfg # SINGLE /\ (x = "SYNC" \/ Repairing) THEN "run" ELSE "switch"
  BY <1>2, <1>4, <1>5
<1>8. QED
  BY <1>2, <1>5, <1>6, <1>7

\* a core alone, or on its way
LEMMA AloneSeen ==
  ASSUME TypeOK, Staged, NEW k \in Kinds, NEW g, g # "RESET", NEW s,
         NEW x \in {"IDLE", "SH_HALT", "END_SYNC"},
         Machines(g, s, k, x, "IDLE"), Paired(k), s # "IDLE" \/ x # "IDLE"
  PROVE  /\ JobProtection = cfg /\ ~Repairing
         /\ JobTeam = (IF x = "IDLE" THEN {} ELSE {master}) \cup Named
         /\ JobPhase = IF s = "START" THEN "launch"
                       ELSE IF cfg = SINGLE /\ s = "RUN" /\ x = "IDLE" THEN "run" ELSE "switch"
<1>1. single = s /\ gen = g
  BY DEF Machines
<1>2. /\ Engaged = IF x = "IDLE" THEN {} ELSE {master}
      /\ Loading <=> s = "START"
      /\ Checked = {} /\ ~Repairing
  BY LoneSeen
<1>3. Settled <=> cfg = SINGLE /\ s = "RUN" /\ x = "IDLE"
  BY <1>1, <1>2 DEF Settled
<1>4. /\ JobPhase = IF Loading THEN "launch" ELSE IF Settled THEN "run" ELSE "switch"
      /\ JobProtection = cfg /\ JobTeam = Engaged \cup Named
  <2>1. Active /\ gen # "RESET"
    BY <1>1, <1>2 DEF Active
  <2>2. QED
    BY <2>1, ActiveSeen
<1>5. QED
  BY <1>2, <1>3, <1>4

-----------------------------------------------------------------------------
(* What each stage is to the job.                                          *)

LEMMA SizeOf ==
  ASSUME TypeOK
  PROVE  /\ {master} \in J!Singles /\ {master} \in J!TeamsOf(SINGLE)
         /\ \A k \in Kinds : Paired(k) =>
              /\ Team(k) \notin J!Singles
              /\ ModeOf(cfg) = k => Team(k) \in J!TeamsOf(cfg) /\ cfg \in J!Protection \ {SINGLE}
<1>1. master \in Hart /\ {master} \in J!Singles /\ {master} \in J!TeamsOf(SINGLE)
  BY DEF TypeOK, CtrlTypeOK, J!Singles, J!TeamsOf, SINGLE
<1>2. ASSUME NEW k \in Kinds, Paired(k)
      PROVE  /\ Team(k) \notin J!Singles
             /\ ModeOf(cfg) = k => Team(k) \in J!TeamsOf(cfg) /\ cfg \in J!Protection \ {SINGLE}
  <2>1. CASE k = "TMR_MODE"
    <3>1. Team(k) = Hart
      BY <1>2, <2>1, TeamIs
    <3>2. Hart \notin J!Singles
      BY TwoOthers DEF J!Singles
    <3>3. ModeOf(cfg) = k => cfg = TCLS
      BY <2>1, ConfigOf
    <3>4. QED
      BY <3>1, <3>2, <3>3 DEF J!TeamsOf, J!Protection, SINGLE, TCLS
  <2>2. CASE k = "DMR_MODE"
    <3>1. PICK q \in Hart : q # master /\ Team(k) = {master, q}
      BY <1>1, <1>2, <2>2, TeamIs, PairOfTwo
    <3>2. Team(k) \notin J!Singles /\ Team(k) \in J!Pairs
      BY <1>1, <3>1 DEF J!Singles, J!Pairs
    <3>3. ModeOf(cfg) = k => cfg \in Dual
      BY <2>2, ConfigOf
    <3>4. QED
      BY <3>2, <3>3 DEF J!TeamsOf, J!Protection, SINGLE, Dual, DCLS, LOCKSTEP
  <2>3. QED
    BY <1>2, <2>1, <2>2 DEF Kinds
<1>3. QED
  BY <1>1, <1>2

Waiting == Resetting \/ Booting \/ Idling \/ Ready
Loads(k) == Starting(k) \/ Entering(k)
Meets(k) == \/ Saving(k) \/ Asking(k) \/ Calling(k)
            \/ Halting(k) \/ Restoring(k) \/ Syncing(k)
Parts(k) == Waking(k) \/ Returning(k)

\* the cores of k, as many as cfg asks for
Suits(k) == /\ ModeOf(cfg) = k /\ Paired(k)
            /\ Team(k) \in J!TeamsOf(cfg) /\ cfg \in J!Protection \ {SINGLE}

LEMMA WaitingSeen ==
  ASSUME TypeOK, Waiting
  PROVE  Seen("rest", SINGLE, {}, FALSE)
<1>1. ~interrupt
  BY DEF Waiting, Resetting, Booting, Idling, Ready, Fresh, Raised, Falling, Running, Quiet, Intr
<1>2. CASE Resetting
  <2>1. JobPhase = "rest"
    BY <1>1, <1>2 DEF JobPhase, Resetting
  <2>2. ~Repairing
    BY <1>2 DEF Resetting, Repairing, TmrIn, DmrIn
  <2>3. QED
    BY <2>1, <2>2 DEF Seen, JobProtection, JobTeam, NoJob
<1>3. CASE Booting \/ Idling \/ Ready
  <2>1. PICK g : AllIdle(g, "IDLE")
    BY <1>3 DEF Booting, Idling, Ready
  <2>2. Machines(g, "IDLE", "TMR_MODE", "IDLE", "IDLE") /\ single = "IDLE"
    BY <2>1 DEF AllIdle, Machines
  <2>3. Engaged = {} /\ ~Repairing
    BY <2>2, LoneSeen DEF Kinds, Paired
  <2>4. JobPhase = "rest"
    BY <1>1, <2>2, <2>3 DEF JobPhase
  <2>5. QED
    BY <2>3, <2>4 DEF Seen, JobProtection, JobTeam, NoJob
<1>4. QED
  BY <1>2, <1>3 DEF Waiting

LEMMA FinishedSeen ==
  ASSUME TypeOK, Finished
  PROVE  Seen("done", SINGLE, {}, FALSE)
<1>1. interrupt
  BY DEF Finished, Signalled, Intr
<1>2. PICK g : AllIdle(g, "IDLE")
  BY DEF Finished
<1>3. Machines(g, "IDLE", "TMR_MODE", "IDLE", "IDLE")
  BY <1>2 DEF AllIdle, Machines
<1>4. ~Repairing
  BY <1>3, LoneSeen DEF Kinds, Paired
<1>5. JobPhase = "done"
  BY <1>1 DEF JobPhase
<1>6. QED
  BY <1>4, <1>5 DEF Seen, JobProtection, JobTeam, NoJob

LEMMA SingleSeen ==
  ASSUME TypeOK, Staged
  PROVE  /\ SingleStarting => Seen("launch", SINGLE, {master}, FALSE) /\ cfg = SINGLE
         /\ SingleRunning => Seen("run", SINGLE, {master}, FALSE) /\ cfg = SINGLE
         /\ SingleLeaving => \E k \in Kinds : Seen("switch", cfg, Team(k), FALSE) /\ Suits(k)
<1>1. ASSUME NEW s \in {"START", "RUN"}, AllIdle("SINGLE_MODE", s)
      PROVE  /\ JobProtection = cfg /\ ~Repairing /\ JobTeam = Named
             /\ JobPhase = IF s = "START" THEN "launch"
                           ELSE IF cfg = SINGLE THEN "run" ELSE "switch"
  <2>1. Machines("SINGLE_MODE", s, "TMR_MODE", "IDLE", "IDLE")
    BY <1>1 DEF AllIdle
  <2>2. PICK x \in {"IDLE", "SH_HALT", "END_SYNC"} : x = "IDLE"
    OBVIOUS
  <2>3. Machines("SINGLE_MODE", s, "TMR_MODE", x, "IDLE")
    BY <2>1, <2>2
  <2>4. /\ JobProtection = cfg /\ ~Repairing
        /\ JobTeam = (IF x = "IDLE" THEN {} ELSE {master}) \cup Named
        /\ JobPhase = IF s = "START" THEN "launch"
                      ELSE IF cfg = SINGLE /\ s = "RUN" /\ x = "IDLE" THEN "run" ELSE "switch"
    <3>1. PICK g : g = "SINGLE_MODE"
      OBVIOUS
    <3>2. Machines(g, s, "TMR_MODE", x, "IDLE") /\ Paired("TMR_MODE") /\ g # "RESET"
      BY <2>3, <3>1 DEF Paired
    <3>3. QED
      BY <3>2, AloneSeen DEF Kinds
  <2>5. QED
    BY <1>1, <2>2, <2>4
<1>2. SingleStarting => Seen("launch", SINGLE, {master}, FALSE) /\ cfg = SINGLE
  BY <1>1, NamedIs DEF SingleStarting, Seen
<1>3. SingleRunning => Seen("run", SINGLE, {master}, FALSE) /\ cfg = SINGLE
  <2> SUFFICES ASSUME SingleRunning
               PROVE  Seen("run", SINGLE, {master}, FALSE) /\ cfg = SINGLE
    OBVIOUS
  <2>1. AllIdle("SINGLE_MODE", "RUN") /\ cfg = SINGLE
    BY ConfigOf DEF SingleRunning, SingleAt, Executes
  <2>2. QED
    BY <1>1, <2>1, NamedIs DEF Seen
<1>4. ASSUME SingleLeaving
      PROVE  \E k \in Kinds : Seen("switch", cfg, Team(k), FALSE) /\ Suits(k)
  <2>1. AllIdle("SINGLE_MODE", "RUN") /\ cfg # SINGLE /\ Configured
    BY <1>4 DEF SingleLeaving
  <2>2. PICK k \in Kinds : ModeOf(cfg) = k /\ Paired(k)
    BY <2>1 DEF Configured, ModeOf, Kinds, Paired, TypeOK, CtrlTypeOK, Config, Dual, SINGLE,
                TCLS, DCLS, LOCKSTEP
  <2>3. Suits(k) /\ Named = Team(k)
    BY <2>2, SizeOf, NamedIs DEF Suits
  <2>4. Seen("switch", cfg, Team(k), FALSE)
    BY <1>1, <2>1, <2>3 DEF Seen
  <2>5. QED
    BY <2>3, <2>4
<1>5. QED
  BY <1>2, <1>3, <1>4

LEMMA LoadsSeen ==
  ASSUME TypeOK, Staged, NEW k \in Kinds, Loads(k)
  PROVE  Seen("launch", cfg, Team(k), FALSE) /\ Suits(k)
<1>1. ModeOf(cfg) = k /\ Paired(k)
  BY DEF Loads, Starting, Entering, Working
<1>2. PICK x \in {"START", "BOOT"} : AllIn(k, x)
  BY DEF Loads, Starting, Entering
<1>3. /\ JobProtection = cfg /\ JobTeam = Team(k)
      /\ JobPhase = "launch" /\ ~Repairing
  BY <1>1, <1>2, TeamSeen
<1>4. QED
  BY <1>1, <1>3, SizeOf DEF Seen, Suits

LEMMA MeetsSeen ==
  ASSUME TypeOK, Staged, NEW k \in Kinds, Meets(k)
  PROVE  Seen("switch", cfg, Team(k), FALSE) /\ Suits(k)
<1>1. ModeOf(cfg) = k /\ Paired(k)
  BY DEF Meets, Saving, Asking, Calling, Halting, Restoring, Syncing, Meeting, Working
<1>2. CASE Saving(k) \/ Asking(k)
  <2>1. PICK x \in {"IDLE", "SH_HALT", "END_SYNC"} :
          /\ Machines(k, Switch(k), k, x, "IDLE") /\ x # "END_SYNC"
    BY <1>2 DEF Saving, Asking
  <2>2. k # "RESET" /\ Switch(k) \notin {"IDLE", "START", "RUN"}
    BY DEF Kinds, Switch
  <2>3. /\ JobProtection = cfg /\ ~Repairing
        /\ JobTeam = (IF x = "IDLE" THEN {} ELSE {master}) \cup Named
        /\ JobPhase = "switch"
    BY <1>1, <2>1, <2>2, AloneSeen
  <2>4. JobTeam = Team(k)
    BY <1>1, <2>3, NamedIs, TeamIs
  <2>5. QED
    BY <1>1, <2>3, <2>4, SizeOf DEF Seen, Suits
<1>3. CASE Calling(k)
  <2>1. PICK x : x = "SH_HALT"
    OBVIOUS
  <2>2. Machines(k, Switch(k), k, x, x) /\ x # "IDLE"
    BY <1>3, <2>1 DEF Calling
  <2>3. Switch(k) \notin {"IDLE", "START", "RUN"}
    BY DEF Switch
  <2>4. /\ Engaged = Team(k) /\ Engaged # {}
        /\ ~Loading /\ Checked = {} /\ ~Repairing
    BY <1>1, <2>1, <2>2, <2>3, AllInSeen
  <2>5. gen = k /\ single = Switch(k)
    BY <2>2 DEF Machines
  <2>6. ~Settled /\ Active /\ gen # "RESET"
    BY <2>3, <2>4, <2>5 DEF Settled, Active, Kinds
  <2>7. JobPhase = "switch" /\ JobProtection = cfg /\ JobTeam = Engaged \cup Named
    BY <2>4, <2>6, ActiveSeen
  <2>8. JobTeam = Team(k)
    BY <1>1, <2>4, <2>7, NamedIs
  <2>9. QED
    BY <1>1, <2>4, <2>7, <2>8, SizeOf DEF Seen, Suits
<1>4. CASE Halting(k) \/ Restoring(k) \/ Syncing(k)
  <2>1. PICK x \in {"SH_HALT", "WAIT_SH", "MS_INTRSYNC"} : AllIn(k, x)
    BY <1>4 DEF Halting, Restoring, Syncing
  <2>2. /\ JobProtection = cfg /\ JobTeam = Team(k)
        /\ JobPhase = "switch" /\ ~Repairing
    BY <1>1, <2>1, TeamSeen
  <2>3. QED
    BY <1>1, <2>2, SizeOf DEF Seen, Suits
<1>5. QED
  BY <1>2, <1>3, <1>4 DEF Meets

\* a team that runs the program, or is about to part
TeamPhase == IF cfg = SINGLE THEN "switch" ELSE "run"
Formed(k) == Paired(k) /\ (cfg = SINGLE \/ Suits(k)) /\ Team(k) \notin J!Singles

LEMMA FormedIs ==
  ASSUME TypeOK, NEW k \in Kinds, NEW v, Executes(k, v)
  PROVE  Formed(k) /\ (cfg = SINGLE => v \in Left /\ Running)
<1>1. Paired(k) /\ (v \in Left => cfg = SINGLE) /\ (v \notin Left => ModeOf(cfg) = k) /\ LifeAt(v)
  BY DEF Executes
<1>2. ModeOf(cfg) = k => cfg # SINGLE
  BY NamedIs
<1>3. cfg = SINGLE => v \in Left /\ Running
  BY <1>1, <1>2 DEF LifeAt, Left
<1>4. QED
  BY <1>1, <1>3, SizeOf DEF Formed, Suits

LEMMA SyncSeen ==
  ASSUME TypeOK, Staged, NEW k \in Kinds, NEW v, Executes(k, v),
         NEW x \in {"SYNC", "SYNCINTC", "SWSYNC"}, AllIn(k, x), k = "DMR_MODE" => x = "SYNC"
  PROVE  /\ Seen(TeamPhase, cfg, Team(k), x # "SYNC") /\ Formed(k)
         /\ cfg = SINGLE => v \in Left /\ Running
<1>1. Formed(k) /\ (cfg = SINGLE => v \in Left /\ Running)
  BY FormedIs
<1>2. Paired(k) /\ (cfg = SINGLE \/ ModeOf(cfg) = k) /\ x # "IDLE"
  BY <1>1 DEF Formed, Suits
<1>3. /\ JobProtection = cfg /\ JobTeam = Team(k)
      /\ JobPhase = IF x \in {"START", "BOOT"} THEN "launch"
                    ELSE IF cfg # SINGLE /\ (x = "SYNC" \/ Repairing) THEN "run" ELSE "switch"
      /\ Repairing <=> \/ k = "TMR_MODE" /\ x \in {"SYNCINTC", "SWSYNC"}
                       \/ k = "DMR_MODE" /\ x \in {"STOP", "INTC_RECOVERY", "RECOVERY"}
  BY <1>2, TeamSeen
<1>4. Repairing <=> x # "SYNC"
  BY <1>3 DEF Kinds
<1>5. JobPhase = TeamPhase
  BY <1>3, <1>4 DEF TeamPhase
<1>6. QED
  BY <1>1, <1>3, <1>4, <1>5 DEF Seen

LEMMA VotingSeen ==
  ASSUME TypeOK, Staged, Voting
  PROVE  /\ Seen(TeamPhase, cfg, Team("TMR_MODE"), FALSE) /\ Formed("TMR_MODE")
         /\ cfg = SINGLE => Running
<1>1. PICK v : VotingAt(v)
  BY DEF Voting
<1>2. PICK k \in Kinds, x \in {"SYNC", "SYNCINTC", "SWSYNC"} : k = "TMR_MODE" /\ x = "SYNC"
  BY DEF Kinds
<1>3. AllIn(k, x) /\ Executes(k, v) /\ (k = "DMR_MODE" => x = "SYNC")
  BY <1>1, <1>2 DEF Voting, VotingAt
<1>4. /\ Seen(TeamPhase, cfg, Team(k), x # "SYNC") /\ Formed(k)
      /\ cfg = SINGLE => v \in Left /\ Running
  BY <1>3, SyncSeen
<1>5. QED
  BY <1>2, <1>4 DEF Seen

LEMMA ResyncingSeen ==
  ASSUME TypeOK, Staged, NEW x \in {"SYNCINTC", "SWSYNC"}, Resyncing(x)
  PROVE  Seen(TeamPhase, cfg, Team("TMR_MODE"), TRUE) /\ Formed("TMR_MODE")
<1>1. PICK v : ResyncingAt(x, v)
  BY DEF Resyncing
<1>2. PICK k \in Kinds : k = "TMR_MODE"
  BY DEF Kinds
<1>3. AllIn(k, x) /\ Executes(k, v) /\ (k = "DMR_MODE" => x = "SYNC")
  BY <1>1, <1>2 DEF Resyncing, ResyncingAt
<1>4. x \in {"SYNC", "SYNCINTC", "SWSYNC"}
  OBVIOUS
<1>5. Seen(TeamPhase, cfg, Team(k), x # "SYNC") /\ Formed(k)
  BY <1>3, <1>4, SyncSeen
<1>6. QED
  BY <1>2, <1>5 DEF Seen

LEMMA ComparingSeen ==
  ASSUME TypeOK, Staged, Comparing
  PROVE  /\ Seen(TeamPhase, cfg, Team("DMR_MODE"), FALSE) /\ Formed("DMR_MODE")
         /\ cfg = SINGLE => Running
<1>1. PICK v : ComparingAt(v)
  BY DEF Comparing
<1>2. PICK k \in Kinds, x \in {"SYNC", "SYNCINTC", "SWSYNC"} : k = "DMR_MODE" /\ x = "SYNC"
  BY DEF Kinds
<1>3. AllIn(k, x) /\ Executes(k, v)
  BY <1>1, <1>2 DEF Comparing, ComparingAt
<1>4. /\ Seen(TeamPhase, cfg, Team(k), x # "SYNC") /\ Formed(k)
      /\ cfg = SINGLE => v \in Left /\ Running
  BY <1>2, <1>3, SyncSeen
<1>5. QED
  BY <1>2, <1>4 DEF Seen

LEMMA SplitSeen ==
  ASSUME TypeOK, Staged, NEW x \in {"STOP", "INTC_RECOVERY", "RECOVERY"},
         AllIn("DMR_MODE", x), cfg \in Dual, mask \in Pair(master)
  PROVE  Seen("run", cfg, Team("DMR_MODE"), TRUE) /\ Suits("DMR_MODE")
<1>1. PICK k \in Kinds : k = "DMR_MODE"
  BY DEF Kinds
<1>2. ModeOf(cfg) = k /\ Paired(k) /\ cfg # SINGLE /\ x # "IDLE" /\ AllIn(k, x)
  BY <1>1, ConfigOf DEF ModeOf, Paired, Dual, SINGLE, TCLS, DCLS, LOCKSTEP
<1>3. /\ JobProtection = cfg /\ JobTeam = Team(k)
      /\ JobPhase = IF x \in {"START", "BOOT"} THEN "launch"
                    ELSE IF cfg # SINGLE /\ (x = "SYNC" \/ Repairing) THEN "run" ELSE "switch"
      /\ Repairing <=> \/ k = "TMR_MODE" /\ x \in {"SYNCINTC", "SWSYNC"}
                       \/ k = "DMR_MODE" /\ x \in {"STOP", "INTC_RECOVERY", "RECOVERY"}
  BY <1>2, TeamSeen
<1>4. Repairing /\ JobPhase = "run"
  BY <1>1, <1>2, <1>3
<1>5. Suits(k)
  BY <1>2, SizeOf DEF Suits
<1>6. QED
  BY <1>1, <1>3, <1>4, <1>5 DEF Seen

LEMMA PartedSeen ==
  ASSUME TypeOK, Staged, NEW k \in Kinds
  PROVE  /\ Parted(k) => /\ Seen("switch", SINGLE, Team(k), FALSE) /\ cfg = SINGLE
                         /\ Team(k) \notin J!Singles /\ master \in Team(k)
         /\ Parts(k) => Seen("switch", SINGLE, {master}, FALSE) /\ cfg = SINGLE
<1>1. ASSUME Parted(k)
      PROVE  /\ Seen("switch", SINGLE, Team(k), FALSE) /\ cfg = SINGLE
             /\ Team(k) \notin J!Singles /\ master \in Team(k)
  <2>1. cfg = SINGLE /\ Paired(k)
    BY <1>1 DEF Parted, Parting, Working
  <2>2. PICK x : x = "END_SYNC"
    OBVIOUS
  <2>3. AllIn(k, x) /\ x # "IDLE"
    BY <1>1, <2>2 DEF Parted
  <2>4. /\ JobProtection = cfg /\ JobTeam = Team(k)
        /\ JobPhase = IF x \in {"START", "BOOT"} THEN "launch"
                      ELSE IF cfg # SINGLE /\ (x = "SYNC" \/ Repairing) THEN "run" ELSE "switch"
        /\ Repairing <=> \/ k = "TMR_MODE" /\ x \in {"SYNCINTC", "SWSYNC"}
                         \/ k = "DMR_MODE" /\ x \in {"STOP", "INTC_RECOVERY", "RECOVERY"}
    BY <2>1, <2>3, TeamSeen
  <2>5. Seen("switch", SINGLE, Team(k), FALSE)
    BY <2>1, <2>2, <2>4 DEF Seen
  <2>6. QED
    BY <2>1, <2>5, SizeOf, TeamIs
<1>2. ASSUME Parts(k)
      PROVE  Seen("switch", SINGLE, {master}, FALSE) /\ cfg = SINGLE
  <2>1. cfg = SINGLE /\ Paired(k)
    BY <1>2 DEF Parts, Waking, Returning, Parting, Working
  <2>2. PICK s \in {"IDLE", "RUN"}, x \in {"IDLE", "SH_HALT", "END_SYNC"}, g \in Modal :
          Machines(g, s, k, x, "IDLE") /\ x = "END_SYNC" /\ g = "SINGLE_MODE"
    BY <1>2 DEF Parts, Waking, Returning, Modal
  <2>3. /\ JobProtection = cfg /\ ~Repairing
        /\ JobTeam = (IF x = "IDLE" THEN {} ELSE {master}) \cup Named
        /\ JobPhase = IF s = "START" THEN "launch"
                      ELSE IF cfg = SINGLE /\ s = "RUN" /\ x = "IDLE" THEN "run" ELSE "switch"
    BY <2>1, <2>2, AloneSeen
  <2>4. QED
    BY <2>1, <2>2, <2>3, NamedIs DEF Seen
<1>3. QED
  BY <1>1, <1>2

-----------------------------------------------------------------------------
(* Who executes the application's code.                                    *)

LEMMA NobodyExecutes ==
  ASSUME NEW p, NEW c, NEW t, NEW r, Seen(p, c, t, r), \A h \in Hart : pc[h] \notin Program
  PROVE  Executing \in J!Executions
<1>1. Executing = {}
  BY DEF Executing
<1>2. QED
  BY <1>1 DEF J!Executions

LEMMA TeamExecutes ==
  ASSUME NEW p \in {"launch", "run"}, NEW c, NEW t \in SUBSET Hart, NEW r \in BOOLEAN,
         Seen(p, c, t, r), \A h \in Hart \ t : pc[h] \notin Program,
         r \/ \E l : \A h \in t : pc[h] = l
  PROVE  Executing \in J!Executions
<1>1. Executing \subseteq t
  BY DEF Executing
<1>2. ~r => Executing \in {{}, t}
  BY <1>1 DEF Executing
<1>3. QED
  BY <1>1, <1>2 DEF J!Executions, Seen

LEMMA RestsOutside ==
  ASSUME NEW G, AtRest(G)
  PROVE  \A h \in G : pc[h] \notin Program
BY DEF AtRest, Rest, Program

LEMMA WaitingExecutes ==
  ASSUME TypeOK, Staged, Waiting \/ Finished
  PROVE  Executing \in J!Executions
<1>1. \A h \in Hart : pc[h] \notin Program
  BY DEF Waiting, Finished, Resetting, Booting, Idling, Ready, AtRest, AllAt, Rest, Program
<1>2. PICK p : Seen(p, SINGLE, {}, FALSE)
  BY WaitingSeen, FinishedSeen
<1>3. PICK c, t, r : Seen(p, c, t, r)
  BY <1>2
<1>4. QED
  BY <1>1, <1>3, NobodyExecutes

LEMMA SingleExecutes ==
  ASSUME TypeOK, Staged, SingleStarting \/ SingleRunning \/ SingleLeaving
  PROVE  Executing \in J!Executions
<1>1. \A h \in Hart \ {master} : pc[h] \notin Program
  BY RestsOutside DEF SingleStarting, SingleRunning, SingleLeaving, Alone, OthersRest
<1>2. CASE SingleStarting
  <2>1. \A h \in Hart : pc[h] \notin Program
    BY <1>1, <1>2 DEF SingleStarting, Rest, Program
  <2>2. PICK p, c, t, r : Seen(p, c, t, r)
    BY <1>2, SingleSeen
  <2>3. QED
    BY <2>1, <2>2, NobodyExecutes
<1>3. CASE SingleLeaving
  <2>1. \A h \in Hart : pc[h] \notin Program
    BY <1>1, <1>3 DEF SingleLeaving, AllAt, Program
  <2>2. PICK p, c, t, r : Seen(p, c, t, r)
    BY <1>3, SingleSeen
  <2>3. QED
    BY <2>1, <2>2, NobodyExecutes
<1>4. CASE SingleRunning
  <2>1. Seen("run", SINGLE, {master}, FALSE) /\ {master} \in SUBSET Hart
    BY <1>4, SingleSeen DEF TypeOK, CtrlTypeOK
  <2>2. \E l : \A h \in {master} : pc[h] = l
    OBVIOUS
  <2>3. QED
    BY <1>1, <2>1, <2>2, TeamExecutes
<1>5. QED
  BY <1>2, <1>3, <1>4

LEMMA ChangingExecutes ==
  ASSUME TypeOK, Staged, NEW k \in Kinds, Starting(k) \/ Meets(k) \/ Parted(k) \/ Parts(k)
  PROVE  Executing \in J!Executions
<1>1. PICK p, c, t, r : Seen(p, c, t, r)
  <2>1. Starting(k) => Loads(k)
    BY DEF Loads
  <2>2. QED
    BY <2>1, LoadsSeen, MeetsSeen, PartedSeen
<1>2. Starting(k) => \A h \in Hart : pc[h] \notin Program
  BY DEF Starting, AtRest, AllAt, Rest, Program
<1>3. Parted(k) \/ Parts(k) => \A h \in Hart : pc[h] \notin Program
  <2>1. Parts(k) => pc[master] \notin Program
    BY DEF Parts, Waking, Returning, Woken, AllAt, Handles, Program
  <2>2. Parted(k) => \A h \in Team(k) : pc[h] \notin Program
    BY DEF Parted, AllAt, Program
  <2>3. Parted(k) => master \in Team(k)
    BY PartedSeen
  <2>4. Parted(k) \/ Parts(k) => \A h \in Hart \ {master} : pc[h] \notin Program
    BY RestsOutside DEF Parted, Parts, Waking, Returning, Parting, OthersRest
  <2>5. QED
    BY <2>1, <2>2, <2>3, <2>4
<1>4. Saving(k) \/ Asking(k) \/ Calling(k) => \A h \in Hart : pc[h] \notin Program
  <2>1. Saving(k) \/ Asking(k) \/ Calling(k) => pc[master] \notin Program
    BY DEF Saving, Asking, Calling, Waits, AllAt, Program
  <2>2. Saving(k) \/ Asking(k) \/ Calling(k) => \A h \in Hart \ {master} : pc[h] \notin Program
    BY RestsOutside DEF Saving, Asking, Calling, OthersRest
  <2>3. QED
    BY <2>1, <2>2
<1>5. Halting(k) \/ Restoring(k) => \A h \in Hart : pc[h] \notin Program
  BY DEF Halting, Restoring, Waits, Peers, AllAt, AtRest, Rest, Program
<1>6. Syncing(k) => \A h \in Hart : pc[h] \notin Program
  BY DEF Syncing, Handles, AllAt, AtRest, Rest, Program
<1>7. QED
  BY <1>1, <1>2, <1>3, <1>4, <1>5, <1>6, NobodyExecutes DEF Meets

LEMMA EnteringExecutes ==
  ASSUME TypeOK, Staged, NEW k \in Kinds, Entering(k)
  PROVE  Executing \in J!Executions
<1>1. Seen("launch", cfg, Team(k), FALSE) /\ Team(k) \in SUBSET Hart
  BY LoadsSeen, TeamIs DEF Loads, Suits
<1>2. (\A h \in Hart \ Team(k) : pc[h] \notin Program) /\ \E l : \A h \in Team(k) : pc[h] = l
  BY RestsOutside DEF Entering, AllAt
<1>3. QED
  BY <1>1, <1>2, TeamExecutes

\* all cores of the team at one place; none of them in the code if it parts
LEMMA TogetherExecutes ==
  ASSUME TypeOK, NEW k \in Kinds, NEW v, Executes(k, v), NEW r \in BOOLEAN,
         Seen(TeamPhase, cfg, Team(k), r), AtRest(Hart \ Team(k)),
         NEW l, \A h \in Team(k) : pc[h] = l, l = v \/ l \in Handler
  PROVE  Executing \in J!Executions
<1>1. \A h \in Hart \ Team(k) : pc[h] \notin Program
  BY RestsOutside
<1>2. Formed(k) /\ (cfg = SINGLE => v \in Left)
  BY FormedIs
<1>3. CASE cfg = SINGLE
  <2>1. l \notin Program
    BY <1>2, <1>3 DEF Left, Program, Handler
  <2>2. \A h \in Hart : pc[h] \notin Program
    BY <1>1, <2>1
  <2>3. PICK p, c, t : Seen(p, c, t, r)
    OBVIOUS
  <2>4. QED
    BY <2>2, <2>3, NobodyExecutes
<1>4. CASE cfg # SINGLE
  <2>1. Seen("run", cfg, Team(k), r) /\ Team(k) \in SUBSET Hart
    BY <1>2, <1>4, TeamIs DEF TeamPhase, Formed
  <2>2. QED
    BY <1>1, <2>1, TeamExecutes
<1>5. QED
  BY <1>3, <1>4

LEMMA VotingExecutes ==
  ASSUME TypeOK, Staged, Voting \/ \E x \in {"SYNCINTC", "SWSYNC"} : Resyncing(x)
  PROVE  Executing \in J!Executions
<1>1. \E r \in BOOLEAN : \E v :
        /\ Seen(TeamPhase, cfg, Team("TMR_MODE"), r) /\ Executes("TMR_MODE", v)
        /\ \E l : (l = v \/ l \in Handler) /\ \A h \in Hart : pc[h] = l
  <2>1. CASE Voting
    <3>1. PICK v : VotingAt(v)
      BY <2>1 DEF Voting
    <3>2. \E l : (l = v \/ l \in Handler) /\ \A h \in Hart : pc[h] = l
      BY <3>1 DEF VotingAt, AllAt, Handles, Handler
    <3>3. QED
      BY <2>1, <3>1, <3>2, VotingSeen DEF VotingAt
  <2>2. ASSUME NEW x \in {"SYNCINTC", "SWSYNC"}, Resyncing(x)
        PROVE  \E r \in BOOLEAN : \E v :
                 /\ Seen(TeamPhase, cfg, Team("TMR_MODE"), r) /\ Executes("TMR_MODE", v)
                 /\ \E l : (l = v \/ l \in Handler) /\ \A h \in Hart : pc[h] = l
    <3>1. PICK v : ResyncingAt(x, v)
      BY <2>2 DEF Resyncing
    <3>2. \E l : (l = v \/ l \in Handler) /\ \A h \in Hart : pc[h] = l
      BY <3>1 DEF ResyncingAt, AllAt, Handles, Handler
    <3>3. Resyncing(x)
      BY <2>2
    <3>4. Seen(TeamPhase, cfg, Team("TMR_MODE"), TRUE)
      BY <3>3, ResyncingSeen
    <3>5. QED
      BY <3>1, <3>2, <3>4 DEF ResyncingAt
  <2>3. QED
    BY <2>1, <2>2
<1>2. PICK r \in BOOLEAN : \E v, l :
        /\ Seen(TeamPhase, cfg, Team("TMR_MODE"), r) /\ Executes("TMR_MODE", v)
        /\ (l = v \/ l \in Handler) /\ \A h \in Hart : pc[h] = l
  BY <1>1
<1>3. PICK v, l :
        /\ Seen(TeamPhase, cfg, Team("TMR_MODE"), r) /\ Executes("TMR_MODE", v)
        /\ (l = v \/ l \in Handler) /\ \A h \in Hart : pc[h] = l
  BY <1>2
<1>4. PICK k \in Kinds : k = "TMR_MODE"
  BY DEF Kinds
<1>5. AtRest(Hart \ Team(k)) /\ (\A h \in Team(k) : pc[h] = l)
  BY <1>3, <1>4 DEF Team, AtRest
<1>6. Seen(TeamPhase, cfg, Team(k), r) /\ Executes(k, v)
  BY <1>3, <1>4
<1>7. QED
  BY <1>3, <1>5, <1>6, TogetherExecutes

LEMMA ComparingExecutes ==
  ASSUME TypeOK, Staged, Comparing
  PROVE  Executing \in J!Executions
<1>1. PICK k \in Kinds : k = "DMR_MODE" /\ Team(k) = mask
  BY DEF Kinds, Team
<1>2. PICK v : ComparingAt(v)
  BY DEF Comparing
<1>3. PICK l : (l = v \/ l \in Handler) /\ \A h \in mask : pc[h] = l
  BY <1>2 DEF ComparingAt, AllAt, Handles, Handler
<1>4. /\ AtRest(Hart \ Team(k)) /\ (\A h \in Team(k) : pc[h] = l)
      /\ Executes(k, v)
  BY <1>1, <1>2, <1>3 DEF Comparing, ComparingAt
<1>5. PICK r \in BOOLEAN : Seen(TeamPhase, cfg, Team(k), r)
  BY <1>1, ComparingSeen
<1>6. QED
  BY <1>3, <1>4, <1>5, TogetherExecutes

LEMMA SplitExecutes ==
  ASSUME TypeOK, Staged, NEW x \in {"STOP", "INTC_RECOVERY", "RECOVERY"},
         AllIn("DMR_MODE", x), cfg \in Dual, mask \in Pair(master), AtRest(Hart \ mask)
  PROVE  Executing \in J!Executions
<1>1. Seen("run", cfg, mask, TRUE) /\ mask \in SUBSET Hart
  BY SplitSeen DEF Team, TypeOK, CtrlTypeOK
<1>2. \A h \in Hart \ mask : pc[h] \notin Program
  BY RestsOutside
<1>3. QED
  BY <1>1, <1>2, TeamExecutes

-----------------------------------------------------------------------------
(* What a cycle of a running program may write into the registers that     *)
(* name the team.                                                          *)

Unrun(l) == \A h \in Hart : ~Runs(h, l)

LEMMA WriteForms ==
  ASSUME NEW h \in Hart, NEW call
  PROVE  \/ WriteOf(h, call) = NoWrite
         \/ \E b \in BOOLEAN : WriteOf(h, call) \in {[initSync |-> b], [crit |-> b]}
         \/ WriteOf(h, call) = [endSw |-> TRUE]
         \/ WriteOf(h, call) = [cfg |-> mode[h]] /\ ~Unrun("act_cfg")
         \/ WriteOf(h, call) = [cfg |-> SINGLE] /\ ~Unrun("stop_cfg")
         \/ WriteOf(h, call) = [master |-> heir[h]] /\ ~Unrun("stop_mst")
         \/ WriteOf(h, call) = [mask |-> call.mask] /\ call.mask # mask /\ Runs(h, "main")
<1>1. \A l, m : Runs(h, l) /\ Runs(h, m) => l = m
  BY DEF Runs
<1>2. \A l : Unrun(l) => ~Runs(h, l)
  BY DEF Unrun
<1>3. /\ Runs(h, "act_cfg") => WriteOf(h, call) = [cfg |-> mode[h]]
      /\ Runs(h, "act_sync") => WriteOf(h, call) = [initSync |-> TRUE]
      /\ Runs(h, "act_end") => WriteOf(h, call) = [initSync |-> FALSE]
      /\ Runs(h, "stop_crit") \/ Runs(h, "crit_out") => WriteOf(h, call) = [crit |-> FALSE]
      /\ Runs(h, "stop_mst") => WriteOf(h, call) = [master |-> heir[h]]
      /\ Runs(h, "stop_cfg") => WriteOf(h, call) = [cfg |-> SINGLE]
      /\ Runs(h, "exit") => WriteOf(h, call) = [endSw |-> TRUE]
      /\ Runs(h, "crit_in") => WriteOf(h, call) = [crit |-> TRUE]
      /\ Runs(h, "main") /\ call.mask # mask => WriteOf(h, call) = [mask |-> call.mask]
  BY <1>1 DEF WriteOf
<1>4. \/ WriteOf(h, call) = NoWrite
      \/ \E l \in {"act_cfg", "act_sync", "act_end", "stop_crit", "stop_mst", "stop_cfg",
                   "exit", "crit_in", "crit_out"} : Runs(h, l)
      \/ Runs(h, "main") /\ call.mask # mask
  BY <1>1 DEF WriteOf
<1>5. QED
  BY <1>2, <1>3, <1>4

LEMMA MaskKept ==
  ASSUME Templates, TypeOK, cfg # SINGLE,
         NEW S, NEW call, NEW victims, NEW w, Works(S, call, victims, w)
  PROVE  call.mask = mask
<1>1. call \in Calls \/ call = Stay
  BY DEF Works, CallsOf
<1>2. CASE call = Stay
  BY <1>2 DEF Stay, Plain, Call
<1>3. CASE call \in Calls
  BY <1>3, CallIs DEF TypeOK, CtrlTypeOK
<1>4. QED
  BY <1>1, <1>2, <1>3

LEMMA RegistersKept ==
  ASSUME Templates, TypeOK, NEW S, NEW call, NEW victims, NEW w, Works(S, call, victims, w)
  PROVE  /\ Unrun("act_cfg") => cfg' \in {cfg, SINGLE}
         /\ Unrun("act_cfg") /\ Unrun("stop_cfg") => cfg' = cfg
         /\ Unrun("stop_mst") => master' = master
         /\ cfg # SINGLE \/ Unrun("main") => mask' = mask
<1>1. S \subseteq Hart /\ CtrlTick(w, CtrlIn)
  BY DEF Works, Cycle, Movers
<1>2. w = NoWrite \/ \E h \in S : w = WriteOf(h, call)
  BY WriteIs
<1>3. CASE w = NoWrite
  BY <1>1, <1>3, TickNoWrite DEF softVars
<1>4. ASSUME NEW h \in S, w = WriteOf(h, call), w # NoWrite
      PROVE  /\ Unrun("act_cfg") => cfg' \in {cfg, SINGLE}
             /\ Unrun("act_cfg") /\ Unrun("stop_cfg") => cfg' = cfg
             /\ Unrun("stop_mst") => master' = master
             /\ cfg # SINGLE \/ Unrun("main") => mask' = mask
  <2>1. h \in Hart
    BY <1>1
  <2>2. ASSUME NEW b \in BOOLEAN, w \in {[initSync |-> b], [crit |-> b]}
        PROVE  UNCHANGED <<cfg, mask, master>>
    BY <1>1, <2>2, TickInitSync, TickCrit
  <2>3. w = [endSw |-> TRUE] => UNCHANGED <<cfg, mask, master>>
    BY <1>1, TickEndSw DEF softVars
  <2>4. \A c : w = [cfg |-> c] => cfg' = c /\ UNCHANGED <<mask, master>>
    BY <1>1, TickCfg
  <2>5. \A c : w = [master |-> c] => UNCHANGED <<cfg, mask>>
    BY <1>1, TickMaster
  <2>6. \A c : w = [mask |-> c] => mask' = c /\ UNCHANGED <<cfg, master>>
    BY <1>1, TickMask
  <2>7. Runs(h, "main") => ~Unrun("main")
    BY <2>1 DEF Unrun
  <2>8. cfg # SINGLE => call.mask = mask
    BY MaskKept
  <2>9. QED
    BY <1>4, <2>1, <2>2, <2>3, <2>4, <2>5, <2>6, <2>7, <2>8, WriteForms
<1>5. QED
  BY <1>2, <1>3, <1>4

\* the labels the cores are at
LEMMA UnrunAt ==
  ASSUME NEW l, \A h \in Hart : pc[h] # l
  PROVE  Unrun(l)
BY DEF Unrun, Runs

-----------------------------------------------------------------------------
(* The view of every stage, in one predicate: what a cycle finds and what  *)
(* it leaves.                                                              *)

Held(k) == Suits(k) /\ master \in Team(k)

ViewedAlone ==
  /\ Waiting => Seen("rest", SINGLE, {}, FALSE)
  /\ Finished => Seen("done", SINGLE, {}, FALSE)
  /\ SingleStarting => Seen("launch", SINGLE, {master}, FALSE) /\ cfg = SINGLE
  /\ SingleRunning => Seen("run", SINGLE, {master}, FALSE) /\ cfg = SINGLE
  /\ SingleLeaving => \E k \in Kinds : Seen("switch", cfg, Team(k), FALSE) /\ Held(k)
ViewedTeam(k) ==
  /\ Loads(k) => Seen("launch", cfg, Team(k), FALSE) /\ Held(k)
  /\ Meets(k) => Seen("switch", cfg, Team(k), FALSE) /\ Held(k)
  /\ Parted(k) => /\ Seen("switch", SINGLE, Team(k), FALSE) /\ cfg = SINGLE
                  /\ Team(k) \notin J!Singles /\ master \in Team(k)
  /\ Parts(k) => Seen("switch", SINGLE, {master}, FALSE) /\ cfg = SINGLE
ViewedRun ==
  /\ Voting => /\ Seen(TeamPhase, cfg, Team("TMR_MODE"), FALSE) /\ Formed("TMR_MODE")
               /\ cfg = SINGLE => Running
  /\ Comparing => /\ Seen(TeamPhase, cfg, Team("DMR_MODE"), FALSE) /\ Formed("DMR_MODE")
                  /\ cfg = SINGLE => Running
  /\ \A x \in {"SYNCINTC", "SWSYNC"} :
       Resyncing(x) => Seen(TeamPhase, cfg, Team("TMR_MODE"), TRUE) /\ Formed("TMR_MODE")
  /\ Isolating \/ (\E x \in {"INTC_RECOVERY", "RECOVERY"} : Recovering(x)) =>
       Seen("run", cfg, Team("DMR_MODE"), TRUE) /\ Suits("DMR_MODE")
Viewed ==
  /\ ViewedAlone /\ ViewedRun
  /\ \A k \in Kinds : ViewedTeam(k)
  /\ Executing \in J!Executions

LEMMA StagedViewed ==
  ASSUME TypeOK, Staged
  PROVE  Viewed
<1>1. ViewedAlone
  <2>1. \A k \in Kinds : Suits(k) => Held(k)
    BY TeamIs DEF Suits, Held
  <2>2. QED
    BY <2>1, WaitingSeen, FinishedSeen, SingleSeen DEF ViewedAlone
<1>2. ASSUME NEW k \in Kinds
      PROVE  ViewedTeam(k)
  <2>1. Suits(k) => Held(k)
    BY TeamIs DEF Suits, Held
  <2>2. QED
    BY <2>1, LoadsSeen, MeetsSeen, PartedSeen DEF ViewedTeam
<1>3. Isolating \/ (\E x \in {"INTC_RECOVERY", "RECOVERY"} : Recovering(x)) =>
        \E x \in {"STOP", "INTC_RECOVERY", "RECOVERY"} :
          AllIn("DMR_MODE", x) /\ cfg \in Dual /\ mask \in Pair(master) /\ AtRest(Hart \ mask)
  BY DEF Isolating, Recovering, Working, Paired
<1>4. ViewedRun
  <2>1. Isolating \/ (\E x \in {"INTC_RECOVERY", "RECOVERY"} : Recovering(x)) =>
          Seen("run", cfg, Team("DMR_MODE"), TRUE) /\ Suits("DMR_MODE")
    BY <1>3, SplitSeen
  <2>2. \A x \in {"SYNCINTC", "SWSYNC"} :
          Resyncing(x) => Seen(TeamPhase, cfg, Team("TMR_MODE"), TRUE) /\ Formed("TMR_MODE")
    BY ResyncingSeen
  <2>3. QED
    BY <2>1, <2>2, VotingSeen, ComparingSeen DEF ViewedRun
<1>5. Executing \in J!Executions
  <2>1. ASSUME NEW k \in Kinds, Stage(k)
        PROVE  Executing \in J!Executions
    <3>1. Starting(k) \/ Meets(k) \/ Parted(k) \/ Parts(k) \/ Entering(k)
      BY <2>1 DEF Stage, Meets, Parts
    <3>2. QED
      BY <3>1, ChangingExecutes, EnteringExecutes
  <2>2. ASSUME Isolating \/ \E x \in {"INTC_RECOVERY", "RECOVERY"} : Recovering(x)
        PROVE  Executing \in J!Executions
    BY <1>3, <2>2, SplitExecutes
  <2>3. QED
    BY <2>1, <2>2, WaitingExecutes, SingleExecutes, VotingExecutes, ComparingExecutes
       DEF Staged, Kinds, Waiting
<1>6. QED
  BY <1>1, <1>2, <1>4, <1>5 DEF Viewed

-----------------------------------------------------------------------------
(* The steps of the job.                                                   *)

Steps == \/ J!Launch \/ J!Begin \/ J!Activate \/ J!Stop \/ J!Inherit \/ J!Settle
         \/ J!Repair \/ J!Repaired \/ J!End \/ J!Acknowledge \/ J!Work

\* what a cycle leads from, and to
Leads(p, c, t, r, q, d, u, s) ==
  /\ JobPhase = p /\ JobProtection = c /\ JobTeam = t /\ Repairing = r
  /\ JobPhase' = q /\ JobProtection' = d /\ JobTeam' = u /\ Repairing' = s

LEMMA LeadsWhere ==
  ASSUME NEW p, NEW c, NEW t, NEW r \in BOOLEAN, NEW q, NEW d, NEW u, NEW s \in BOOLEAN,
         Seen(p, c, t, r), Seen(q, d, u, s)'
  PROVE  Leads(p, c, t, r, q, d, u, s)
<1>1. Repairing \in BOOLEAN /\ Repairing' \in BOOLEAN
  BY DEF Repairing
<1>2. Repairing = r /\ Repairing' = s
  BY <1>1 DEF Seen
<1>3. QED
  BY <1>2 DEF Seen, Leads

LEMMA WorkStep ==
  ASSUME NEW p, NEW c, NEW t, NEW r \in BOOLEAN, Leads(p, c, t, r, p, c, t, r)
  PROVE  Steps
<1>1. J!Work
  BY DEF Leads, J!Work
<1>2. QED
  BY <1>1 DEF Steps

LEMMA LaunchStep ==
  ASSUME NEW c, NEW t, NEW r \in BOOLEAN, NEW d \in J!Protection, NEW u \in J!TeamsOf(d),
         Leads("rest", c, t, r, "launch", d, u, FALSE)
  PROVE  Steps
<1>1. J!Launch
  BY DEF Leads, J!Launch, J!Goes
<1>2. QED
  BY <1>1 DEF Steps

LEMMA BeginStep ==
  ASSUME NEW c, NEW t, NEW r \in BOOLEAN, Leads("launch", c, t, r, "run", c, t, r)
  PROVE  Steps
<1>1. J!Begin
  BY DEF Leads, J!Begin, J!Goes
<1>2. QED
  BY <1>1 DEF Steps

LEMMA ActivateStep ==
  ASSUME NEW t, NEW d \in J!Protection \ {SINGLE}, NEW u \in J!TeamsOf(d), t \subseteq u,
         Leads("run", SINGLE, t, FALSE, "switch", d, u, FALSE)
  PROVE  Steps
<1>1. J!Activate
  BY DEF Leads, J!Activate, J!Goes, SINGLE
<1>2. QED
  BY <1>1 DEF Steps

LEMMA StopStep ==
  ASSUME NEW c, c # SINGLE, NEW t, NEW s \in BOOLEAN,
         Leads("run", c, t, FALSE, "switch", SINGLE, t, s)
  PROVE  Steps
<1>1. J!Stop
  BY DEF Leads, J!Stop, J!Goes, SINGLE
<1>2. QED
  BY <1>1 DEF Steps

LEMMA InheritStep ==
  ASSUME NEW t, t \notin J!Singles, NEW h \in t,
         Leads("switch", SINGLE, t, FALSE, "switch", SINGLE, {h}, FALSE)
  PROVE  Steps
<1>1. J!Inherit
  BY DEF Leads, J!Inherit, SINGLE
<1>2. QED
  BY <1>1 DEF Steps

LEMMA SettleStep ==
  ASSUME NEW c, NEW t \in J!TeamsOf(c), Leads("switch", c, t, FALSE, "run", c, t, FALSE)
  PROVE  Steps
<1>1. J!Settle
  BY DEF Leads, J!Settle, J!Goes
<1>2. QED
  BY <1>1 DEF Steps

LEMMA RepairStep ==
  ASSUME NEW c, NEW t, t \notin J!Singles, Leads("run", c, t, FALSE, "run", c, t, TRUE)
  PROVE  Steps
<1>1. J!Repair
  BY DEF Leads, J!Repair
<1>2. QED
  BY <1>1 DEF Steps

LEMMA RepairedStep ==
  ASSUME NEW p, NEW c, NEW t, Leads(p, c, t, TRUE, p, c, t, FALSE)
  PROVE  Steps
<1>1. J!Repaired
  BY DEF Leads, J!Repaired
<1>2. QED
  BY <1>1 DEF Steps

LEMMA EndStep ==
  ASSUME NEW c, NEW t, Leads("run", c, t, FALSE, "done", SINGLE, {}, FALSE)
  PROVE  Steps
<1>1. J!End
  BY DEF Leads, J!End, J!Goes, J!Released, SINGLE
<1>2. QED
  BY <1>1 DEF Steps

LEMMA AcknowledgeStep ==
  ASSUME NEW c, NEW t, NEW r \in BOOLEAN, Leads("done", c, t, r, "rest", SINGLE, {}, FALSE)
  PROVE  Steps
<1>1. J!Acknowledge
  BY DEF Leads, J!Acknowledge, J!Goes, J!Released, SINGLE
<1>2. QED
  BY <1>1 DEF Steps

-----------------------------------------------------------------------------
(* The cycles, one step of the job each.                                   *)

LEMMA RestSteps ==
  ASSUME Viewed, Viewed', TypeOK'
  PROVE  /\ Waiting /\ Waiting' => Steps
         /\ Waiting /\ SingleStarting' => Steps
         /\ \A k \in Kinds : Waiting /\ Starting(k)' => Steps
         /\ Finished /\ Waiting' => Steps
<1>1. /\ Waiting => Seen("rest", SINGLE, {}, FALSE)
      /\ Finished => Seen("done", SINGLE, {}, FALSE)
  BY DEF Viewed, ViewedAlone
<1>2. /\ Waiting' => Seen("rest", SINGLE, {}, FALSE)'
      /\ SingleStarting' => Seen("launch", SINGLE, {master}, FALSE)'
  BY DEF Viewed, ViewedAlone
<1>3. ASSUME Waiting, Waiting'
      PROVE  Steps
  <2>1. Leads("rest", SINGLE, {}, FALSE, "rest", SINGLE, {}, FALSE)
    BY <1>1, <1>2, <1>3, LeadsWhere DEF SINGLE
  <2>2. QED
    BY <2>1, WorkStep DEF SINGLE
<1>4. ASSUME Waiting, SingleStarting'
      PROVE  Steps
  <2>1. PICK u : u = {master'}
    OBVIOUS
  <2>2. Leads("rest", SINGLE, {}, FALSE, "launch", SINGLE, u, FALSE)
    BY <1>1, <1>2, <1>4, <2>1, LeadsWhere DEF SINGLE, Seen
  <2>3. u \in J!TeamsOf(SINGLE) /\ SINGLE \in J!Protection
    BY <2>1 DEF J!TeamsOf, J!Singles, J!Protection, SINGLE, TypeOK, CtrlTypeOK
  <2>4. QED
    BY <2>2, <2>3, LaunchStep DEF SINGLE
<1>5. ASSUME NEW k \in Kinds, Waiting, Starting(k)'
      PROVE  Steps
  <2>1. Loads(k)'
    BY <1>5 DEF Loads
  <2>2. Seen("launch", cfg, Team(k), FALSE)' /\ Suits(k)'
    BY <2>1 DEF Viewed, ViewedTeam, Held
  <2>3. PICK d, u : d = cfg' /\ u = Team(k)'
    OBVIOUS
  <2>4. Leads("rest", SINGLE, {}, FALSE, "launch", d, u, FALSE)
    BY <1>1, <1>5, <2>2, <2>3, LeadsWhere DEF SINGLE, Seen
  <2>5. d \in J!Protection /\ u \in J!TeamsOf(d)
    BY <2>2, <2>3 DEF Suits
  <2>6. QED
    BY <2>4, <2>5, LaunchStep DEF SINGLE
<1>6. ASSUME Finished, Waiting'
      PROVE  Steps
  <2>1. Leads("done", SINGLE, {}, FALSE, "rest", SINGLE, {}, FALSE)
    BY <1>1, <1>2, <1>6, LeadsWhere DEF SINGLE
  <2>2. QED
    BY <2>1, AcknowledgeStep DEF SINGLE
<1>7. QED
  BY <1>3, <1>4, <1>5, <1>6

LEMMA SingleSteps ==
  ASSUME Templates, TypeOK, Viewed, Viewed',
         \/ SingleStarting /\ (SingleStarting' \/ SingleRunning')
         \/ SingleRunning /\ (SingleRunning' \/ SingleLeaving' \/ Finished'),
         NEW S, NEW call, NEW victims, NEW w, Works(S, call, victims, w)
  PROVE  Steps
<1>1. \A h \in Hart : pc[h] # "stop_mst"
  BY DEF SingleStarting, SingleRunning, SingleAt, Alone, OthersRest, AtRest, AllAt, Handles,
         Rest, Code
<1>2. master' = master
  BY <1>1, UnrunAt, RegistersKept
<1>3. PICK m : m = master /\ m = master'
  BY <1>2
<1>4. /\ SingleStarting => Seen("launch", SINGLE, {m}, FALSE)
      /\ SingleRunning => Seen("run", SINGLE, {m}, FALSE)
  BY <1>3 DEF Viewed, ViewedAlone
<1>5. /\ SingleStarting' => Seen("launch", SINGLE, {m}, FALSE)'
      /\ SingleRunning' => Seen("run", SINGLE, {m}, FALSE)'
  <2>1. /\ SingleStarting' => Seen("launch", SINGLE, {master}, FALSE)'
        /\ SingleRunning' => Seen("run", SINGLE, {master}, FALSE)'
    BY DEF Viewed, ViewedAlone
  <2>2. QED
    BY <1>3, <2>1 DEF Seen
<1>6. CASE (SingleStarting /\ SingleStarting') \/ (SingleRunning /\ SingleRunning')
  <2>1. PICK p : Seen(p, SINGLE, {m}, FALSE) /\ Seen(p, SINGLE, {m}, FALSE)'
    BY <1>4, <1>5, <1>6
  <2>2. Leads(p, SINGLE, {m}, FALSE, p, SINGLE, {m}, FALSE)
    BY <2>1, LeadsWhere DEF SINGLE
  <2>3. QED
    BY <2>2, WorkStep DEF SINGLE
<1>7. CASE SingleStarting /\ SingleRunning'
  <2>1. Leads("launch", SINGLE, {m}, FALSE, "run", SINGLE, {m}, FALSE)
    BY <1>4, <1>5, <1>7, LeadsWhere DEF SINGLE
  <2>2. QED
    BY <2>1, BeginStep DEF SINGLE
<1>8. CASE SingleRunning /\ SingleLeaving'
  <2>1. PICK k \in Kinds : Seen("switch", cfg, Team(k), FALSE)' /\ Held(k)'
    BY <1>8 DEF Viewed, ViewedAlone
  <2>2. PICK d, u, t : d = cfg' /\ u = Team(k)' /\ t = {m}
    OBVIOUS
  <2>3. Leads("run", SINGLE, t, FALSE, "switch", d, u, FALSE)
    BY <1>4, <1>8, <2>1, <2>2, LeadsWhere DEF SINGLE, Seen
  <2>4. d \in J!Protection \ {SINGLE} /\ u \in J!TeamsOf(d)
    BY <2>1, <2>2 DEF Held, Suits
  <2>5. t \subseteq u
    BY <1>3, <2>1, <2>2 DEF Held
  <2>6. QED
    BY <2>3, <2>4, <2>5, ActivateStep
<1>9. CASE SingleRunning /\ Finished'
  <2>1. Seen("done", SINGLE, {}, FALSE)'
    BY <1>9 DEF Viewed, ViewedAlone
  <2>2. Leads("run", SINGLE, {m}, FALSE, "done", SINGLE, {}, FALSE)
    BY <1>4, <1>9, <2>1, LeadsWhere DEF SINGLE
  <2>3. QED
    BY <2>2, EndStep DEF SINGLE
<1>10. QED
  BY <1>6, <1>7, <1>8, <1>9

LEMMA LeavingSteps ==
  ASSUME Templates, TypeOK, Viewed, Viewed', SingleLeaving, \E k \in Kinds : Saving(k)',
         NEW S, NEW call, NEW victims, NEW w, Works(S, call, victims, w)
  PROVE  Steps
<1>1. \A h \in Hart : pc[h] \in Rest \cup {"act_save"}
  BY DEF SingleLeaving, Alone, OthersRest, AtRest, AllAt
<1>2. Unrun("act_cfg") /\ Unrun("stop_cfg") /\ Unrun("stop_mst")
  BY <1>1, UnrunAt DEF Rest
<1>3. cfg' = cfg /\ master' = master /\ mask' = mask
  BY <1>2, RegistersKept DEF SingleLeaving
<1>4. PICK k \in Kinds : Seen("switch", cfg, Team(k), FALSE) /\ Held(k)
  BY DEF Viewed, ViewedAlone
<1>5. PICK j \in Kinds : Saving(j)'
  OBVIOUS
<1>6. Seen("switch", cfg, Team(j), FALSE)' /\ Held(j)'
  BY <1>5 DEF Meets, Viewed, ViewedTeam
<1>7. j = k /\ Team(j)' = Team(k)
  BY <1>3, <1>4, <1>6 DEF Held, Suits, ModeOf, Team
<1>8. PICK c, t : c = cfg /\ t = Team(k) /\ c = cfg' /\ t = Team(j)'
  BY <1>3, <1>7
<1>9. Leads("switch", c, t, FALSE, "switch", c, t, FALSE)
  BY <1>4, <1>6, <1>8, LeadsWhere DEF Seen
<1>10. QED
  BY <1>9, WorkStep

\* a team on its way, and what it becomes when the way is over
LEMMA TeamKept ==
  ASSUME NEW k \in Kinds, cfg' = cfg, master' = master, mask' = mask
  PROVE  Team(k)' = Team(k) /\ ModeOf(cfg)' = ModeOf(cfg)
BY DEF Team, Kinds, ModeOf

LEMMA Joined ==
  ASSUME Viewed', NEW k \in Kinds, Suits(k), cfg' = cfg, master' = master, mask' = mask,
         Voting' \/ Comparing'
  PROVE  Seen("run", cfg, Team(k), FALSE)'
<1>1. PICK j \in Kinds : /\ Seen(TeamPhase, cfg, Team(j), FALSE)' /\ Formed(j)'
  BY DEF Viewed, ViewedRun, Kinds
<1>2. cfg # SINGLE /\ ModeOf(cfg) = k
  BY DEF Suits
<1>3. j = k
  BY <1>1, <1>2, TeamKept DEF Formed, Suits
<1>4. TeamPhase' = "run"
  BY <1>2 DEF TeamPhase
<1>5. QED
  BY <1>1, <1>3, <1>4 DEF Seen

LEMMA LoadsSteps ==
  ASSUME Templates, TypeOK, Viewed, Viewed', NEW k \in Kinds, Loads(k),
         Loads(k)' \/ Voting' \/ Comparing',
         NEW S, NEW call, NEW victims, NEW w, Works(S, call, victims, w)
  PROVE  Steps
<1>1. \A h \in Hart : pc[h] \in Rest \cup {"dbg", "main"}
  BY DEF Loads, Starting, Entering, AtRest, AllAt
<1>2. Seen("launch", cfg, Team(k), FALSE) /\ Suits(k) /\ cfg # SINGLE
  BY DEF Viewed, ViewedTeam, Held, Suits
<1>3. Unrun("act_cfg") /\ Unrun("stop_cfg") /\ Unrun("stop_mst")
  BY <1>1, UnrunAt DEF Rest
<1>4. cfg' = cfg /\ master' = master /\ mask' = mask
  BY <1>2, <1>3, RegistersKept
<1>5. PICK c, t : c = cfg /\ t = Team(k) /\ c = cfg' /\ t = Team(k)'
  BY <1>4, TeamKept
<1>6. CASE Loads(k)'
  <2>1. Seen("launch", cfg, Team(k), FALSE)'
    BY <1>6 DEF Viewed, ViewedTeam
  <2>2. Leads("launch", c, t, FALSE, "launch", c, t, FALSE)
    BY <1>2, <1>5, <2>1, LeadsWhere DEF Seen
  <2>3. QED
    BY <2>2, WorkStep
<1>7. CASE Voting' \/ Comparing'
  <2>1. Seen("run", cfg, Team(k), FALSE)'
    BY <1>2, <1>4, <1>7, Joined
  <2>2. Leads("launch", c, t, FALSE, "run", c, t, FALSE)
    BY <1>2, <1>5, <2>1, LeadsWhere DEF Seen
  <2>3. QED
    BY <2>2, BeginStep
<1>8. QED
  BY <1>6, <1>7

LEMMA MeetsSteps ==
  ASSUME Templates, TypeOK, Viewed, Viewed', NEW k \in Kinds, Meets(k),
         Meets(k)' \/ Voting' \/ Comparing',
         NEW S, NEW call, NEW victims, NEW w, Works(S, call, victims, w)
  PROVE  Steps
<1>1. \A h \in Hart : pc[h] \notin {"act_cfg", "stop_cfg", "stop_mst"}
  <2>1. \A G, h : AtRest(G) /\ h \in G => pc[h] \notin {"act_cfg", "stop_cfg", "stop_mst"}
    BY DEF AtRest, Rest
  <2>2. Saving(k) \/ Asking(k) \/ Calling(k) =>
          pc[master] \notin {"act_cfg", "stop_cfg", "stop_mst"}
    BY DEF Saving, Asking, Calling, Waits, AllAt
  <2>3. Saving(k) \/ Asking(k) \/ Calling(k) => AtRest(Hart \ {master})
    BY DEF Saving, Asking, Calling, OthersRest
  <2>4. Halting(k) \/ Restoring(k) =>
          \A h \in Hart : pc[h] \notin {"act_cfg", "stop_cfg", "stop_mst"}
    BY DEF Halting, Restoring, Waits, Peers, AllAt, AtRest, Rest
  <2>5. Syncing(k) => \A h \in Hart : pc[h] \notin {"act_cfg", "stop_cfg", "stop_mst"}
    BY DEF Syncing, Handles, AllAt, AtRest, Rest
  <2>6. QED
    BY <2>1, <2>2, <2>3, <2>4, <2>5 DEF Meets
<1>2. Seen("switch", cfg, Team(k), FALSE) /\ Suits(k) /\ cfg # SINGLE
  BY DEF Viewed, ViewedTeam, Held, Suits
<1>3. Unrun("act_cfg") /\ Unrun("stop_cfg") /\ Unrun("stop_mst")
  BY <1>1, UnrunAt
<1>4. cfg' = cfg /\ master' = master /\ mask' = mask
  BY <1>2, <1>3, RegistersKept
<1>5. PICK c, t : c = cfg /\ t = Team(k) /\ c = cfg' /\ t = Team(k)'
  BY <1>4, TeamKept
<1>6. CASE Meets(k)'
  <2>1. Seen("switch", cfg, Team(k), FALSE)'
    BY <1>6 DEF Viewed, ViewedTeam
  <2>2. Leads("switch", c, t, FALSE, "switch", c, t, FALSE)
    BY <1>2, <1>5, <2>1, LeadsWhere DEF Seen
  <2>3. QED
    BY <2>2, WorkStep
<1>7. CASE Voting' \/ Comparing'
  <2>1. Seen("run", cfg, Team(k), FALSE)'
    BY <1>2, <1>4, <1>7, Joined
  <2>2. Leads("switch", c, t, FALSE, "run", c, t, FALSE)
    BY <1>2, <1>5, <2>1, LeadsWhere DEF Seen
  <2>3. t \in J!TeamsOf(c)
    BY <1>2, <1>5 DEF Suits
  <2>4. QED
    BY <2>2, <2>3, SettleStep
<1>8. QED
  BY <1>6, <1>7

LEMMA PartsSteps ==
  ASSUME Templates, TypeOK, TypeOK', Viewed, Viewed', NEW k \in Kinds,
         \/ Parted(k) /\ Waking(k)'
         \/ Parts(k) /\ (Parts(k)' \/ SingleRunning'),
         NEW S, NEW call, NEW victims, NEW w, Works(S, call, victims, w)
  PROVE  Steps
<1>1. \A h \in Hart : pc[h] # "stop_mst"
  <2>1. Parts(k) => pc[master] # "stop_mst"
    BY DEF Parts, Waking, Returning, Woken, AllAt, Handles
  <2>2. Parted(k) => master \in Team(k) /\ \A h \in Team(k) : pc[h] # "stop_mst"
    BY DEF Parted, AllAt, Viewed, ViewedTeam
  <2>3. \A h \in Hart \ {master} : pc[h] # "stop_mst"
    BY DEF Parted, Parts, Waking, Returning, Parting, OthersRest, AtRest, Rest
  <2>4. QED
    BY <2>1, <2>2, <2>3
<1>2. PICK m : m = master /\ m = master'
  BY <1>1, UnrunAt, RegistersKept
<1>3. CASE Parted(k) /\ Waking(k)'
  <2>1. PICK t : t = Team(k)
    OBVIOUS
  <2>2. Seen("switch", SINGLE, Team(k), FALSE) /\ t \notin J!Singles /\ m \in t
    BY <1>2, <1>3, <2>1 DEF Viewed, ViewedTeam
  <2>3. Seen("switch", SINGLE, {master}, FALSE)'
    BY <1>3 DEF Parts, Viewed, ViewedTeam
  <2>4. Leads("switch", SINGLE, t, FALSE, "switch", SINGLE, {m}, FALSE)
    BY <1>2, <2>1, <2>2, <2>3, LeadsWhere DEF SINGLE, Seen
  <2>5. QED
    BY <2>2, <2>4, InheritStep
<1>4. CASE Parts(k) /\ Parts(k)'
  <2>1. Seen("switch", SINGLE, {master}, FALSE) /\ Seen("switch", SINGLE, {master}, FALSE)'
    BY <1>4 DEF Viewed, ViewedTeam
  <2>2. Leads("switch", SINGLE, {m}, FALSE, "switch", SINGLE, {m}, FALSE)
    BY <1>2, <2>1, LeadsWhere DEF SINGLE, Seen
  <2>3. QED
    BY <2>2, WorkStep DEF SINGLE
<1>5. CASE Parts(k) /\ SingleRunning'
  <2>1. Seen("switch", SINGLE, {master}, FALSE) /\ Seen("run", SINGLE, {master}, FALSE)'
    BY <1>5 DEF Viewed, ViewedTeam, ViewedAlone
  <2>2. Leads("switch", SINGLE, {m}, FALSE, "run", SINGLE, {m}, FALSE)
    BY <1>2, <2>1, LeadsWhere DEF SINGLE, Seen
  <2>3. {m} \in J!TeamsOf(SINGLE)
    BY <1>2 DEF TypeOK, CtrlTypeOK, J!TeamsOf, J!Singles, SINGLE
  <2>4. QED
    BY <2>2, <2>3, SettleStep DEF SINGLE
<1>6. QED
  BY <1>3, <1>4, <1>5

\* a team at work: it goes on, parts, ends, or is seen to differ
LEMMA TeamSteps ==
  ASSUME NEW k \in Kinds, Formed(k), Seen(TeamPhase, cfg, Team(k), FALSE),
         cfg' \in {cfg, SINGLE}, Team(k)' = Team(k),
         \/ Seen(TeamPhase, cfg, Team(k), FALSE)'
         \/ Seen("switch", SINGLE, Team(k), FALSE)'
         \/ cfg # SINGLE /\ Seen("done", SINGLE, {}, FALSE)'
         \/ cfg # SINGLE /\ Seen(TeamPhase, cfg, Team(k), TRUE)'
  PROVE  Steps
<1>1. PICK c, t : c = cfg /\ t = Team(k) /\ t = Team(k)'
  OBVIOUS
<1>2. PICK p : p = TeamPhase
  OBVIOUS
<1>3. Seen(p, c, t, FALSE) /\ p = IF c = SINGLE THEN "switch" ELSE "run"
  BY <1>1, <1>2 DEF TeamPhase, Seen
<1>4. t \notin J!Singles
  BY <1>1 DEF Formed
<1>5. ASSUME NEW s \in BOOLEAN, Seen(TeamPhase, cfg, Team(k), s)', c = SINGLE => ~s
      PROVE  Steps
  <2>1. CASE cfg' = cfg
    <3>1. Seen(p, c, t, s)'
      BY <1>1, <1>3, <1>5, <2>1 DEF TeamPhase, Seen
    <3>2. Leads(p, c, t, FALSE, p, c, t, s)
      BY <1>3, <3>1, LeadsWhere
    <3>3. QED
      BY <1>3, <1>4, <1>5, <3>2, WorkStep, RepairStep
  <2>2. CASE cfg' # cfg
    <3>1. Seen("switch", SINGLE, t, s)' /\ c # SINGLE
      BY <1>1, <1>5, <2>2 DEF TeamPhase, Seen
    <3>2. Leads("run", c, t, FALSE, "switch", SINGLE, t, s)
      BY <1>3, <3>1, LeadsWhere DEF SINGLE
    <3>3. QED
      BY <3>1, <3>2, StopStep
  <2>3. QED
    BY <2>1, <2>2
<1>6. CASE Seen("switch", SINGLE, Team(k), FALSE)'
  <2>1. Leads(p, c, t, FALSE, "switch", SINGLE, t, FALSE)
    BY <1>1, <1>3, <1>6, LeadsWhere DEF SINGLE, Seen
  <2>2. CASE c = SINGLE
    BY <1>3, <2>1, <2>2, WorkStep DEF SINGLE
  <2>3. CASE c # SINGLE
    <3>1. Leads("run", c, t, FALSE, "switch", SINGLE, t, FALSE)
      BY <1>3, <2>1, <2>3
    <3>2. QED
      BY <2>3, <3>1, StopStep
  <2>4. QED
    BY <2>2, <2>3
<1>7. CASE cfg # SINGLE /\ Seen("done", SINGLE, {}, FALSE)'
  <2>1. Leads("run", c, t, FALSE, "done", SINGLE, {}, FALSE)
    BY <1>1, <1>3, <1>7, LeadsWhere DEF SINGLE
  <2>2. QED
    BY <2>1, EndStep
<1>8. CASE Seen(TeamPhase, cfg, Team(k), FALSE)'
  BY <1>5, <1>8
<1>9. CASE cfg # SINGLE /\ Seen(TeamPhase, cfg, Team(k), TRUE)'
  BY <1>1, <1>5, <1>9
<1>10. QED
  BY <1>6, <1>7, <1>8, <1>9

\* a team under repair: it stays so, or works on
LEMMA RepairSteps ==
  ASSUME NEW k \in Kinds, NEW p, Seen(p, cfg, Team(k), TRUE), NEW s \in BOOLEAN,
         cfg' = cfg, Team(k)' = Team(k), Seen(p, cfg, Team(k), s)'
  PROVE  Steps
<1>1. PICK c, t : c = cfg /\ t = Team(k) /\ c = cfg' /\ t = Team(k)'
  OBVIOUS
<1>2. Leads(p, c, t, TRUE, p, c, t, s)
  BY <1>1, LeadsWhere DEF Seen
<1>3. QED
  BY <1>2, WorkStep, RepairedStep

LEMMA InterruptWasSet ==
  ASSUME NEW S, NEW call, NEW victims, NEW w, Works(S, call, victims, w), Running
  PROVE  ~Finished'
<1>1. ~interrupt'
  BY DEF Works, Cycle, CtrlTick, InterruptTick, Running, Falling, Quiet, Intr
<1>2. QED
  BY <1>1 DEF Finished, Signalled, Intr

LEMMA VotingSteps ==
  ASSUME Templates, TypeOK, Viewed, Viewed', Voting,
         NEW S, NEW call, NEW victims, NEW w, Works(S, call, victims, w),
         \/ Voting' \/ Parted("TMR_MODE")' \/ Finished'
         \/ cfg = TCLS /\ Resyncing("SYNCINTC")'
  PROVE  Steps
<1>1. PICK k \in Kinds : k = "TMR_MODE" /\ Team(k) = Hart /\ Team(k)' = Hart
  BY DEF Kinds, Team
<1>2. Seen(TeamPhase, cfg, Team(k), FALSE) /\ Formed(k) /\ (cfg = SINGLE => Running)
  BY <1>1 DEF Viewed, ViewedRun
<1>3. \A h \in Hart : pc[h] # "act_cfg"
  BY DEF Voting, VotingAt, AllAt, Handles, Code, Stop
<1>4. cfg' \in {cfg, SINGLE}
  BY <1>3, UnrunAt, RegistersKept
<1>5. cfg = SINGLE => ~Finished'
  BY <1>2, InterruptWasSet
<1>6. /\ Voting' => Seen(TeamPhase, cfg, Team(k), FALSE)'
      /\ Finished' => Seen("done", SINGLE, {}, FALSE)'
      /\ Resyncing("SYNCINTC")' => Seen(TeamPhase, cfg, Team(k), TRUE)'
  BY <1>1 DEF Viewed, ViewedRun, ViewedAlone
<1>7. Parted("TMR_MODE")' => Seen("switch", SINGLE, Team(k), FALSE)'
  BY <1>1 DEF Viewed, ViewedTeam
<1>8. TCLS # SINGLE /\ Team(k)' = Team(k)
  BY <1>1 DEF TCLS, SINGLE
<1>9. \/ Seen(TeamPhase, cfg, Team(k), FALSE)'
      \/ Seen("switch", SINGLE, Team(k), FALSE)'
      \/ cfg # SINGLE /\ Seen("done", SINGLE, {}, FALSE)'
      \/ cfg # SINGLE /\ Seen(TeamPhase, cfg, Team(k), TRUE)'
  BY <1>5, <1>6, <1>7, <1>8
<1>10. QED
  BY <1>2, <1>4, <1>8, <1>9, TeamSteps

LEMMA ResyncingSteps ==
  ASSUME Templates, TypeOK, Viewed, Viewed', NEW x \in {"SYNCINTC", "SWSYNC"}, Resyncing(x),
         NEW S, NEW call, NEW victims, NEW w, Works(S, call, victims, w),
         Resyncing("SYNCINTC")' \/ Resyncing("SWSYNC")' \/ Voting'
  PROVE  Steps
<1>1. PICK k \in Kinds : k = "TMR_MODE" /\ Team(k) = Hart /\ Team(k)' = Hart
  BY DEF Kinds, Team
<1>2. Seen(TeamPhase, cfg, Team(k), TRUE)
  BY <1>1 DEF Viewed, ViewedRun
<1>3. AllIn("TMR_MODE", x)
  BY DEF Resyncing
<1>4. InterruptHalt(master) = {} /\ InterruptSwResync = Hart
  BY <1>3, ResyncingWires
<1>5. \A h \in Hart : pc[h] # "act_cfg" /\ pc[h] \notin Sleeping
  BY DEF Resyncing, ResyncingAt, AllAt, Handles, Struck, Sleeping
<1>6. Unrun("act_cfg") /\ Unrun("stop_cfg")
  BY <1>4 DEF Unrun, Runs, TakesDebug, TakesIrq, DebugReq, Irq, NoIrq, Halted, Handler
<1>7. cfg' = cfg
  BY <1>6, RegistersKept
<1>8. PICK p : p = TeamPhase /\ p = TeamPhase'
  BY <1>7 DEF TeamPhase
<1>9. Seen(p, cfg, Team(k), TRUE) /\ \E s \in BOOLEAN : Seen(p, cfg, Team(k), s)'
  <2>1. \E s \in BOOLEAN : Seen(TeamPhase, cfg, Team(k), s)'
    BY <1>1 DEF Viewed, ViewedRun
  <2>2. QED
    BY <1>2, <1>8, <2>1 DEF Seen
<1>10. QED
  BY <1>1, <1>7, <1>9, RepairSteps

LEMMA ComparingSteps ==
  ASSUME Templates, TypeOK, Viewed, Viewed', Comparing,
         NEW S, NEW call, NEW victims, NEW w, Works(S, call, victims, w),
         Comparing' \/ Isolating' \/ Parted("DMR_MODE")' \/ Finished'
  PROVE  Steps
<1>1. PICK k \in Kinds : k = "DMR_MODE" /\ Team(k) = mask /\ Team(k)' = mask'
  BY DEF Kinds, Team
<1>2. Seen(TeamPhase, cfg, Team(k), FALSE) /\ Formed(k) /\ (cfg = SINGLE => Running)
  BY <1>1 DEF Viewed, ViewedRun
<1>3. PICK v \in Code \cup Stop \cup {"act_end"} : ComparingAt(v)
  BY DEF Comparing
<1>4. \A h \in Hart : pc[h] \in {v} \cup {"hdl_clr", "hdl_ret"} \cup Rest
  BY <1>3 DEF Comparing, ComparingAt, AllAt, Handles, AtRest
<1>5. cfg = SINGLE => v \in Left
  BY <1>1, <1>3, FormedIs DEF ComparingAt
<1>6. \A h \in Hart : pc[h] # "act_cfg" /\ (cfg = SINGLE => pc[h] # "main")
  BY <1>4, <1>5 DEF Code, Stop, Rest, Left
<1>7. cfg' \in {cfg, SINGLE} /\ Team(k)' = Team(k)
  BY <1>1, <1>6, UnrunAt, RegistersKept
<1>8. cfg = SINGLE => ~Finished'
  BY <1>2, InterruptWasSet
<1>9. /\ Comparing' => Seen(TeamPhase, cfg, Team(k), FALSE)'
      /\ Finished' => Seen("done", SINGLE, {}, FALSE)'
  BY <1>1 DEF Viewed, ViewedRun, ViewedAlone
<1>10. Parted("DMR_MODE")' => Seen("switch", SINGLE, Team(k), FALSE)'
  BY <1>1 DEF Viewed, ViewedTeam
<1>11. Isolating' => Seen(TeamPhase, cfg, Team(k), TRUE)' /\ cfg # SINGLE
  <2>1. Isolating' => Seen("run", cfg, Team(k), TRUE)' /\ cfg' # SINGLE
    BY <1>1 DEF Viewed, ViewedRun, Suits
  <2>2. QED
    BY <1>7, <2>1 DEF TeamPhase, Seen
<1>12. QED
  BY <1>2, <1>7, <1>8, <1>9, <1>10, <1>11, TeamSteps

LEMMA SplitSteps ==
  ASSUME Templates, TypeOK, Viewed, Viewed',
         Isolating \/ \E x \in {"INTC_RECOVERY", "RECOVERY"} : Recovering(x),
         NEW S, NEW call, NEW victims, NEW w, Works(S, call, victims, w),
         Isolating' \/ Comparing' \/ \E x \in {"INTC_RECOVERY", "RECOVERY"} : Recovering(x)'
  PROVE  Steps
<1>1. PICK k \in Kinds : k = "DMR_MODE" /\ Team(k) = mask /\ Team(k)' = mask'
  BY DEF Kinds, Team
<1>2. Seen("run", cfg, Team(k), TRUE) /\ cfg # SINGLE
  BY <1>1 DEF Viewed, ViewedRun, Suits
<1>3. Unrun("act_cfg") /\ Unrun("stop_cfg")
  <2>1. CASE Isolating
    <3>1. WfiDmr = mask
      BY <2>1, IsolatingWires DEF Isolating, Paired
    <3>2. \A h \in Hart \ mask : pc[h] \in Rest
      BY <2>1 DEF Isolating, AtRest
    <3>3. QED
      BY <3>1, <3>2 DEF Unrun, Runs, Rest
  <2>2. CASE \E x \in {"INTC_RECOVERY", "RECOVERY"} : Recovering(x)
    <3>1. \A h \in Hart : pc[h] \in {"iso", "dbg", "restore", "main"} \cup Rest
      BY <2>2 DEF Recovering, AllAt, AtRest
    <3>2. QED
      BY <3>1, UnrunAt DEF Rest
  <2>3. QED
    BY <2>1, <2>2
<1>4. cfg' = cfg /\ Team(k)' = Team(k)
  BY <1>1, <1>2, <1>3, RegistersKept
<1>5. \E s \in BOOLEAN : Seen("run", cfg, Team(k), s)'
  <2>1. CASE Comparing'
    <3>1. Seen(TeamPhase, cfg, Team(k), FALSE)'
      BY <1>1, <2>1 DEF Viewed, ViewedRun
    <3>2. QED
      BY <1>2, <1>4, <3>1 DEF TeamPhase, Seen
  <2>2. CASE Isolating' \/ \E x \in {"INTC_RECOVERY", "RECOVERY"} : Recovering(x)'
    BY <1>1, <2>2 DEF Viewed, ViewedRun
  <2>3. QED
    BY <2>1, <2>2
<1>6. QED
  BY <1>2, <1>4, <1>5, RepairSteps

-----------------------------------------------------------------------------
(* Every cycle is a step of the job.                                       *)

LEMMA TeamedSteps ==
  ASSUME Templates, TypeOK, TypeOK', Viewed, Viewed', NEW k \in Kinds, Stage(k),
         NEW S, NEW call, NEW victims, NEW w, Works(S, call, victims, w)
  PROVE  Steps
<1>1. CASE Loads(k)
  <2>1. Loads(k)' \/ Voting' \/ Comparing'
    BY <1>1, StartingNext, EnteringNext DEF Loads
  <2>2. QED
    BY <1>1, <2>1, LoadsSteps
<1>2. CASE Meets(k)
  <2>1. CASE Saving(k) \/ Asking(k) \/ Calling(k)
    <3>1. Meets(k)'
      BY <2>1, SavingNext, AskingNext, CallingNext DEF Meets
    <3>2. QED
      BY <1>2, <3>1, MeetsSteps
  <2>2. CASE Halting(k) \/ Restoring(k) \/ Syncing(k)
    <3>1. Meets(k)' \/ Voting' \/ Comparing'
      BY <2>2, HaltingNext, RestoringNext, SyncingNext DEF Meets
    <3>2. QED
      BY <1>2, <3>1, MeetsSteps
  <2>3. QED
    BY <1>2, <2>1, <2>2 DEF Meets
<1>3. CASE Parted(k)
  <2>1. Waking(k)'
    BY <1>3, PartedNext
  <2>2. QED
    BY <1>3, <2>1, PartsSteps
<1>4. CASE Parts(k)
  <2>1. Parts(k)' \/ SingleRunning'
    BY <1>4, WakingNext, ReturningNext DEF Parts
  <2>2. QED
    BY <1>4, <2>1, PartsSteps
<1>5. QED
  BY <1>1, <1>2, <1>3, <1>4 DEF Stage, Loads, Meets, Parts

LEMMA ProgramSteps ==
  ASSUME Templates, TypeOK, TypeOK', Viewed, Viewed', Launched \/ Underway, Next
  PROVE  Steps
<1>1. host = "running"
  BY ProgramRuns
<1>2. PICK S, call, victims, w : Works(S, call, victims, w)
  BY <1>1, NextWorks
<1>3. CASE SingleStarting \/ SingleRunning
  BY <1>2, <1>3, SingleStartingNext, SingleRunningNext, SingleSteps
<1>4. CASE SingleLeaving
  BY <1>2, <1>4, SingleLeavingNext, LeavingSteps
<1>5. CASE Voting
  BY <1>2, <1>5, VotingCycle, VotingSteps
<1>6. CASE Comparing
  BY <1>2, <1>6, ComparingCycle, ComparingSteps
<1>7. ASSUME NEW x \in {"SYNCINTC", "SWSYNC"}, Resyncing(x)
      PROVE  Steps
  BY <1>2, <1>7, ResyncingCycle, ResyncingSteps
<1>8. CASE Isolating
  <2>1. Isolating' \/ \E x \in {"INTC_RECOVERY", "RECOVERY"} : Recovering(x)'
    BY <1>2, <1>8, IsolatingCycle
  <2>2. QED
    BY <1>2, <1>8, <2>1, SplitSteps
<1>9. ASSUME NEW x \in {"INTC_RECOVERY", "RECOVERY"}, Recovering(x)
      PROVE  Steps
  <2>1. Comparing' \/ \E y \in {"INTC_RECOVERY", "RECOVERY"} : Recovering(y)'
    BY <1>2, <1>9, RecoveringCycle
  <2>2. QED
    BY <1>2, <1>9, <2>1, SplitSteps
<1>10. ASSUME NEW k \in Kinds, Starting(k) \/ Teamed(k)
       PROVE  Steps
  <2>1. Stage(k)
    BY <1>10 DEF Stage, Teamed
  <2>2. QED
    BY <1>2, <2>1, TeamedSteps
<1>11. QED
  BY <1>3, <1>4, <1>5, <1>6, <1>7, <1>8, <1>9, <1>10 DEF Launched, Underway

LEMMA EveryStep ==
  ASSUME Templates, TypeOK, TypeOK', Staged, Viewed, Viewed', Next
  PROVE  J!Next
<1>1. Steps
  <2>1. CASE Waiting
    <3>1. \/ Waiting' \/ SingleStarting' \/ \E k \in Kinds : Starting(k)'
      BY <2>1, ResettingNext, BootingNext, IdlingNext, ReadyNext DEF Waiting
    <3>2. QED
      BY <2>1, <3>1, RestSteps
  <2>2. CASE Finished
    <3>1. Waiting'
      BY <2>2, FinishedNext DEF Waiting
    <3>2. QED
      BY <2>2, <3>1, RestSteps
  <2>3. CASE Launched \/ Underway
    BY <2>3, ProgramSteps
  <2>4. QED
    BY <2>1, <2>2, <2>3, StagedIs DEF Calm, Waiting
<1>2. Executing' \in J!Executions'
  BY DEF Viewed
<1>3. QED
  BY <1>1, <1>2 DEF Steps, J!Next

LEMMA NoStep ==
  ASSUME UNCHANGED vars
  PROVE  UNCHANGED J!jobVars
<1>1. UNCHANGED <<gen, single, tmr, dmr, cfg, master, mask, interrupt, pc>>
  BY DEF vars, fsmVars, ctrlVars, softVars, intVars, coreVars
<1>2. \A Z : TmrIn(Z)' = TmrIn(Z) /\ DmrIn(Z)' = DmrIn(Z)
  BY <1>1 DEF TmrIn, DmrIn
<1>3. Engaged' = Engaged /\ Named' = Named /\ Executing' = Executing
  BY <1>1 DEF Engaged, Named, Executing
<1>4. Repairing' = Repairing /\ Loading' = Loading /\ Checked' = Checked
  BY <1>1, <1>2 DEF Repairing, Loading, Checked
<1>5. JobPhase' = JobPhase
  BY <1>1, <1>3, <1>4 DEF JobPhase, Settled
<1>6. JobTeam' = JobTeam /\ JobProtection' = JobProtection
  BY <1>1, <1>3, <1>5 DEF JobTeam, JobProtection, NoJob
<1>7. QED
  BY <1>3, <1>4, <1>5, <1>6 DEF J!jobVars

LEMMA FirstView ==
  ASSUME Init, Viewed
  PROVE  J!Init
<1>1. Seen("rest", SINGLE, {}, FALSE)
  BY InitStaged DEF Viewed, ViewedAlone, Waiting
<1>2. Executing = {}
  BY <1>1 DEF Viewed, J!Executions, Seen
<1>3. QED
  BY <1>1, <1>2 DEF Seen, J!Init, Repairing, SINGLE

(* The accelerator implements ProtectedJob, for every set of three cores,   *)
(* every list of jobs and modes and every place where a fault may show: a   *)
(* job never loses or swaps its cores, is never run by fewer of them than   *)
(* its protection asks for, is changed by its own calls only and ends once. *)
THEOREM JobProtected ==
  ASSUME Templates
  PROVE  Spec => JobIsProtected
<1>1. TypeOK /\ Staged => Viewed
  BY StagedViewed
<1>2. Init /\ Viewed => J!Init
  BY FirstView
<1>3. TypeOK /\ TypeOK' /\ Staged /\ Viewed /\ Viewed' /\ [Next]_vars => [J!Next]_(J!jobVars)
  BY EveryStep, NoStep
<1>4. QED
  BY <1>1, <1>2, <1>3, AlwaysStaged, TypeCorrect, PTL DEF Spec, JobIsProtected, J!JobSpec

=============================================================================
