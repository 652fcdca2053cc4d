---------------------------- MODULE ProtectedJob ----------------------------
(***************************************************************************)
(* What the accelerator promises to the host and to a program: a job is    *)
(* launched on a team of cores as large as its protection asks for; only   *)
(* its own calls change the team, and each change keeps a core that ran    *)
(* it; a repair gives the same team back; the job ends once.               *)
(***************************************************************************)
CONSTANT Hart

VARIABLES
  phase,        \* rest, launch, run, switch, done
  protection,   \* the protection the program has asked for
  team,         \* the cores that carry the job
  repairing,    \* a difference between the cores of the team is being repaired
  executing     \* the cores that are in the application's code

Protection == {"SINGLE", "TCLS", "DCLS", "LOCKSTEP"}
Singles == {{h} : h \in Hart}
Pairs   == {t \in SUBSET Hart : \E h, i \in Hart : h # i /\ t = {h, i}}
TeamsOf(p) == CASE p = "SINGLE" -> Singles
                [] p = "TCLS"   -> {Hart}
                [] OTHER        -> Pairs

(* Nobody executes the program while its cores change; the team does so as *)
(* one, except that cores under repair are stopped one by one.             *)
Executions ==
  IF phase \notin {"launch", "run"} THEN {{}}
  ELSE IF repairing THEN SUBSET team ELSE {{}, team}

Released == protection' = "SINGLE" /\ team' = {} /\ repairing' = FALSE
Goes(from, to) == phase = from /\ phase' = to

Launch ==
  /\ Goes("rest", "launch")
  /\ protection' \in Protection /\ team' \in TeamsOf(protection')
  /\ ~repairing'

Begin == Goes("launch", "run") /\ UNCHANGED <<protection, team, repairing>>

\* Safe_Activate: the caller is joined by others
Activate ==
  /\ Goes("run", "switch")
  /\ protection = "SINGLE" /\ protection' \in Protection \ {"SINGLE"}
  /\ team' \in TeamsOf(protection') /\ team \subseteq team'
  /\ UNCHANGED repairing

\* Safe_Stop: the team is to go apart; a difference may just have been seen
Stop ==
  /\ Goes("run", "switch") /\ ~repairing
  /\ protection # "SINGLE" /\ protection' = "SINGLE"
  /\ repairing' \in BOOLEAN
  /\ UNCHANGED team

\* one core of the team inherits the job
Inherit ==
  /\ phase = "switch" /\ protection = "SINGLE" /\ ~repairing
  /\ team \notin Singles
  /\ \E h \in team : team' = {h}
  /\ UNCHANGED <<phase, protection, repairing>>

Settle ==
  /\ Goes("switch", "run")
  /\ team \in TeamsOf(protection) /\ ~repairing
  /\ UNCHANGED <<protection, team, repairing>>

\* the cores of a team differ; only a single core cannot
Repair ==
  /\ phase = "run" /\ ~repairing /\ repairing'
  /\ team \notin Singles
  /\ UNCHANGED <<phase, protection, team>>

\* to go on, or to part if Safe_Stop was under way
Repaired == repairing /\ ~repairing' /\ UNCHANGED <<phase, protection, team>>

End == Goes("run", "done") /\ ~repairing /\ Released

Acknowledge == Goes("done", "rest") /\ Released

Work == UNCHANGED <<phase, protection, team, repairing>>

Next ==
  /\ \/ Launch \/ Begin \/ Activate \/ Stop \/ Inherit \/ Settle
     \/ Repair \/ Repaired \/ End \/ Acknowledge \/ Work
  /\ executing' \in Executions'

Init ==
  /\ phase = "rest" /\ protection = "SINGLE" /\ team = {}
  /\ repairing = FALSE /\ executing = {}

jobVars == <<phase, protection, team, repairing, executing>>

JobSpec == Init /\ [][Next]_jobVars
=============================================================================
