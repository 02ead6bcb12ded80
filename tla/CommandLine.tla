------------------------------ MODULE CommandLine ------------------------------
(***************************************************************************)
(* One user at one terminal (storguard/cli/main.py): the ai commands, the  *)
(* demo, the monitor, the race tests and cluster deploy, one after another *)
(* and any of them interrupted, while Ollama comes and goes.  What passes  *)
(* from one program to the next is the state of the node the demo stops    *)
(* and of Ollama.                                                          *)
(***************************************************************************)
EXTENDS Demo, Monitor, RaceRunner

programs == <<aiVars, demoVars, monitorVars, raceVars>>

Init == AiInit /\ DemoInit /\ MonitorInit /\ RaceInit

\* The prompt is back.
Idle == at = "idle" /\ step = "none" /\ phase = "none" /\ race = "none"

Ai == /\ step = "none" /\ phase = "none" /\ race = "none"
      /\ AiCommand
      /\ UNCHANGED <<demoVars, monitorVars, raceVars>>

\* OllamaClient's requests, for a command or for the demo.
AiWorks == Answering /\ UNCHANGED <<demoVars, monitorVars, raceVars>>

StartsDemo == Idle /\ StartDemo /\ UNCHANGED <<monitorVars, raceVars>>
DemoWorks  == DemoStep /\ UNCHANGED <<monitorVars, raceVars>>
DemoMishap == (CutShort \/ DamageSeed) /\ UNCHANGED <<monitorVars, raceVars>>

MonitorRuns   == ((Idle /\ StartMonitor) \/ MonitorStep) /\ UNCHANGED <<aiVars, demoVars, raceVars>>
MonitorCleans == CleanUp /\ UNCHANGED <<aiVars, demoVars, raceVars>>

RaceRuns == ((Idle /\ StartRace) \/ RaceStep) /\ UNCHANGED <<aiVars, demoVars, monitorVars>>

\* cluster deploy: docker compose up starts a container that is stopped.
ClusterDeploy == /\ Idle /\ node = "down"
                 /\ NodeIs("up", {})
                 /\ UNCHANGED <<step, seed, label, refused, aiVars, monitorVars, raceVars>>

Environment == OllamaChanges /\ UNCHANGED <<demoVars, monitorVars, raceVars>>

Next == \/ Ai \/ AiWorks \/ StartsDemo \/ DemoWorks \/ DemoMishap
        \/ MonitorRuns \/ RaceRuns \/ ClusterDeploy \/ Environment

\* A call, a demo and a clean-up go on: each request ends, if only with the time-out of
\* httpx, botocore or docker.
Spec == /\ Init /\ [][Next]_programs
        /\ WF_programs(AiWorks) /\ WF_programs(DemoWorks) /\ WF_programs(MonitorCleans)

-----------------------------------------------------------------------------
\* What is not for the user to end ends: a demo, and a monitor once its loop is left.
ProgramsEnd == DemoEnds /\ MonitorEnds

\* Type invariant: every variable stays in its domain, and one program runs at a time.
TypeOK ==
  /\ AiTypeOK /\ DemoTypeOK /\ MonitorTypeOK /\ RaceTypeOK
  /\ step # "none" \/ at # "idle" => phase = "none" /\ race = "none"
  /\ phase = "none" \/ race = "none"

=============================================================================
