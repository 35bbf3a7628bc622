------------------------------ MODULE MCMcpServices -----------------------------
(* The services behind the tools of an MCP process: logins and grants, the     *)
(* Beads and sync tools, the event stream, the remote runner, the files of the *)
(* project, shared claims, and the planner.  They keep no state in common, so  *)
(* every behaviour is one of `part`'s and the other parts rest where they      *)
(* start.  The event stream is followed until processes cross, and of the      *)
(* project's files a behaviour changes the plugin list, or those that are      *)
(* installed: other commands write them, one command at a time.                *)
EXTENDS MCClientAccess, MCBeadsTools, CicloEvents, MCRemoteRunner, MCProjectFiles,
        MCBeadsRemote, MCContextPlanning

VARIABLE part

\* Bound on what is cut off half-way in a behaviour: two files and a line, or three files.
MaxCut == 3

\* The poller's client talks to one of the processes.
MCHome == [r \in Poller |-> CHOOSE w \in Writer : TRUE]

Part == {"access", "tools", "events", "runner", "plugins", "installs", "sharing", "planning"}

NobodyLoggedIn == [mode |-> "single", grants |-> {}, launcher |-> None, clock |-> FALSE]

ServicesInit ==
    /\ part \in Part
    /\ part = "access" \/ session = NobodyLoggedIn
    /\ part = "runner" \/ (obstacle = "none" /\ request = CHOOSE l \in Launch : TRUE)
    /\ part = "installs" \/ skills = "absent"
    /\ part = "sharing" \/ (reach = "healthy" /\ cfg = CHOOSE c \in Configuration : TRUE)
    /\ Init /\ ToolsInit /\ EventsInit /\ RunnerInit /\ FilesInit /\ RemoteInit /\ PlanningInit
    \* in single mode everybody is the owner, whatever the launcher says
    /\ session.mode = "single" => session.launcher = None

Rest(p, v) == IF part # p THEN UNCHANGED v ELSE TRUE
OthersRest ==
    /\ UNCHANGED part
    /\ Rest("access", vars) /\ Rest("tools", toolVars) /\ Rest("events", eventVars)
    /\ Rest("runner", runnerVars)
    /\ part \notin {"plugins", "installs"} => UNCHANGED filesVars
    /\ Rest("sharing", remoteVars) /\ Rest("planning", call)

ServicesNext ==
    \/ part = "access" /\ OthersRest /\ Next
    \/ part = "tools" /\ OthersRest /\ ToolsNext
    \/ part = "events" /\ OthersRest /\ ~crossed /\ EventsNext
    \/ part = "runner" /\ OthersRest /\ RunnerNext
    \/ /\ part = "plugins" /\ OthersRest /\ FilesNext
       /\ command'.pc # "install"
    \/ /\ part = "installs" /\ OthersRest /\ FilesNext
       /\ command'.pc # "open_tmp" /\ Cardinality(cutOff') <= MaxCut
    \/ part = "sharing" /\ OthersRest /\ RemoteNext
    \/ part = "planning" /\ OthersRest /\ PlanningNext

servicesVars == <<part, vars, toolVars, eventVars, runnerVars, filesVars, remoteVars, call>>

ServicesSpec == ServicesInit /\ [][ServicesNext]_servicesVars
================================================================================
