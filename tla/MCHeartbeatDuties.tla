---------------------------- MODULE MCHeartbeatDuties ---------------------------
(* What the heartbeat has to get done in the end, whatever its other work: the *)
(* cron jobs that are due, the loss of silent remote sessions, and the waking  *)
(* of workers whose question is answered.  The three keep no state in common,  *)
(* so every behaviour is one of `duty`'s and the others rest.  The cron jobs   *)
(* are seen twice: with overlapping ticks in the leader, and with a tick of    *)
(* the leader beside one of a "ciclo cron run-due".                            *)
EXTENDS MCOperatorRouting, MCRemoteSessionRegistry, MCCicloCron

VARIABLE duty

DutiesInit ==
    /\ duty \in {"routing", "remotes", "timer", "command"}
    /\ duty = "remotes" \/ probing = FALSE
    /\ duty = "routing" \/ sessions = [s \in Session |-> StartedSession(Fresh(b1), "process", FALSE, 0)]
    /\ RoutingInit /\ RegistryInit /\ CronInit

Rest(d, v) == IF duty # d THEN UNCHANGED v ELSE TRUE
OnCron == duty \in {"timer", "command"}
Spares == LET k == IF duty = "timer" THEN k3 ELSE k2 IN tick'[k] = tick[k]
OthersRest ==
    /\ UNCHANGED duty
    /\ Rest("routing", rvars) /\ Rest("remotes", registryVars)
    /\ OnCron \/ UNCHANGED cronVars

DutiesNext ==
    \/ duty = "routing" /\ OthersRest /\ RoutingNext
    \/ duty = "remotes" /\ OthersRest /\ RegistryNext
    \/ OnCron /\ OthersRest /\ CronNext /\ Spares

dutiesVars == <<duty, rvars, registryVars, cronVars>>

(* The fairness of the three specifications, each for its own behaviours. *)
Answered(q) == duty = "routing" /\ OthersRest /\ PendingQuestion(Leader, q) /\ Answer(q, FALSE)
ClockTicks == duty = "remotes" /\ OthersRest /\ TimePasses
SweepExpires == duty = "remotes" /\ OthersRest /\ MarkExpired
CronTick(k) == OnCron /\ OthersRest /\ BeginTick(k) /\ Spares
CronList(k) == OnCron /\ OthersRest /\ ListDue(k) /\ Spares
CronJob(k) == OnCron /\ OthersRest /\ (AskBrain(k) \/ RecordRun(k)) /\ Spares

DutiesSpec ==
    /\ DutiesInit /\ [][DutiesNext]_dutiesVars
    /\ \A q \in Question : WF_dutiesVars(Answered(q))
    /\ WF_dutiesVars(ClockTicks) /\ WF_dutiesVars(SweepExpires)
    /\ \A k \in Thread :
          WF_dutiesVars(CronTick(k)) /\ WF_dutiesVars(CronList(k)) /\ WF_dutiesVars(CronJob(k))
-----------------------------------------------------------------------------
(* OwedIsRun (runDueCronJobs and CicloCronScheduler.recordRun) of the         *)
(* behaviours in which the scheduler does not rest: a job due by its interval *)
(* is run and recorded in the end, or its process is restarted, whatever      *)
(* other ticks overlap, failed appends and late answers there are.            *)
CronJobsRun ==
    \A p \in Timed, j \in Job : OnCron /\ Owed(p, j) ~> ~Owed(p, j)
================================================================================
