----------------------------- MODULE MCRemoteRunner -----------------------------
EXTENDS RemoteRunner
MCBindings == <<[name |-> "ANTHROPIC_API_KEY", provider |-> "openbao"],
                [name |-> "GH_TOKEN", provider |-> "onepassword-connect"]>>
MCObstacles == {"none", "no_field", "no_token"}
MCLaunch ==
    {l \in LaunchFields :
        /\ l.egress = l.preflight /\ l.image = (l.strategy = "static")
        /\ l.strategy # "nixery" /\ l.placeholders = (IF l.clones THEN 1 ELSE 0)
        /\ l.kind # "kubernetes" => ~l.preflightOnly /\ ~l.existing /\ ~l.storage /\ l.runnerKeys
                                    /\ l.mode = "statefulset" /\ ~l.preflight /\ l.clones
        /\ l.existing => ~l.runnerKeys
        \* a Job has no volume for the storage
        /\ l.storage => Mode(l) # "job"
        /\ l.strategy = "variant" => l.clones /\ l.preflight}
=============================================================================
