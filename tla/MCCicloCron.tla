------------------------------ MODULE MCCicloCron ------------------------------
(* A leader with two ticks that may overlap and a "ciclo cron run-due"; a job  *)
(* run every two ticks of the clock, and one run in each of two minutes.       *)
EXTENDS CicloCron

CONSTANTS leader, command, k1, k2, k3, nightly, review

MCOf == [k \in Thread |-> IF k = k3 THEN command ELSE leader]
MCJobOrder == <<review, nightly>>
MCEvery == [j \in Job |-> IF j = review THEN 2 ELSE NoTime]
MCMinutes == [j \in Job |-> IF j = review THEN {} ELSE {0, 1}]
================================================================================
