------------------------------- MODULE MCGoal -------------------------------
(* The goal store on small instances: a prototype and a production goal.   *)
EXTENDS Goal

CONSTANTS p, q

MCRoadmap == <<"task-01", "task-02">>
=============================================================================
