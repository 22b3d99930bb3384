--------------------------- MODULE EngineContract ---------------------------
(***************************************************************************)
(* What the probe engine promises to its callers, whatever goroutines and  *)
(* channels implement it.  Work is a set of jobs: the automatic probing    *)
(* loop is one job, every manual trigger is another.  The engine is open,  *)
(* draining (a Stop call is waiting for the jobs to end) or closed.        *)
(***************************************************************************)
CONSTANTS LoopJobs,    \* identities of automatic loops, one for each Start
          ManualJobs   \* identities of manually triggered cycles

VARIABLES phase, jobs

vars == <<phase, jobs>>

TypeOK == /\ phase \in {"open", "draining", "closed"}
          /\ jobs \subseteq LoopJobs \cup ManualJobs

Init == /\ phase = "open"       \* a new engine takes triggers before Start
        /\ jobs = {}

(* Start is refused while draining and while a loop runs. *)
StartLoop(j) == /\ phase # "draining"
                /\ jobs \cap LoopJobs = {}
                /\ phase' = "open"
                /\ jobs' = jobs \cup {j}

(* A trigger is accepted by an open engine only. *)
Trigger(j) == /\ phase = "open"
              /\ j \notin jobs
              /\ jobs' = jobs \cup {j}
              /\ UNCHANGED phase

Stop == /\ phase # "draining"
        /\ phase' = "draining"
        /\ UNCHANGED jobs

Finish(j) == /\ j \in jobs
             /\ jobs' = jobs \ {j}
             /\ UNCHANGED phase

(* A Stop call returns when nothing is left running, never before. *)
Drained == /\ phase = "draining"
           /\ jobs = {}
           /\ phase' = "closed"
           /\ UNCHANGED jobs

Next == \/ \E j \in LoopJobs : StartLoop(j)
        \/ \E j \in ManualJobs : Trigger(j)
        \/ Stop
        \/ \E j \in LoopJobs \cup ManualJobs : Finish(j)
        \/ Drained

Safety == Init /\ [][Next]_vars

(* Jobs end once the engine drains (the automatic loop may run for ever    *)
(* otherwise), and the drain is then noticed.                              *)
FinishWhenDraining(j) == phase = "draining" /\ Finish(j)

Fairness == /\ \A j \in LoopJobs \cup ManualJobs : WF_vars(FinishWhenDraining(j))
            /\ WF_vars(Drained)

Spec == Safety /\ Fairness

(* A closed engine runs nothing: this is why main may close the database   *)
(* right after Engine.Stop returns.                                        *)
ClosedIsQuiet == phase = "closed" => jobs = {}
=============================================================================
