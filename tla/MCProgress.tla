----------------------------- MODULE MCProgress -----------------------------
(***************************************************************************)
(* What must eventually happen, on the smallest instances that show it.     *)
(* The job queue and the agent task server share nothing here: a behaviour  *)
(* is one of one of them, and the state of the other stays initial, where   *)
(* its properties hold.                                                     *)
(***************************************************************************)
EXTENDS JobRuns

CONSTANTS TaskMessages, Contexts, NoContext     \* of AgentTasks

VARIABLES
    part,       \* the part of the system that runs: jobs or tasks
    rows, records, threads, checkpoints, server, lock, runners, current, revoked,
    writes, canceller, sweeper, faults, launched, asked, disturbed

taskVars == <<rows, records, threads, checkpoints, server, lock, runners, current,
              revoked, writes, canceller, sweeper, faults, launched, asked, disturbed>>

\* One message to one context, and two crashes, shutdowns or failed checks of a key.
Agents == INSTANCE AgentTasks WITH Messages <- TaskMessages, MaxFaults <- 2

ProgressInit == part \in {"jobs", "tasks"} /\ Init /\ Agents!Init

ProgressNext ==
    \/ part = "jobs" /\ Next /\ UNCHANGED <<part, taskVars>>
    \/ part = "tasks" /\ Agents!Next /\ UNCHANGED <<part, vars>>

\* The fairness of each part, as its own module states it.
ProgressSpec ==
    /\ ProgressInit /\ [][ProgressNext]_<<part, vars, taskVars>>
    /\ \A w \in Workers: WF_vars(part = "jobs" /\ WorkerStep(w))
    /\ \A m \in TaskMessages:
          /\ WF_taskVars(part = "tasks" /\ Agents!RunnerStep(m))
          /\ SF_taskVars(part = "tasks" /\ Agents!StartSave(m))
          /\ SF_taskVars(part = "tasks" /\ Agents!GraphEnds(m))
    /\ WF_taskVars(part = "tasks" /\ \E w \in writes: Agents!CommitSave(w))
    /\ WF_taskVars(part = "tasks" /\ Agents!CancelStep)
    /\ WF_taskVars(part = "tasks" /\ Agents!SweepStep)
    /\ WF_taskVars(part = "tasks" /\ Agents!Start)
    /\ WF_taskVars(part = "tasks" /\ (Agents!CloseRunners \/ Agents!CloseDone))

\* Every admitted task stops executing, in spite of crashes and restarts.
TaskStops == Agents!TaskStops

=============================================================================
