----------------------------- MODULE VenueJobs -----------------------------
(***************************************************************************)
(* The jobs a PUT on a venue starts: updating the configuration of all its *)
(* devices, upgrading their firmware, rebooting them.                      *)
(*                                                                         *)
(* The request handler queues the job.  The job controller's thread wakes  *)
(* up every two seconds, starts queued jobs while its pool has room and    *)
(* deletes completed ones.  A job reads the venue and its devices, runs    *)
(* one task per device in a pool of its own, and now and then collects and *)
(* deletes the tasks whose done_ flag is set; at the end it waits for its  *)
(* pool, collects the rest, notifies the user and sets completed_.  The    *)
(* flags are plain variables, set by one thread and polled by another that *)
(* then deletes the object.  A task that throws ends its thread with the   *)
(* flag unset: its object is never deleted and its device never reported.  *)
(***************************************************************************)
EXTENDS Naturals, Sequences, FiniteSets, SequencesExt

CONSTANTS JobIds, Devices,
          PoolSize,       \* threads of the controller's pool (16, Poco's default)
          TaskPoolSize,   \* threads of a job's own pool (16, Poco's default)
          Outcomes        \* what a task counts: updated_, failed_, bad_config_, ...

ASSUME VenueJobsAssumption ==
    /\ PoolSize \in Nat \ {0}
    /\ TaskPoolSize \in Nat \ {0}
    /\ "none" \notin Outcomes

VARIABLES
    jobs,       \* JobController::jobs_
    sweep,      \* where the controller is in its pass over jobs_
    running,    \* JobController::Running_
    pc,         \* where each job is
    targets,    \* the devices the job found in the venue
    left,       \* those it has no task for yet
    task,       \* the task of each job and device: where it is, what it counted
    freed,      \* the tasks the job collected and deleted
    report      \* the job's notification: each collected device with its outcome

controllerVars == <<jobs, sweep, running>>
jobVars        == <<targets, left, freed, report>>
vars == <<controllerVars, pc, jobVars, task>>

Busy == {"started", "launching", "collecting", "completed"}

TypeOK ==
    /\ jobs \in UNION {[1..n -> JobIds] : n \in 0..Cardinality(JobIds)}
    /\ \A i, k \in DOMAIN jobs : jobs[i] = jobs[k] => i = k
    /\ sweep.phase \in {"sleep", "start", "remove", "stopped"}
    /\ running \in BOOLEAN
    /\ pc \in [JobIds -> Busy \union {"unborn", "queued", "returned"}]
    /\ targets \in [JobIds -> SUBSET Devices]
    /\ left \in [JobIds -> SUBSET Devices]
    /\ task \in [JobIds -> [Devices ->
                   [at : {"none", "running", "counted", "done", "returned", "thrown"},
                    outcome : Outcomes \union {"none"}]]]
    /\ freed \in [JobIds -> SUBSET Devices]
    /\ report \in [JobIds -> SUBSET (Devices \X (Outcomes \union {"none"}))]

Init ==
    /\ jobs = <<>>
    /\ sweep = [phase |-> "sleep", next |-> <<>>]
    /\ running = TRUE
    /\ pc = [j \in JobIds |-> "unborn"]
    /\ targets = [j \in JobIds |-> {}]
    /\ left = [j \in JobIds |-> {}]
    /\ task = [j \in JobIds |-> [d \in Devices |-> [at |-> "none", outcome |-> "none"]]]
    /\ freed = [j \in JobIds |-> {}]
    /\ report = [j \in JobIds |-> {}]

Goto(j, to) == pc' = [pc EXCEPT ![j] = to]

(***************************************************************************)
(* The controller.  Its mutex is held during a pass, so that a request     *)
(* queues a job only between two passes.                                   *)
(***************************************************************************)
AddJob(j) ==
    /\ pc[j] = "unborn"
    /\ sweep.phase \in {"sleep", "stopped"}
    /\ jobs' = Append(jobs, j)
    /\ Goto(j, "queued")
    /\ UNCHANGED <<sweep, running, jobVars, task>>

Wake ==
    /\ sweep.phase = "sleep"
    /\ sweep' = [phase |-> "start", next |-> jobs]
    /\ UNCHANGED <<jobs, running, pc, jobVars, task>>

\* Pool_.used() < Pool_.available(): about half of the pool is ever used.
Used == Cardinality({j \in JobIds : pc[j] \in Busy})
RoomInPool == Used < PoolSize - Used

VisitStart ==
    /\ sweep.phase = "start"
    /\ sweep.next # <<>>
    /\ LET j == Head(sweep.next)
       IN  IF pc[j] = "queued" /\ RoomInPool THEN Goto(j, "started") ELSE UNCHANGED pc
    /\ sweep' = [sweep EXCEPT !.next = Tail(@)]
    /\ UNCHANGED <<jobs, running, jobVars, task>>

StartsVisited ==
    /\ sweep.phase = "start"
    /\ sweep.next = <<>>
    /\ sweep' = [phase |-> "remove", next |-> jobs]
    /\ UNCHANGED <<jobs, running, pc, jobVars, task>>

\* A mutation: a job is taken for completed once it was started.
HasStarted(j) == pc[j] \notin {"unborn", "queued"}

Completed(j) == pc[j] \in {"completed", "returned"}

VisitRemove ==
    /\ sweep.phase = "remove"
    /\ sweep.next # <<>>
    /\ LET j == Head(sweep.next)
       IN  IF Completed(j)
           THEN \E i \in DOMAIN jobs : jobs[i] = j /\ jobs' = RemoveAt(jobs, i)
           ELSE UNCHANGED jobs
    /\ sweep' = [sweep EXCEPT !.next = Tail(@)]
    /\ UNCHANGED <<running, pc, jobVars, task>>

RemovesVisited ==
    /\ sweep.phase = "remove"
    /\ sweep.next = <<>>
    /\ sweep' = [phase |-> IF running THEN "sleep" ELSE "stopped", next |-> <<>>]
    /\ UNCHANGED <<jobs, running, pc, jobVars, task>>

\* The service shuts down; the pass that is under way or due is still made.
Stop ==
    /\ running
    /\ running' = FALSE
    /\ UNCHANGED <<jobs, sweep, pc, jobVars, task>>

(***************************************************************************)
(* A job.                                                                  *)
(***************************************************************************)
FindDevices(j, ds) ==
    /\ pc[j] = "started"
    /\ targets' = [targets EXCEPT ![j] = ds]
    /\ left' = [left EXCEPT ![j] = ds]
    /\ Goto(j, "launching")
    /\ UNCHANGED <<controllerVars, freed, report, task>>

\* A mutation: the job of a venue that is gone ends without setting completed_.
VenueGoneForgotten(j) ==
    /\ pc[j] = "started"
    /\ Goto(j, "returned without Complete()")
    /\ UNCHANGED <<controllerVars, jobVars, task>>

VenueGone(j) ==
    /\ pc[j] = "started"
    /\ Goto(j, "completed")
    /\ UNCHANGED <<controllerVars, jobVars, task>>

Active(j) == {d \in Devices : task[j][d].at \in {"running", "counted", "done"}}
DoneTasks(j) == {d \in targets[j] \ freed[j] : task[j][d].at \in {"done", "returned"}}

Launch(j) ==
    /\ pc[j] = "launching"
    /\ Cardinality(Active(j)) < TaskPoolSize
    /\ \E d \in left[j] :
         /\ left' = [left EXCEPT ![j] = @ \ {d}]
         /\ task' = [task EXCEPT ![j][d].at = "running"]
    /\ Goto(j, "collecting")
    /\ UNCHANGED <<controllerVars, targets, freed, report>>

CollectDone(j) ==
    /\ freed' = [freed EXCEPT ![j] = @ \union DoneTasks(j)]
    /\ report' = [report EXCEPT ![j] = @ \union
                    {<<d, task[j][d].outcome>> : d \in DoneTasks(j)}]
    /\ UNCHANGED <<controllerVars, targets, left, task>>

Collect(j) ==
    /\ pc[j] = "collecting"
    /\ CollectDone(j)
    /\ Goto(j, "launching")

\* A mutation: the last tasks are not waited for.
JoinAtOnce(j) ==
    /\ pc[j] = "launching"
    /\ left[j] = {}
    /\ CollectDone(j)
    /\ Goto(j, "completed")

\* joinAll, the last collection, the notification and Complete().
Join(j) ==
    /\ pc[j] = "launching"
    /\ left[j] = {}
    /\ Active(j) = {}
    /\ CollectDone(j)
    /\ Goto(j, "completed")

JobReturns(j) ==
    /\ pc[j] = "completed"
    /\ Goto(j, "returned")
    /\ UNCHANGED <<controllerVars, jobVars, task>>

(***************************************************************************)
(* A task: it asks the gateway, counts one outcome, or none when the       *)
(* device is no longer in the inventory, and sets done_ as the last thing  *)
(* it does to its object.  Nothing in it catches what an unexpected answer *)
(* makes the clients of the gateway and the firmware service throw; the    *)
(* pool's thread does, and is free again.                                  *)
(***************************************************************************)
TaskCounts(j, d, outcome) ==
    /\ task[j][d].at = "running"
    /\ task' = [task EXCEPT ![j][d] = [at |-> "counted", outcome |-> outcome]]
    /\ UNCHANGED <<controllerVars, pc, jobVars>>

TaskDone(j, d) ==
    /\ task[j][d].at = "counted"
    /\ task' = [task EXCEPT ![j][d].at = "done"]
    /\ UNCHANGED <<controllerVars, pc, jobVars>>

TaskThrows(j, d) ==
    /\ task[j][d].at = "running"
    /\ task' = [task EXCEPT ![j][d].at = "thrown"]
    /\ UNCHANGED <<controllerVars, pc, jobVars>>

TaskReturns(j, d) ==
    /\ task[j][d].at = "done"
    /\ task' = [task EXCEPT ![j][d].at = "returned"]
    /\ UNCHANGED <<controllerVars, pc, jobVars>>

Controller == Wake \/ VisitStart \/ StartsVisited \/ VisitRemove \/ RemovesVisited

JobStep(j) ==
    \/ \E ds \in SUBSET Devices : FindDevices(j, ds)
    \/ VenueGone(j) \/ Launch(j) \/ Collect(j) \/ Join(j) \/ JobReturns(j)

TaskStep(j, d) ==
    \/ \E outcome \in Outcomes \union {"none"} : TaskCounts(j, d, outcome)
    \/ TaskThrows(j, d) \/ TaskDone(j, d) \/ TaskReturns(j, d)

Next ==
    \/ \E j \in JobIds : AddJob(j) \/ JobStep(j)
    \/ \E j \in JobIds, d \in Devices : TaskStep(j, d)
    \/ Controller
    \/ Stop

Spec == Init /\ [][Next]_vars

(***************************************************************************)
(* The controller's loop has no exit but Stop, a job's thread and a task's *)
(* thread run until they return or throw: the calls a task makes to the    *)
(* gateway and the firmware service have timeouts.                         *)
(***************************************************************************)
FairSpec ==
    /\ Spec
    /\ WF_vars(Controller)
    /\ \A j \in JobIds : WF_vars(JobStep(j))
    /\ \A j \in JobIds, d \in Devices : WF_vars(TaskStep(j, d))

-----------------------------------------------------------------------------
InList(j) == \E i \in DOMAIN jobs : jobs[i] = j

(***************************************************************************)
(* No object is deleted under the thread that runs it: a job leaves the    *)
(* controller's list, and a task the job's, only after the last thing its  *)
(* thread does to it.                                                      *)
(***************************************************************************)
DeletedWhenFinished ==
    \A j \in JobIds :
       /\ pc[j] # "unborn" /\ ~InList(j) => pc[j] \in {"completed", "returned"}
       /\ \A d \in freed[j] : task[j][d].at \in {"done", "returned"}

(***************************************************************************)
(* A completed job accounts for every device it found in the venue, each   *)
(* with the final outcome of its task, although tasks are collected while  *)
(* others are still being started, with one exception: the devices whose   *)
(* task threw are in none of its lists.                                    *)
(***************************************************************************)
Answered(j) == {d \in targets[j] : task[j][d].at # "thrown"}

EveryDeviceReported ==
    \A j \in JobIds : pc[j] \in {"completed", "returned"} =>
       report[j] = {<<d, task[j][d].outcome>> : d \in Answered(j)}

(***************************************************************************)
(* Every job a request queued is run to its end and deleted, however many  *)
(* others wait for the pool, unless the service stops.                     *)
(***************************************************************************)
JobsFinish ==
    \A j \in JobIds : InList(j) ~> (~InList(j) \/ ~running)

=============================================================================
