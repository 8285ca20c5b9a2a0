-------------------------- MODULE VenueJobs_proofs ---------------------------
(***************************************************************************)
(* Jobs and tasks are deleted only when finished and a completed job       *)
(* reports every device whose task did not throw, for every number of      *)
(* jobs, devices and threads.                                              *)
(***************************************************************************)
EXTENDS VenueJobs, SequenceTheorems, TLAPS

TaskStates ==
    [at : {"none", "running", "counted", "done", "returned", "thrown"},
     outcome : Outcomes \union {"none"}]

StateOK ==
    /\ jobs \in Seq(JobIds)
    /\ sweep \in [phase : {"sleep", "start", "remove", "stopped"}, next : Seq(JobIds)]
    /\ running \in BOOLEAN
    /\ pc \in [JobIds -> Busy \union {"unborn", "queued", "returned"}]
    /\ targets \in [JobIds -> SUBSET Devices]
    /\ left \in [JobIds -> SUBSET Devices]
    /\ task \in [JobIds -> [Devices -> TaskStates]]
    /\ freed \in [JobIds -> SUBSET Devices]
    /\ report \in [JobIds -> SUBSET (Devices \X (Outcomes \union {"none"}))]

\* A job that is not in the list any more had completed.
Listed == \A j \in JobIds : pc[j] \notin {"unborn", "completed", "returned"} => InList(j)

\* Before its devices are found a job has no task; then a task exists exactly for
\* the devices the loop has passed; a completed job has freed all but those that threw.
JobOK(j) ==
    /\ pc[j] \in {"unborn", "queued", "started"} =>
        /\ targets[j] = {} /\ left[j] = {} /\ freed[j] = {}
        /\ \A d \in Devices : task[j][d].at = "none"
    /\ left[j] \subseteq targets[j] /\ freed[j] \subseteq targets[j]
    /\ pc[j] \in {"launching", "collecting"} =>
        \A d \in targets[j] : d \in left[j] <=> task[j][d].at = "none"
    /\ pc[j] \in {"completed", "returned"} => freed[j] = Answered(j)
    /\ \A d \in freed[j] : task[j][d].at \in {"done", "returned"}
    /\ report[j] = {<<d, task[j][d].outcome>> : d \in freed[j]}

JobsInv == StateOK /\ Listed /\ \A j \in JobIds : JobOK(j)

LEMMA JobsInitInv == Init => JobsInv
<1> SUFFICES ASSUME Init PROVE JobsInv
  OBVIOUS
<1> USE DEF Init
<1>1. <<>> \in Seq(JobIds)
  OBVIOUS
<1>2. StateOK
  BY <1>1 DEF StateOK, TaskStates, Busy
<1>3. Listed
  BY DEF Listed
<1>4. \A j \in JobIds : JobOK(j)
  BY DEF JobOK, Answered
<1>5. QED
  BY <1>2, <1>3, <1>4 DEF JobsInv

\* Nothing of a job changes: what is said of it stays true.
LEMMA JobIdle ==
    ASSUME NEW j \in JobIds, JobOK(j),
           pc'[j] = pc[j], targets'[j] = targets[j], left'[j] = left[j],
           task'[j] = task[j], freed'[j] = freed[j], report'[j] = report[j]
    PROVE  JobOK(j)'
BY DEF JobOK, Answered

(***************************************************************************)
(* The list of jobs: what erase takes out, and what Append keeps.          *)
(***************************************************************************)
LEMMA Erased ==
    ASSUME NEW S, NEW s \in Seq(S), NEW i \in DOMAIN s
    PROVE  /\ RemoveAt(s, i) \in Seq(S)
           /\ \A k \in DOMAIN s : k # i => \E m \in DOMAIN RemoveAt(s, i) : RemoveAt(s, i)[m] = s[k]
<1>1. i \in 1..Len(s)
  OBVIOUS
<1> DEFINE a == SubSeq(s, 1, i - 1)
           b == SubSeq(s, i + 1, Len(s))
<1>2. a \in Seq(S) /\ Len(a) = i - 1 /\ \A k \in 1..(i - 1) : a[k] = s[k]
  BY <1>1
<1>3. b \in Seq(S) /\ Len(b) = Len(s) - i /\ \A k \in 1..(Len(s) - i) : b[k] = s[i + k]
  BY <1>1
<1> HIDE DEF a, b
<1> DEFINE c == a \o b
<1>4. c \in Seq(S) /\ Len(c) = Len(s) - 1
      /\ \A k \in 1..Len(c) : c[k] = IF k <= Len(a) THEN a[k] ELSE b[k - Len(a)]
  <2>1. /\ c \in Seq(S) /\ Len(c) = Len(a) + Len(b)
        /\ \A k \in 1..(Len(a) + Len(b)) : c[k] = IF k <= Len(a) THEN a[k] ELSE b[k - Len(a)]
    BY <1>2, <1>3, ConcatProperties
  <2>2. Len(a) + Len(b) = Len(s) - 1
    BY <1>1, <1>2, <1>3
  <2>3. QED
    BY <2>1, <2>2
<1> HIDE DEF c
<1>5. ASSUME NEW k \in DOMAIN s, k # i
      PROVE  \E m \in DOMAIN c : c[m] = s[k]
  <2>1. CASE k < i
    <3>1. k \in 1..Len(c) /\ k <= Len(a) /\ k \in 1..(i-1)
      BY <1>1, <1>2, <1>4, <2>1
    <3>2. c[k] = s[k]
      BY <1>2, <1>4, <3>1
    <3>3. QED
      BY <1>4, <3>1, <3>2
  <2>2. CASE k > i
    <3>1. k - 1 \in 1..Len(c) /\ ~(k - 1 <= Len(a)) /\ k - i \in 1..(Len(s) - i)
          /\ (k - 1) - Len(a) = k - i /\ i + (k - i) = k
      BY <1>1, <1>2, <1>4, <2>2
    <3>2. c[k - 1] = b[k - i]
      BY <1>4, <3>1
    <3>3. b[k - i] = s[i + (k - i)]
      BY <1>3, <3>1
    <3>4. c[k - 1] = s[k]
      BY ONLY <3>1, <3>2, <3>3
    <3>5. k - 1 \in DOMAIN c
      BY <1>4, <3>1
    <3>6. QED
      BY ONLY <3>4, <3>5
  <2>3. QED
    BY <1>1, <1>5, <2>1, <2>2
<1>6. RemoveAt(s, i) = c
  BY DEF RemoveAt, c, a, b
<1>7. QED
  BY <1>4, <1>5, <1>6

LEMMA Appended ==
    ASSUME NEW S, NEW s \in Seq(S), NEW e \in S
    PROVE  /\ Append(s, e) \in Seq(S)
           /\ \A k \in DOMAIN s : k \in DOMAIN Append(s, e) /\ Append(s, e)[k] = s[k]
           /\ \E k \in DOMAIN Append(s, e) : Append(s, e)[k] = e
<1>1. /\ Append(s, e) \in Seq(S) /\ Len(Append(s, e)) = Len(s) + 1
      /\ \A k \in 1..Len(s) : Append(s, e)[k] = s[k]
      /\ Append(s, e)[Len(s) + 1] = e
  BY AppendProperties
<1>2. Len(s) \in Nat /\ DOMAIN s = 1..Len(s) /\ DOMAIN Append(s, e) = 1..(Len(s) + 1)
  BY <1>1, LenProperties
<1>3. Len(s) + 1 \in DOMAIN Append(s, e)
  BY <1>2
<1>4. QED
  BY <1>1, <1>2, <1>3

(***************************************************************************)
(* The controller.                                                         *)
(***************************************************************************)
LEMMA AddJobInv ==
    ASSUME JobsInv, NEW j \in JobIds, AddJob(j)
    PROVE  JobsInv'
<1>1. /\ pc[j] = "unborn" /\ jobs' = Append(jobs, j) /\ pc' = [pc EXCEPT ![j] = "queued"]
      /\ UNCHANGED <<sweep, running, targets, left, freed, report, task>>
  BY DEF AddJob, Goto, jobVars
<1>2. jobs \in Seq(JobIds) /\ pc \in [JobIds -> Busy \union {"unborn", "queued", "returned"}]
  BY DEF JobsInv, StateOK
<1>3. /\ jobs' \in Seq(JobIds)
      /\ \A k \in DOMAIN jobs : k \in DOMAIN jobs' /\ jobs'[k] = jobs[k]
      /\ \E k \in DOMAIN jobs' : jobs'[k] = j
  BY <1>1, <1>2, Appended
<1>4. StateOK'
  BY <1>1, <1>3 DEF JobsInv, StateOK
<1>5. Listed'
  BY <1>1, <1>2, <1>3 DEF JobsInv, Listed, InList
<1>6. ASSUME NEW i \in JobIds
      PROVE  JobOK(i)'
  <2>1. CASE i = j
    BY <1>1, <1>2, <2>1 DEF JobsInv, JobOK, Answered
  <2>2. CASE i # j
    BY <1>1, <1>2, <2>2, JobIdle DEF JobsInv
  <2>3. QED
    BY <2>1, <2>2
<1>7. QED
  BY <1>4, <1>5, <1>6 DEF JobsInv

LEMMA SweepInv ==
    ASSUME JobsInv, Wake \/ StartsVisited \/ RemovesVisited \/ Stop
    PROVE  JobsInv'
<1>1. UNCHANGED <<jobs, pc, targets, left, freed, report, task>>
  BY DEF Wake, StartsVisited, RemovesVisited, Stop, jobVars
<1>2. sweep' \in [phase : {"sleep", "start", "remove", "stopped"}, next : Seq(JobIds)]
  <2>1. <<>> \in Seq(JobIds)
    OBVIOUS
  <2>2. QED
    BY <2>1 DEF Wake, StartsVisited, RemovesVisited, Stop, JobsInv, StateOK
<1>3. running' \in BOOLEAN
  BY DEF Wake, StartsVisited, RemovesVisited, Stop, JobsInv, StateOK
<1>4. StateOK'
  BY <1>1, <1>2, <1>3 DEF JobsInv, StateOK
<1>5. Listed'
  BY <1>1 DEF JobsInv, Listed, InList
<1>6. \A j \in JobIds : JobOK(j)'
  BY <1>1, JobIdle DEF JobsInv
<1>7. QED
  BY <1>4, <1>5, <1>6 DEF JobsInv

LEMMA SweepTail ==
    ASSUME StateOK, sweep.next # <<>>, sweep' = [sweep EXCEPT !.next = Tail(@)]
    PROVE  /\ sweep' \in [phase : {"sleep", "start", "remove", "stopped"}, next : Seq(JobIds)]
           /\ Head(sweep.next) \in JobIds
<1>1. sweep.next \in Seq(JobIds)
  BY DEF StateOK
<1>2. Tail(sweep.next) \in Seq(JobIds) /\ Head(sweep.next) \in JobIds
  BY <1>1, HeadTailProperties
<1>3. QED
  BY <1>2 DEF StateOK

LEMMA VisitStartInv ==
    ASSUME JobsInv, VisitStart
    PROVE  JobsInv'
<1> DEFINE j == Head(sweep.next)
<1>1. /\ sweep.next # <<>> /\ sweep' = [sweep EXCEPT !.next = Tail(@)]
      /\ UNCHANGED <<jobs, running, targets, left, freed, report, task>>
      /\ pc' = pc \/ (pc[j] = "queued" /\ pc' = [pc EXCEPT ![j] = "started"])
  BY DEF VisitStart, Goto, jobVars
<1>2. /\ sweep' \in [phase : {"sleep", "start", "remove", "stopped"}, next : Seq(JobIds)]
      /\ j \in JobIds
  BY <1>1, SweepTail DEF JobsInv
<1> HIDE DEF j
<1>3. StateOK'
  BY <1>1, <1>2 DEF JobsInv, StateOK, Busy
<1>4. pc \in [JobIds -> Busy \union {"unborn", "queued", "returned"}]
  BY DEF JobsInv, StateOK
<1>5. Listed'
  BY <1>1, <1>2, <1>4 DEF JobsInv, Listed, InList
<1>6. ASSUME NEW i \in JobIds
      PROVE  JobOK(i)'
  <2>1. CASE pc'[i] = pc[i]
    BY <1>1, <2>1, JobIdle DEF JobsInv
  <2>2. CASE pc'[i] # pc[i]
    <3>1. pc[i] = "queued" /\ pc'[i] = "started"
      BY <1>1, <1>2, <1>4, <2>2
    <3>2. QED
      BY <1>1, <3>1 DEF JobsInv, JobOK, Answered
  <2>3. QED
    BY <2>1, <2>2
<1>7. QED
  BY <1>3, <1>5, <1>6 DEF JobsInv

LEMMA VisitRemoveInv ==
    ASSUME JobsInv, VisitRemove
    PROVE  JobsInv'
<1> DEFINE j == Head(sweep.next)
<1>1. /\ sweep.next # <<>> /\ sweep' = [sweep EXCEPT !.next = Tail(@)]
      /\ UNCHANGED <<running, pc, targets, left, freed, report, task>>
      /\ \/ jobs' = jobs
         \/ /\ Completed(j)
            /\ \E i \in DOMAIN jobs : jobs[i] = j /\ jobs' = RemoveAt(jobs, i)
  BY DEF VisitRemove, jobVars
<1>2. /\ sweep' \in [phase : {"sleep", "start", "remove", "stopped"}, next : Seq(JobIds)]
      /\ j \in JobIds
  BY <1>1, SweepTail DEF JobsInv
<1> HIDE DEF j
<1>3. jobs \in Seq(JobIds)
  BY DEF JobsInv, StateOK
<1>4. /\ jobs' \in Seq(JobIds)
      /\ \A k \in DOMAIN jobs : ~Completed(jobs[k]) => \E m \in DOMAIN jobs' : jobs'[m] = jobs[k]
  <2>1. CASE jobs' = jobs
    BY <1>3, <2>1
  <2>2. CASE jobs' # jobs
    <3>1. PICK i \in DOMAIN jobs : Completed(jobs[i]) /\ jobs' = RemoveAt(jobs, i)
      BY <1>1, <2>2
    <3>2. /\ RemoveAt(jobs, i) \in Seq(JobIds)
          /\ \A k \in DOMAIN jobs : k # i =>
               \E m \in DOMAIN RemoveAt(jobs, i) : RemoveAt(jobs, i)[m] = jobs[k]
      BY <1>3, Erased
    <3>3. QED
      BY <3>1, <3>2
  <2>3. QED
    BY <2>1, <2>2
<1>5. StateOK'
  BY <1>1, <1>2, <1>4 DEF JobsInv, StateOK
<1>6. Listed'
  BY <1>1, <1>4 DEF JobsInv, Listed, InList, Completed
<1>7. \A i \in JobIds : JobOK(i)'
  BY <1>1, JobIdle DEF JobsInv
<1>8. QED
  BY <1>5, <1>6, <1>7 DEF JobsInv

(***************************************************************************)
(* A step of one job, or of one of its tasks: the list and the other jobs  *)
(* stay as they are.                                                       *)
(***************************************************************************)
LEMMA OneJobMoves ==
    ASSUME JobsInv, NEW j \in JobIds, StateOK', JobOK(j)',
           UNCHANGED jobs,
           pc[j] # "unborn" /\ (pc[j] \in {"completed", "returned"} =>
                                  pc'[j] \in {"completed", "returned"}),
           \A i \in JobIds : i # j =>
              /\ pc'[i] = pc[i] /\ targets'[i] = targets[i] /\ left'[i] = left[i]
              /\ task'[i] = task[i] /\ freed'[i] = freed[i] /\ report'[i] = report[i]
    PROVE  JobsInv'
<1>1. Listed'
  BY DEF JobsInv, Listed, InList
<1>2. ASSUME NEW i \in JobIds, i # j
      PROVE  JobOK(i)'
  BY <1>2, JobIdle DEF JobsInv
<1>3. QED
  BY <1>1, <1>2 DEF JobsInv

LEMMA FindDevicesInv ==
    ASSUME JobsInv, NEW j \in JobIds, NEW ds \in SUBSET Devices,
           FindDevices(j, ds)
    PROVE  JobsInv'
<1>1. /\ pc[j] = "started" /\ pc' = [pc EXCEPT ![j] = "launching"]
      /\ targets' = [targets EXCEPT ![j] = ds]
      /\ left' = [left EXCEPT ![j] = ds]
      /\ UNCHANGED <<jobs, sweep, running, task, freed, report>>
  BY DEF FindDevices, Goto, controllerVars
<1>2. StateOK'
  BY <1>1 DEF JobsInv, StateOK, Busy
<1>3. pc'[j] = "launching" /\ targets'[j] = ds /\ left'[j] = ds
  BY <1>1 DEF JobsInv, StateOK
<1>4. JobOK(j)'
  BY <1>1, <1>3 DEF JobsInv, JobOK, Answered
<1>5. QED
  BY <1>1, <1>2, <1>4, OneJobMoves DEF JobsInv, StateOK

LEMMA VenueGoneInv ==
    ASSUME JobsInv, NEW j \in JobIds, VenueGone(j)
    PROVE  JobsInv'
<1>1. /\ pc[j] = "started" /\ pc' = [pc EXCEPT ![j] = "completed"]
      /\ UNCHANGED <<jobs, sweep, running, task, targets, left, freed, report>>
  BY DEF VenueGone, Goto, controllerVars, jobVars
<1>2. StateOK'
  BY <1>1 DEF JobsInv, StateOK, Busy
<1>3. pc'[j] = "completed"
  BY <1>1 DEF JobsInv, StateOK
<1>4. JobOK(j)'
  <2>1. JobOK(j) /\ targets[j] = {} /\ left[j] = {} /\ freed[j] = {}
    BY <1>1 DEF JobsInv, JobOK, Answered
  <2>2. report[j] = {<<d, task[j][d].outcome>> : d \in freed[j]}
    BY <2>1 DEF JobOK, Answered
  <2>3. report'[j] = {<<d, task'[j][d].outcome>> : d \in freed'[j]}
    BY <1>1, <2>2
  <2>4. QED
    BY <1>1, <1>3, <2>1, <2>3 DEF JobOK, Answered
<1>5. QED
  BY <1>1, <1>2, <1>4, OneJobMoves DEF JobsInv, StateOK

LEMMA LaunchInv ==
    ASSUME JobsInv, NEW j \in JobIds, Launch(j)
    PROVE  JobsInv'
<1>1. PICK d \in left[j] : /\ left' = [left EXCEPT ![j] = @ \ {d}]
                           /\ task' = [task EXCEPT ![j][d].at = "running"]
  BY DEF Launch
<1>2. /\ pc[j] = "launching" /\ pc' = [pc EXCEPT ![j] = "collecting"]
      /\ UNCHANGED <<jobs, sweep, running, targets, freed, report>>
  BY DEF Launch, Goto, controllerVars
<1>3. d \in Devices /\ task[j] \in [Devices -> TaskStates] /\ d \in targets[j]
  BY DEF JobsInv, StateOK, JobOK
<1>4. task' = [task EXCEPT ![j] = [task[j] EXCEPT ![d] = [task[j][d] EXCEPT !.at = "running"]]]
  BY <1>1
<1>5. /\ [task[j][d] EXCEPT !.at = "running"] \in TaskStates
      /\ [task[j][d] EXCEPT !.at = "running"].at = "running"
  BY <1>3 DEF TaskStates
<1>6. /\ task'[j][d].at = "running"
      /\ \A e \in Devices : e # d => task'[j][e] = task[j][e]
      /\ \A i \in JobIds : i # j => task'[i] = task[i]
      /\ task' \in [JobIds -> [Devices -> TaskStates]]
  BY <1>3, <1>4, <1>5 DEF JobsInv, StateOK
<1>7. StateOK'
  BY <1>1, <1>2, <1>6 DEF JobsInv, StateOK, Busy
<1>8. JobOK(j)'
  <2>1. task[j][d].at = "none" /\ d \notin freed[j]
    BY <1>2, <1>3 DEF JobsInv, JobOK, Answered
  <2>2. freed[j] \subseteq Devices /\ targets[j] \subseteq Devices
    BY DEF JobsInv, StateOK
  <2>3. pc'[j] = "collecting" /\ left'[j] = left[j] \ {d}
    BY <1>1, <1>2 DEF JobsInv, StateOK
  <2>4. report'[j] = {<<e, task'[j][e].outcome>> : e \in freed'[j]}
    BY <1>2, <1>6, <2>1, <2>2 DEF JobsInv, JobOK, Answered
  <2>5. QED
    BY <1>2, <1>6, <2>1, <2>2, <2>3, <2>4 DEF JobsInv, JobOK, Answered
<1>9. QED
  BY <1>1, <1>2, <1>6, <1>7, <1>8, OneJobMoves DEF JobsInv, StateOK

LEMMA CollectInv ==
    ASSUME JobsInv, NEW j \in JobIds, Collect(j) \/ Join(j)
    PROVE  JobsInv'
<1>1. /\ freed' = [freed EXCEPT ![j] = @ \union DoneTasks(j)]
      /\ report' = [report EXCEPT ![j] = @ \union {<<d, task[j][d].outcome>> : d \in DoneTasks(j)}]
      /\ UNCHANGED <<jobs, sweep, running, targets, left, task>>
  BY DEF Collect, Join, CollectDone, controllerVars
<1>2. /\ pc[j] = "collecting" /\ pc' = [pc EXCEPT ![j] = "launching"]
      \/ /\ pc[j] = "launching" /\ pc' = [pc EXCEPT ![j] = "completed"]
         /\ left[j] = {} /\ Active(j) = {}
  BY DEF Collect, Join, Goto
<1>3. /\ DoneTasks(j) \subseteq targets[j] /\ targets[j] \subseteq Devices
      /\ \A d \in DoneTasks(j) : task[j][d].at \in {"done", "returned"}
  BY DEF DoneTasks, JobsInv, StateOK
<1>4. /\ freed'[j] = freed[j] \union DoneTasks(j)
      /\ report'[j] = report[j] \union {<<d, task[j][d].outcome>> : d \in DoneTasks(j)}
  BY <1>1 DEF JobsInv, StateOK
<1>5. StateOK'
  <2>1. {<<d, task[j][d].outcome>> : d \in DoneTasks(j)} \subseteq
          Devices \X (Outcomes \union {"none"})
    BY <1>3 DEF JobsInv, StateOK, TaskStates
  <2>2. report' \in [JobIds -> SUBSET (Devices \X (Outcomes \union {"none"}))]
    BY <1>1, <2>1 DEF JobsInv, StateOK
  <2>3. freed' \in [JobIds -> SUBSET Devices]
    BY <1>1, <1>3 DEF JobsInv, StateOK
  <2>4. pc' \in [JobIds -> Busy \union {"unborn", "queued", "returned"}]
    BY <1>2 DEF JobsInv, StateOK, Busy
  <2>5. QED
    BY <1>1, <2>2, <2>3, <2>4 DEF JobsInv, StateOK
<1>6. JobOK(j)'
  <2>1. report'[j] = {<<d, task'[j][d].outcome>> : d \in freed'[j]}
    BY <1>1, <1>4 DEF JobsInv, JobOK, Answered
  <2>2. /\ freed'[j] \subseteq targets'[j]
        /\ \A d \in freed'[j] : task'[j][d].at \in {"done", "returned"}
    BY <1>1, <1>3, <1>4 DEF JobsInv, JobOK, Answered
  <2>3. CASE pc[j] = "collecting"
    <3>1. pc'[j] = "launching"
      BY <1>2, <2>3 DEF JobsInv, StateOK
    <3>2. QED
      BY <1>1, <2>1, <2>2, <2>3, <3>1 DEF JobsInv, JobOK, Answered
  <2>4. CASE pc[j] = "launching"
    <3>1. pc'[j] = "completed" /\ left[j] = {} /\ Active(j) = {}
      BY <1>2, <2>4 DEF JobsInv, StateOK
    <3>2. \A d \in targets[j] : task[j][d].at \in {"returned", "thrown"}
      <4>1. \A d \in targets[j] : task[j][d].at # "none"
        BY <2>4, <3>1 DEF JobsInv, JobOK, Answered
      <4>2. \A d \in targets[j] : task[j][d].at \notin {"running", "counted", "done"}
        BY <1>3, <3>1 DEF Active
      <4>3. \A d \in targets[j] : task[j][d] \in TaskStates
        BY <1>3 DEF JobsInv, StateOK
      <4>4. QED
        BY <4>1, <4>2, <4>3 DEF TaskStates
    <3>3. freed'[j] = Answered(j)'
      BY <1>1, <1>4, <2>2, <3>2 DEF DoneTasks, Answered
    <3>4. QED
      BY <1>1, <2>1, <2>2, <3>1, <3>3 DEF JobsInv, JobOK, Answered
  <2>5. QED
    BY <1>2, <2>3, <2>4
<1>7. \A i \in JobIds : i # j =>
         /\ pc'[i] = pc[i] /\ targets'[i] = targets[i] /\ left'[i] = left[i]
         /\ task'[i] = task[i] /\ freed'[i] = freed[i] /\ report'[i] = report[i]
  BY <1>1, <1>2 DEF JobsInv, StateOK
<1>8. QED
  BY <1>1, <1>2, <1>5, <1>6, <1>7, OneJobMoves

LEMMA JobReturnsInv ==
    ASSUME JobsInv, NEW j \in JobIds, JobReturns(j)
    PROVE  JobsInv'
<1> USE DEF JobReturns, Goto, controllerVars, jobVars
<1>1. StateOK'
  BY DEF JobsInv, StateOK, Busy
<1>2. JobOK(j)'
  BY DEF JobsInv, StateOK, JobOK, Answered
<1>3. QED
  BY <1>1, <1>2, OneJobMoves DEF JobsInv, StateOK

(***************************************************************************)
(* A task moves on; one that is freed keeps its outcome.                   *)
(***************************************************************************)
LEMMA TaskInv ==
    ASSUME JobsInv, NEW j \in JobIds, NEW d \in Devices, TaskStep(j, d)
    PROVE  JobsInv'
<1>1. UNCHANGED <<jobs, sweep, running, pc, targets, left, freed, report>>
  BY DEF TaskStep, TaskCounts, TaskThrows, TaskDone, TaskReturns, controllerVars, jobVars
<1>2. task \in [JobIds -> [Devices -> TaskStates]] /\ task[j][d] \in TaskStates
  BY DEF JobsInv, StateOK
<1>3. PICK new \in TaskStates :
         /\ task' = [task EXCEPT ![j] = [task[j] EXCEPT ![d] = new]]
         /\ task[j][d].at \notin {"none", "thrown"} /\ new.at # "none"
         /\ new.at = "thrown" => task[j][d].at = "running"
         /\ task[j][d].at \in {"done", "returned"} =>
              new.at \in {"done", "returned"} /\ new.outcome = task[j][d].outcome
  <2>1. ASSUME NEW o \in Outcomes \union {"none"}, TaskCounts(j, d, o)
        PROVE  \E new \in TaskStates :
                 /\ task' = [task EXCEPT ![j] = [task[j] EXCEPT ![d] = new]]
                 /\ task[j][d].at \notin {"none", "thrown"} /\ new.at # "none"
                 /\ new.at = "thrown" => task[j][d].at = "running"
                 /\ task[j][d].at \in {"done", "returned"} =>
                      new.at \in {"done", "returned"} /\ new.outcome = task[j][d].outcome
    <3> DEFINE new == [at |-> "counted", outcome |-> o]
    <3>1. new \in TaskStates /\ new.at = "counted"
      BY DEF TaskStates
    <3>2. /\ task' = [task EXCEPT ![j] = [task[j] EXCEPT ![d] = new]]
          /\ task[j][d].at = "running"
      BY <2>1 DEF TaskCounts
    <3> HIDE DEF new
    <3>3. QED
      BY <3>1, <3>2
  <2>2. ASSUME NEW from \in {"running", "counted", "done"},
               NEW to \in {"thrown", "done", "returned"},
               (from = "running" <=> to = "thrown"), (from = "done" => to = "returned"),
               task[j][d].at = from, task' = [task EXCEPT ![j][d].at = to]
        PROVE  \E new \in TaskStates :
                 /\ task' = [task EXCEPT ![j] = [task[j] EXCEPT ![d] = new]]
                 /\ task[j][d].at \notin {"none", "thrown"} /\ new.at # "none"
                 /\ new.at = "thrown" => task[j][d].at = "running"
                 /\ task[j][d].at \in {"done", "returned"} =>
                      new.at \in {"done", "returned"} /\ new.outcome = task[j][d].outcome
    <3> DEFINE new == [task[j][d] EXCEPT !.at = to]
    <3>1. new \in TaskStates /\ new.at = to /\ new.outcome = task[j][d].outcome
      BY <1>2 DEF TaskStates
    <3>2. task' = [task EXCEPT ![j] = [task[j] EXCEPT ![d] = new]]
      BY <2>2
    <3> HIDE DEF new
    <3>3. QED
      BY <2>2, <3>1, <3>2
  <2>3. QED
    BY <2>1, <2>2 DEF TaskStep, TaskThrows, TaskDone, TaskReturns
<1>4. /\ task'[j][d] = new
      /\ \A e \in Devices : e # d => task'[j][e] = task[j][e]
      /\ \A i \in JobIds : i # j => task'[i] = task[i]
      /\ task' \in [JobIds -> [Devices -> TaskStates]]
  BY <1>2, <1>3
<1>5. StateOK'
  BY <1>1, <1>4 DEF JobsInv, StateOK
<1>6. JobOK(j)'
  <2>1. freed[j] \subseteq Devices /\ targets[j] \subseteq Devices
    BY DEF JobsInv, StateOK
  <2>2. \A e \in freed[j] : /\ task'[j][e].at \in {"done", "returned"}
                            /\ task'[j][e].outcome = task[j][e].outcome
    BY <1>3, <1>4, <2>1 DEF JobsInv, JobOK, Answered
  <2>3. \A e \in Devices : task'[j][e].at = "none" <=> task[j][e].at = "none"
    BY <1>3, <1>4
  <2>4. report[j] = {<<e, task'[j][e].outcome>> : e \in freed[j]}
    BY <2>2 DEF JobsInv, JobOK, Answered
  <2>5. ASSUME pc[j] \in {"completed", "returned"} PROVE freed[j] = Answered(j)'
    <3>1. freed[j] = Answered(j) /\ \A e \in freed[j] : task[j][e].at \in {"done", "returned"}
      BY <2>5 DEF JobsInv, JobOK
    <3>2. \A e \in targets[j] : task[j][e].at = "thrown" <=> task'[j][e].at = "thrown"
      BY <1>3, <1>4, <2>1, <3>1 DEF Answered
    <3>3. QED
      BY <1>1, <3>1, <3>2 DEF Answered
  <2>6. QED
    BY <1>1, <2>1, <2>2, <2>3, <2>4, <2>5 DEF JobsInv, JobOK
<1>7. pc[j] # "unborn"
  BY <1>3 DEF JobsInv, JobOK, Answered
<1>8. QED
  BY <1>1, <1>4, <1>5, <1>6, <1>7, OneJobMoves

LEMMA JobsNextInv == JobsInv /\ [Next]_vars => JobsInv'
<1> SUFFICES ASSUME JobsInv, [Next]_vars
             PROVE  JobsInv'
  OBVIOUS
<1>1. ASSUME NEW j \in JobIds, AddJob(j)
      PROVE  JobsInv'
  BY <1>1, AddJobInv
<1>2. ASSUME NEW j \in JobIds, JobStep(j)
      PROVE  JobsInv'
  <2>1. ASSUME NEW ds \in SUBSET Devices, FindDevices(j, ds)
        PROVE  JobsInv'
    BY <2>1, FindDevicesInv
  <2>2. CASE VenueGone(j)
    BY <2>2, VenueGoneInv
  <2>3. QED
    BY <1>2, <2>1, <2>2, LaunchInv, CollectInv, JobReturnsInv DEF JobStep
<1>3. ASSUME NEW j \in JobIds, NEW d \in Devices, TaskStep(j, d)
      PROVE  JobsInv'
  BY <1>3, TaskInv
<1>4. CASE Controller \/ Stop
  BY <1>4, SweepInv, VisitStartInv, VisitRemoveInv DEF Controller
<1>5. CASE UNCHANGED vars
  <2>1. UNCHANGED <<jobs, sweep, running, pc, targets, left, freed, report, task>>
    BY <1>5 DEF vars, controllerVars, jobVars
  <2>2. StateOK' /\ Listed'
    BY <2>1 DEF JobsInv, StateOK, Listed, InList
  <2>3. \A j \in JobIds : JobOK(j)'
    BY <2>1, JobIdle DEF JobsInv
  <2>4. QED
    BY <2>2, <2>3 DEF JobsInv
<1>6. QED
  BY <1>1, <1>2, <1>3, <1>4, <1>5 DEF Next

(***************************************************************************)
(* The controller deletes a job, and a job its tasks, only after the last  *)
(* thing the thread of each does to the object it deletes.                 *)
(***************************************************************************)
THEOREM DeletedWhenFinishedTheorem == Spec => []DeletedWhenFinished
<1>1. JobsInv => DeletedWhenFinished
  BY DEF JobsInv, Listed, JobOK, DeletedWhenFinished
<1>2. QED
  BY JobsInitInv, JobsNextInv, <1>1, PTL DEF Spec

(***************************************************************************)
(* The notification of a completed job accounts for every device it found  *)
(* but those whose task threw, each with the outcome its task counted, in  *)
(* whatever order tasks finish and are collected.                          *)
(***************************************************************************)
THEOREM EveryDeviceReportedTheorem == Spec => []EveryDeviceReported
<1>1. JobsInv => EveryDeviceReported
  BY DEF JobsInv, JobOK, EveryDeviceReported
<1>2. QED
  BY JobsInitInv, JobsNextInv, <1>1, PTL DEF Spec

=============================================================================
