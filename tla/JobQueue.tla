------------------------------ MODULE JobQueue --------------------------------
(***************************************************************************)
(* ServerCore/JobQueue.cpp with LockQueue.h and Job.h: a queue's jobs are  *)
(* run by the thread that raised _jobCount from zero, or by the worker     *)
(* that pops the queue from GJobQueues.  No flag says that a queue has an  *)
(* executor; only the values fetch_add and fetch_sub return do.            *)
(*                                                                         *)
(* A step is one atomic operation or one operation of a LockQueue.  A job  *)
(* that runs may push jobs itself.  RESPONSE_END of PacketRespondent.h     *)
(* makes a queue of its own for one job and puts it into GJobQueues after  *)
(* running it; such a queue is in Private.                                 *)
(***************************************************************************)
EXTENDS Naturals, Sequences, FiniteSets, SequencesExt

CONSTANTS
    Thread, Queue,
    NoQueue,     \* nullptr in LCurrentJobQueue
    Private,     \* the queues of RESPONSE_END
    NJobs,       \* bound on the jobs pushed
    Delayed,     \* jobs with delaySeconds > 0
    Address      \* address of each Job: _priorityJobs orders shared_ptrs

Job == 1 .. NJobs

ASSUME JobQueueAssumption ==
    /\ IsFiniteSet(Thread) /\ IsFiniteSet(Queue) /\ NoQueue \notin Queue
    /\ Private \subseteq Queue
    /\ NJobs \in Nat /\ Delayed \subseteq Job /\ Address \in [Job -> Nat]

VARIABLES
    jobCount,   \* _jobCount
    jobs,       \* _jobs
    priorityJobs, \* _priorityJobs, as a set
    global,     \* GJobQueues
    due,        \* delayed jobs whose tick has come
    created,    \* jobs made so far, numbered
    cur,        \* LCurrentJobQueue of each thread
    pc,         \* where each thread is in Execute
    batch,      \* the local vector jobs of Execute, from the job to run next
    count,      \* the local jobCount
    pushing,    \* Push in progress: "no", "add_first", "add_later", "first"
    pushQueue, pushJob,
    queued, ran, \* history: jobs put into _jobs and jobs run, of each queue
    ranDelayed   \* history: jobs run from _priorityJobs

execVars == <<cur, pc, batch, count>>
pushVars == <<pushing, pushQueue, pushJob>>
history == <<queued, ran, ranDelayed>>
vars == <<jobCount, jobs, priorityJobs, global, due, created, execVars, pushVars, history>>

Init ==
    /\ jobCount = [q \in Queue |-> 0]
    /\ jobs = [q \in Queue |-> <<>>]
    /\ priorityJobs = [q \in Queue |-> {}]
    /\ global = <<>> /\ due = {} /\ created = 0
    /\ cur = [t \in Thread |-> NoQueue]
    /\ pc = [t \in Thread |-> "idle"]
    /\ batch = [t \in Thread |-> <<>>]
    /\ count = [t \in Thread |-> 0]
    /\ pushing = [t \in Thread |-> "no"]
    /\ pushQueue = [t \in Thread |-> NoQueue]
    /\ pushJob = [t \in Thread |-> 0]
    /\ queued = [q \in Queue |-> <<>>] /\ ran = [q \in Queue |-> <<>>] /\ ranDelayed = <<>>
-------------------------------------------------------------------------------
(* Push, called by a worker that handles a packet or by a job that runs.      *)
(* The queue of a response gets one job, from the handler.                    *)
InJob(t) == pc[t] \in {"in_job", "in_delayed"}

PushAdd(t, q) ==
    /\ pushing[t] = "no" /\ created < NJobs
    /\ pc[t] = "idle" \/ InJob(t)
    /\ q \in Private => pc[t] = "idle" /\ queued[q] = <<>> /\ created + 1 \notin Delayed
                        /\ \A u \in Thread : pushQueue[u] # q
    /\ created' = created + 1
    /\ jobCount' = [jobCount EXCEPT ![q] = @ + 1]
    /\ pushing' = [pushing EXCEPT ![t] = IF jobCount[q] = 0 THEN "add_first" ELSE "add_later"]
    /\ pushQueue' = [pushQueue EXCEPT ![t] = q]
    /\ pushJob' = [pushJob EXCEPT ![t] = created + 1]
    /\ UNCHANGED <<jobs, priorityJobs, global, due, execVars, history>>

PushJob(t) ==
    LET q == pushQueue[t]
        j == pushJob[t]
        later == j \in Delayed \ due
    IN  /\ pushing[t] \in {"add_first", "add_later"}
        /\ jobs' = IF later THEN jobs ELSE [jobs EXCEPT ![q] = Append(@, j)]
        /\ queued' = IF later THEN queued ELSE [queued EXCEPT ![q] = Append(@, j)]
        /\ priorityJobs' = IF later THEN [priorityJobs EXCEPT ![q] = @ \union {j}] ELSE priorityJobs
        /\ pushing' = [pushing EXCEPT ![t] = IF @ = "add_first" THEN "first" ELSE "no"]
        /\ pushQueue' = IF pushing[t] = "add_first" THEN pushQueue ELSE [pushQueue EXCEPT ![t] = NoQueue]
        /\ UNCHANGED <<jobCount, global, due, created, execVars, pushJob, ran, ranDelayed>>

(* A job pushed by a job that runs leaves its queue to nobody. *)
M_PushFirst(t) ==
    /\ pushing[t] = "first"
    /\ pushing' = [pushing EXCEPT ![t] = "no"]
    /\ pushQueue' = [pushQueue EXCEPT ![t] = NoQueue]
    /\ IF cur[t] = NoQueue
         THEN /\ cur' = [cur EXCEPT ![t] = pushQueue[t]]
              /\ pc' = [pc EXCEPT ![t] = "pop_all"]
         ELSE UNCHANGED <<cur, pc>>
    /\ UNCHANGED <<jobCount, jobs, priorityJobs, global, due, created, batch, count, pushJob, history>>

PushFirst(t) ==
    /\ pushing[t] = "first"
    /\ pushing' = [pushing EXCEPT ![t] = "no"]
    /\ pushQueue' = [pushQueue EXCEPT ![t] = NoQueue]
    /\ IF cur[t] = NoQueue
         THEN /\ cur' = [cur EXCEPT ![t] = pushQueue[t]]
              /\ pc' = [pc EXCEPT ![t] = "pop_all"]
              /\ UNCHANGED global
         ELSE /\ global' = Append(global, pushQueue[t])
              /\ UNCHANGED <<cur, pc>>
    /\ UNCHANGED <<jobCount, jobs, priorityJobs, due, created, batch, count, pushJob, history>>
-------------------------------------------------------------------------------
(* ExcuteGlobalJobs: one turn of its loop *)
GlobalPop(t) ==
    /\ pc[t] = "idle" /\ pushing[t] = "no" /\ global # <<>>
    /\ cur' = [cur EXCEPT ![t] = Head(global)]
    /\ pc' = [pc EXCEPT ![t] = "pop_all"]
    /\ global' = Tail(global)
    /\ UNCHANGED <<jobCount, jobs, priorityJobs, due, created, batch, count, pushVars, history>>

(* Execute *)
Goto(t, from, to) == pc[t] = from /\ pushing[t] = "no" /\ pc' = [pc EXCEPT ![t] = to]

PopAll(t) ==
    /\ Goto(t, "pop_all", "run")
    /\ batch' = [batch EXCEPT ![t] = jobs[cur[t]]]
    /\ count' = [count EXCEPT ![t] = Len(jobs[cur[t]])]
    /\ jobs' = [jobs EXCEPT ![cur[t]] = <<>>]
    /\ UNCHANGED <<jobCount, priorityJobs, global, due, created, cur, pushVars, history>>

(* The loop over the batch ends when the thread's time is over. *)
M_RunJob(t) ==
    \/ /\ Goto(t, "run", "top")
       /\ UNCHANGED <<batch, ran, jobCount, jobs, priorityJobs, global, due, created, cur, count,
                      pushVars, queued, ranDelayed>>
    \/ /\ batch[t] # <<>>
       /\ Goto(t, "run", "in_job")
       /\ ran' = [ran EXCEPT ![cur[t]] = Append(@, Head(batch[t]))]
       /\ batch' = [batch EXCEPT ![t] = Tail(@)]
       /\ UNCHANGED <<jobCount, jobs, priorityJobs, global, due, created, cur, count, pushVars,
                      queued, ranDelayed>>

RunJob(t) ==
    /\ Goto(t, "run", IF batch[t] = <<>> THEN "top" ELSE "in_job")
    /\ IF batch[t] = <<>>
         THEN UNCHANGED <<batch, ran>>
         ELSE /\ ran' = [ran EXCEPT ![cur[t]] = Append(@, Head(batch[t]))]
              /\ batch' = [batch EXCEPT ![t] = Tail(@)]
    /\ UNCHANGED <<jobCount, jobs, priorityJobs, global, due, created, cur, count, pushVars,
                   queued, ranDelayed>>

JobReturns(t) ==
    /\ \/ Goto(t, "in_job", "run")
       \/ Goto(t, "in_delayed", "pop_delayed")
    /\ UNCHANGED <<jobCount, jobs, priorityJobs, global, due, created, cur, batch, count,
                   pushVars, history>>

(* The greatest address, whatever the tick *)
Top(q) == CHOOSE j \in priorityJobs[q] : \A i \in priorityJobs[q] : Address[i] <= Address[j]

RunDelayed(t) ==
    LET q == cur[t]
        runs == priorityJobs[q] # {} /\ Top(q) \in due
    IN  /\ Goto(t, "top", IF runs THEN "in_delayed" ELSE "sub")
        /\ ranDelayed' = IF runs THEN Append(ranDelayed, Top(q)) ELSE ranDelayed
        /\ UNCHANGED <<jobCount, jobs, priorityJobs, global, due, created, cur, batch, count,
                       pushVars, queued, ran>>


(* Pop removes what is on top now. *)
PopDelayed(t) ==
    /\ Goto(t, "pop_delayed", "top")
    /\ priorityJobs' = [priorityJobs EXCEPT ![cur[t]] = IF @ = {} THEN @ ELSE @ \ {Top(cur[t])}]
    /\ count' = [count EXCEPT ![t] = @ + 1]
    /\ UNCHANGED <<jobCount, jobs, global, due, created, cur, batch, pushVars, history>>

(* RESPONSE_END puts its queue into GJobQueues when Push has returned. *)
Responds(t) == cur[t] \in Private /\ count[t] > 0

Leave(t) ==
    /\ cur' = [cur EXCEPT ![t] = NoQueue]
    /\ count' = [count EXCEPT ![t] = 0]

FetchSub(t) ==
    LET q == cur[t]
        last == jobCount[q] = count[t]
    IN  /\ Goto(t, "sub", IF last THEN "idle" ELSE "time")
        /\ jobCount' = [jobCount EXCEPT ![q] = @ - count[t]]
        /\ IF last THEN Leave(t) ELSE UNCHANGED <<cur, count>>
        /\ global' = IF last /\ Responds(t) THEN Append(global, q) ELSE global
        /\ UNCHANGED <<jobs, priorityJobs, due, created, batch, pushVars, history>>

(* The thread whose time is over goes on although it gave the queue away. *)
M_CheckTime(t) ==
    /\ Goto(t, "time", "pop_all")
    /\ \E over \in {TRUE, FALSE} : global' = IF over THEN Append(global, cur[t]) ELSE global
    /\ UNCHANGED <<jobCount, jobs, priorityJobs, due, created, cur, batch, count, pushVars, history>>

(* LEndTickCount has been reached or not. *)
CheckTime(t) ==
    \/ /\ Goto(t, "time", "pop_all")
       /\ UNCHANGED <<jobCount, jobs, priorityJobs, global, due, created, cur, batch, count,
                      pushVars, history>>
    \/ /\ Goto(t, "time", "idle")
       /\ global' = Append(global, cur[t])
       /\ Leave(t)
       /\ UNCHANGED <<jobCount, jobs, priorityJobs, due, created, batch, pushVars, history>>

(* The clock reaches the tick of a delayed job. *)
Tick(j) ==
    /\ j \in Delayed \ due /\ j <= created
    /\ due' = due \union {j}
    /\ UNCHANGED <<jobCount, jobs, priorityJobs, global, created, execVars, pushVars, history>>
-------------------------------------------------------------------------------
Execute(t) ==
    \/ PopAll(t) \/ RunJob(t) \/ JobReturns(t) \/ RunDelayed(t) \/ PopDelayed(t)
    \/ FetchSub(t) \/ CheckTime(t)

Next ==
    \/ \E t \in Thread :
          \/ \E q \in Queue : PushAdd(t, q)
          \/ PushJob(t) \/ PushFirst(t) \/ GlobalPop(t) \/ Execute(t)
    \/ \E j \in Job : Tick(j)

Spec == Init /\ [][Next]_vars

(* A thread goes on with a Push or an Execute it began, workers come back to  *)
(* ExcuteGlobalJobs, and time passes.                                         *)
Fairness ==
    /\ \A t \in Thread : WF_vars(PushJob(t)) /\ WF_vars(PushFirst(t)) /\ WF_vars(Execute(t))
    /\ WF_vars(\E t \in Thread : GlobalPop(t))
    /\ \A j \in Job : WF_vars(Tick(j))

FairSpec == Spec /\ Fairness
-------------------------------------------------------------------------------
(* Who is to run a queue: the thread that runs it, its entries in GJobQueues, *)
(* and the Push that found the count at zero and has not passed it on.        *)
Executors(q) == {t \in Thread : cur[t] = q}
Starters(q) == {t \in Thread : pushQueue[t] = q /\ pushing[t] \in {"add_first", "first"}}
Entries(q) == {i \in DOMAIN global : global[i] = q}
Charge(q) == Cardinality(Executors(q)) + Cardinality(Starters(q)) + Cardinality(Entries(q))

(* A queue never has two executors, which would run its jobs at the same time, *)
(* and it has one as long as _jobCount is not zero.  Only RESPONSE_END puts a  *)
(* queue that is empty into GJobQueues.                                        *)
OneExecutor ==
    \A q \in Queue :
        /\ Charge(q) <= 1
        /\ jobCount[q] > 0 => Charge(q) = 1
        /\ q \notin Private /\ Charge(q) = 1 => jobCount[q] > 0

Batch(q) == IF Executors(q) = {} THEN <<>> ELSE batch[CHOOSE t \in Executors(q) : TRUE]

(* The jobs of a queue run once and in the order they were put into _jobs,    *)
(* across the threads that take turns in running it.                          *)
RunsInOrder == \A q \in Queue : queued[q] = ran[q] \o Batch(q) \o jobs[q]


(* Every job pushed is run, those pushed by jobs and the delayed ones too. *)
EveryJobRuns ==
    \A j \in Job : created >= j ~>
        (j \in ToSet(ranDelayed) \/ \E q \in Queue : j \in ToSet(ran[q]))
===============================================================================
