----------------------------- MODULE Scheduler -----------------------------
(***************************************************************************)
(* CScheduler (scheduler.cpp): threads in serviceQueue wait for the time of  *)
(* the first task, run it without the lock and wait again; tasks are added   *)
(* and the scheduler is stopped by other threads, or by a task.              *)
(*                                                                           *)
(* newTaskMutex is held from one wait (or call of a task) to the next, so    *)
(* that stretch is one action.  A notification comes after the unlock and is *)
(* an action of its own.                                                     *)
(***************************************************************************)
EXTENDS Integers, FiniteSets, Sequences

CONSTANTS
    Threads,      \* threads that may run serviceQueue
    Tasks,
    Period,       \* of each task: 0, or deltaSeconds of scheduleEvery
    MaxTime,      \* bound on the clock and on task times
    NoTask, Freed

ASSUME ThreadsAssumption == IsFiniteSet(Threads)
ASSUME TimeAssumption    == MaxTime \in Nat /\ Period \in [Tasks -> Nat]
ASSUME NoTaskAssumption  == NoTask # Freed /\ {NoTask, Freed} \cap Tasks = {} /\ NoTask \notin Threads

VARIABLES
    now,                        \* system_clock
    taskQueue,                  \* the multimap, as a sequence of [at, task]
    nThreadsServicingQueue, stopRequested, stopWhenEmpty,
    pc,                         \* of each service thread
    ref, until,                 \* wait_until's arguments: the first task, by reference, and its time
    cur,                        \* the task in f() and the time it was set for
    scheduled, untold,          \* tasks given to schedule(); calls of it before notify_one
    stopper,                    \* the thread in stop()
    interrupted                 \* boost::thread::interrupt

service == <<pc, ref, until, cur, nThreadsServicingQueue>>
clients == <<scheduled, untold, stopper, interrupted, stopRequested, stopWhenEmpty>>
vars    == <<now, taskQueue, service, clients>>

\* none: not created; wait, timed: in wait and wait_until; woken: notified;
\* run: in f(); insert, notify: in the schedule() of Repeat; back: f() returns
ServicePC == {"none", "new", "wait", "timed", "woken", "run", "insert", "notify", "back", "done"}
Times     == 0..MaxTime
Entry     == [at : Times, task : Tasks]
Idle      == [at |-> 0, task |-> NoTask]

InQueue(k) == \E i \in DOMAIN taskQueue : taskQueue[i].task = k

\* taskQueue.insert(make_pair(t, f)): behind the tasks of the same time
Inserted(t, k) ==
    LET n == Cardinality({i \in DOMAIN taskQueue : taskQueue[i].at <= t})
    IN  SubSeq(taskQueue, 1, n) \o <<[at |-> t, task |-> k]>> \o SubSeq(taskQueue, n + 1, Len(taskQueue))

\* Mutant of ShouldStop: draining stops with tasks left.
ShouldStopAtOnce == stopRequested \/ stopWhenEmpty

ShouldStop == stopRequested \/ (stopWhenEmpty /\ taskQueue = <<>>)

\* newTaskScheduled.notify_one(), th being at q; nobody else for th = q = NoTask
NotifyOne(th, q) ==
    LET waiting == {v \in Threads : pc[v] \in {"wait", "timed"}}
        moved   == [v \in Threads |-> IF v = th THEN q ELSE pc[v]]
    IN  \/ waiting = {} /\ pc' = moved
        \/ \E v \in waiting : pc' = [moved EXCEPT ![v] = "woken"]

-----------------------------------------------------------------------------
(* serviceQueue *)

\* Mutant of Uncounted: the count is not kept when an exception leaves the loop.
UncountedNever == nThreadsServicingQueue

\* --nThreadsServicingQueue in the catch block
Uncounted == nThreadsServicingQueue - 1

\* The loop of a thread that has the lock and no expired wait: it ends, or waits
\* for a task, or for the first task's time.
Settle(th, count) ==
    \/ /\ ShouldStop
       /\ pc' = [pc EXCEPT ![th] = "done"]
       /\ nThreadsServicingQueue' = count - 1
       /\ ref' = [ref EXCEPT ![th] = NoTask]
       /\ UNCHANGED until
    \/ /\ ~ShouldStop /\ taskQueue = <<>>
       /\ pc' = [pc EXCEPT ![th] = "wait"]
       /\ nThreadsServicingQueue' = count
       /\ ref' = [ref EXCEPT ![th] = NoTask]
       /\ UNCHANGED until
    \/ /\ ~ShouldStop /\ taskQueue # <<>>
       /\ pc' = [pc EXCEPT ![th] = "timed"]
       /\ nThreadsServicingQueue' = count
       /\ ref' = [ref EXCEPT ![th] = Head(taskQueue).task]
       /\ until' = [until EXCEPT ![th] = Head(taskQueue).at]

Enter(th) ==
    /\ pc[th] = "new"
    /\ Settle(th, nThreadsServicingQueue + 1)
    /\ UNCHANGED <<now, taskQueue, cur, clients>>

\* Mutant of TimedOut: every wake-up counts as a timeout.
TimedOutAlways(th) == {ref[th] # NoTask}

\* What wait_until says: now() >= t, where t is a reference into the multimap
\* that dangles once another thread has erased the task.
TimedOut(th) ==
    CASE ref[th] = NoTask -> {FALSE}
      [] ref[th] = Freed  -> BOOLEAN
      [] OTHER            -> {now >= until[th]}

\* Mutant of Expired: a waiting thread is only woken by a notification.
ExpiredNever(th) == FALSE

Expired(th) == pc[th] = "timed" /\ now >= until[th]

\* taskQueue.erase(taskQueue.begin())
Erased == Tail(taskQueue)

\* The first task is erased and called
Take(th) ==
    LET first == Head(taskQueue)
    IN  /\ taskQueue' = Erased
        /\ cur' = [cur EXCEPT ![th] = first]
        /\ pc' = [pc EXCEPT ![th] = "run"]
        /\ ref' = [v \in Threads |-> IF v = th THEN NoTask
                                     ELSE IF ref[v] = first.task THEN Freed ELSE ref[v]]

\* A wait is over, and the thread has the lock again
Resume(th) ==
    /\ pc[th] = "woken" \/ Expired(th)
    /\ \E timeout \in TimedOut(th) :
          IF timeout /\ ~ShouldStop /\ taskQueue # <<>>
          THEN Take(th) /\ UNCHANGED <<until, nThreadsServicingQueue>>
          ELSE Settle(th, nThreadsServicingQueue) /\ UNCHANGED <<taskQueue, cur>>
    /\ UNCHANGED <<now, clients>>

\* f() has done its work.  For scheduleEvery f is Repeat, which computes the next
\* time before it takes the lock (past MaxTime it is not repeated).
Finish(th) ==
    /\ pc[th] = "run"
    /\ LET k == cur[th].task
           t == now + Period[k]
       IN  IF Period[k] > 0 /\ t <= MaxTime
           THEN cur' = [cur EXCEPT ![th] = [at |-> t, task |-> k]] /\ pc' = [pc EXCEPT ![th] = "insert"]
           ELSE cur' = [cur EXCEPT ![th] = Idle] /\ pc' = [pc EXCEPT ![th] = "back"]
    /\ UNCHANGED <<now, taskQueue, ref, until, nThreadsServicingQueue, clients>>

Reinsert(th) ==
    /\ pc[th] = "insert"
    /\ taskQueue' = Inserted(cur[th].at, cur[th].task)
    /\ cur' = [cur EXCEPT ![th] = Idle]
    /\ pc' = [pc EXCEPT ![th] = "notify"]
    /\ UNCHANGED <<now, ref, until, nThreadsServicingQueue, clients>>

NotifyOther(th) ==
    /\ pc[th] = "notify"
    /\ NotifyOne(th, "back")
    /\ UNCHANGED <<now, taskQueue, ref, until, cur, nThreadsServicingQueue, clients>>

\* ~reverse_lock
Relock(th) ==
    /\ pc[th] = "back"
    /\ Settle(th, nThreadsServicingQueue)
    /\ UNCHANGED <<now, taskQueue, cur, clients>>

\* thread_interrupted, out of a wait or out of f()
Throw(th) ==
    /\ interrupted /\ pc[th] \in {"wait", "timed", "woken", "run"}
    /\ pc' = [pc EXCEPT ![th] = "done"]
    /\ nThreadsServicingQueue' = Uncounted
    /\ ref' = [ref EXCEPT ![th] = NoTask] /\ cur' = [cur EXCEPT ![th] = Idle]
    /\ UNCHANGED <<now, taskQueue, until, clients>>

-----------------------------------------------------------------------------
(* Other threads *)

\* schedule, scheduleFromNow and scheduleEvery, before the scheduler is stopped
Schedule(k, t) ==
    /\ k \notin scheduled /\ stopper = "up"
    /\ Period[k] = 0 \/ t = now + Period[k]
    /\ taskQueue' = Inserted(t, k)
    /\ scheduled' = scheduled \cup {k} /\ untold' = untold + 1
    /\ UNCHANGED <<now, service, stopper, interrupted, stopRequested, stopWhenEmpty>>

Notify ==
    /\ untold > 0
    /\ untold' = untold - 1
    /\ NotifyOne(NoTask, NoTask)
    /\ UNCHANGED <<now, taskQueue, ref, until, cur, nThreadsServicingQueue, scheduled,
                   stopper, interrupted, stopRequested, stopWhenEmpty>>

Stop(drain) ==
    /\ stopper = "up"
    /\ stopper' = "stop"
    /\ stopWhenEmpty' = (stopWhenEmpty \/ drain) /\ stopRequested' = (stopRequested \/ ~drain)
    /\ UNCHANGED <<now, taskQueue, service, scheduled, untold, interrupted>>


\* newTaskScheduled.notify_all()
ToldToStop == [v \in Threads |-> IF pc[v] \in {"wait", "timed"} THEN "woken" ELSE pc[v]]

NotifyStop ==
    /\ stopper = "stop"
    /\ stopper' = "told"
    /\ pc' = ToldToStop
    /\ UNCHANGED <<now, taskQueue, ref, until, cur, nThreadsServicingQueue, scheduled, untold,
                   interrupted, stopRequested, stopWhenEmpty>>

\* threadGroup.interrupt_all() at shutdown
InterruptAll ==
    /\ stopper = "up" /\ stopper' = "told"
    /\ interrupted' = TRUE
    /\ UNCHANGED <<now, taskQueue, service, scheduled, untold, stopRequested, stopWhenEmpty>>

SpuriousWakeup(th) ==
    /\ pc[th] \in {"wait", "timed"}
    /\ pc' = [pc EXCEPT ![th] = "woken"]
    /\ UNCHANGED <<now, taskQueue, ref, until, cur, nThreadsServicingQueue, clients>>

Tick ==
    /\ now < MaxTime
    /\ now' = now + 1
    /\ UNCHANGED <<taskQueue, service, clients>>

-----------------------------------------------------------------------------
Init ==
    /\ now = 0 /\ taskQueue = <<>>
    /\ nThreadsServicingQueue = 0 /\ stopRequested = FALSE /\ stopWhenEmpty = FALSE
    /\ pc \in [Threads -> {"none", "new"}]
    /\ ref = [th \in Threads |-> NoTask] /\ until = [th \in Threads |-> 0]
    /\ cur = [th \in Threads |-> Idle]
    /\ scheduled = {} /\ untold = 0 /\ stopper = "up" /\ interrupted = FALSE

ServiceQueue(th) ==
    Enter(th) \/ Resume(th) \/ Finish(th) \/ Reinsert(th) \/ NotifyOther(th) \/ Relock(th)

Next ==
    \/ \E th \in Threads : ServiceQueue(th) \/ Throw(th) \/ SpuriousWakeup(th)
    \/ \E k \in Tasks, t \in Times : Schedule(k, t)
    \/ \E drain \in BOOLEAN : Stop(drain)
    \/ Notify \/ NotifyStop \/ InterruptAll \/ Tick

Spec == Init /\ [][Next]_vars

\* Time passes, tasks return, threads that can run do run, and who has changed
\* the queue or the flags goes on to notify.
Fairness ==
    /\ \A th \in Threads : WF_vars(ServiceQueue(th)) /\ SF_vars(Throw(th))
    /\ WF_vars(Notify) /\ WF_vars(NotifyStop) /\ WF_vars(Tick)

FairSpec == Spec /\ Fairness

-----------------------------------------------------------------------------
(* Properties *)

Serving == {th \in Threads : pc[th] \notin {"none", "new", "done"}}

\* Types; the count of service threads is never negative nor too large.
TypeOK ==
    /\ now \in Times /\ taskQueue \in Seq(Entry)
    /\ nThreadsServicingQueue \in 0..Cardinality(Threads)
    /\ stopRequested \in BOOLEAN /\ stopWhenEmpty \in BOOLEAN /\ interrupted \in BOOLEAN
    /\ pc \in [Threads -> ServicePC]
    /\ ref \in [Threads -> Tasks \cup {NoTask, Freed}] /\ until \in [Threads -> Times]
    /\ cur \in [Threads -> Entry \cup {Idle}]
    /\ scheduled \subseteq Tasks /\ untold \in Nat /\ stopper \in {"up", "stop", "told"}

\* "assert(nThreadsServicingQueue == 0)" in ~CScheduler holds once the threads
\* are joined, whether they ended by a stop or by an interruption.
CountIsExact == nThreadsServicingQueue = Cardinality(Serving)

\* "Call func at/after time t": with the one service thread that AppInit2
\* creates, no task is started before its time.
NotBeforeItsTime ==
    Cardinality({th \in Threads : pc[th] # "none"}) <= 1
        => \A th \in Threads : pc[th] = "run" => cur[th].at <= now

\* "every time f is finished, it is rescheduled": a task is in the queue, or in
\* one thread, never twice, and a repeated task never overlaps itself.
OneInstance ==
    \A k \in Tasks :
        Cardinality({i \in DOMAIN taskQueue : taskQueue[i].task = k})
            + Cardinality({th \in Threads : cur[th].task = k}) <= 1

\* Threads and tasks are accounted for, through stops, drains and exceptions.
AccountsExact == TypeOK /\ CountIsExact /\ OneInstance

\* stop(true) stops "when there is no work left to be done": the last thread
\* leaves no task behind.
DrainLeavesNothing ==
    /\ stopWhenEmpty /\ ~stopRequested /\ ~interrupted
    /\ \A th \in Threads : pc[th] \in {"none", "done"}
    /\ \E th \in Threads : pc[th] = "done"
    => taskQueue = <<>>

\* A task in the queue is taken out and run, unless the scheduler is stopped.
QueuedTaskIsTaken ==
    \A k \in Tasks :
        InQueue(k) /\ (\E th \in Threads : pc[th] # "none")
            ~> ~InQueue(k) \/ stopRequested \/ interrupted

=============================================================================
