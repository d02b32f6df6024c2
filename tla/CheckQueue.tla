----------------------------- MODULE CheckQueue -----------------------------
(***************************************************************************)
(* The script verification queue (checkqueue.h): CCheckQueue, the worker    *)
(* threads that run Loop(false), and CCheckQueueControl, through which the  *)
(* thread that holds cs_main (the "master") verifies one block after the    *)
(* other.  Every action is one critical section of CCheckQueue::mutex; the  *)
(* execution of a batch touches only the thread's own vChecks and fOk and   *)
(* is part of the critical section that follows it.                         *)
(*                                                                          *)
(* fQuit is never assigned after its initialisation to false, so it is left *)
(* out; worker threads leave only through boost's thread interruption,      *)
(* which Interrupt() requests at shutdown and which takes effect inside     *)
(* condition_variable::wait, the only interruption point of Loop.           *)
(***************************************************************************)
EXTENDS Integers, FiniteSets, FiniteSetsExt

CONSTANTS
    Workers,       \* the script check threads, each running Loop(false)
    Master,        \* the thread holding cs_main: Loop(true)
    Checks,        \* the verifications a block can consist of
    BadChecks,     \* those whose operator() returns false
    BatchSize,     \* nBatchSize
    MaxSessions    \* bound: blocks verified (CCheckQueueControl objects)

ASSUME WorkersAssumption == IsFiniteSet(Workers) /\ Master \notin Workers
ASSUME ChecksAssumption  == IsFiniteSet(Checks) /\ BadChecks \subseteq Checks
ASSUME BatchAssumption   == BatchSize \in Nat \ {0}
ASSUME SessionAssumption == MaxSessions \in Nat

VARIABLES
    queue,      \* the checks not yet taken (LIFO; "the order doesn't matter")
    nIdle,      \* threads inside cond.wait
    nTotal,     \* threads inside Loop
    fAllOk,     \* result of the checks completed so far
    nTodo,      \* checks not completed: queued or in somebody's batch
    pc,         \* where each thread is: see PC
    vChecks,    \* the batch each thread executes
    fOk,        \* the value of fAllOk each thread saw when it took its batch
    intr,       \* interruption requested (boost::thread::interrupt)
    added,      \* checks handed to Add since the control was constructed
    fRet,       \* what the last Wait returned
    sessions    \* CCheckQueueControl objects constructed so far

vars == <<queue, nIdle, nTotal, fAllOk, nTodo, pc, vChecks, fOk, intr, added,
          fRet, sessions>>

Threads == Workers \cup {Master}

\* out:  the master between two control objects
\* ready: before the first iteration of Loop (for the master: still adding)
\* wait, woken: blocked in cond.wait; notified but without the mutex yet
\* exec: running a batch, without the mutex
\* unwind: the master after thread_interrupted, in ~CCheckQueueControl
\* dead: the worker left Loop by thread_interrupted
PC == {"out", "ready", "wait", "woken", "exec", "unwind", "dead"}

Init ==
    /\ queue = {}
    /\ nIdle = 0
    /\ nTotal = 0
    /\ fAllOk = TRUE
    /\ nTodo = 0
    /\ pc = [t \in Threads |-> IF t = Master THEN "out" ELSE "ready"]
    /\ vChecks = [t \in Threads |-> {}]
    /\ fOk = [t \in Threads |-> TRUE]
    /\ intr = [t \in Threads |-> FALSE]
    /\ added = {}
    /\ fRet = TRUE
    /\ sessions = 0

IsIdle == nTotal = nIdle /\ nTodo = 0 /\ fAllOk

\* std::max(1U, std::min(nBatchSize, queue.size() / (nTotal + nIdle + 1)))
BatchLength(total, idle) ==
    LET share == Cardinality(queue) \div (total + idle + 1)
        capped == IF share < BatchSize THEN share ELSE BatchSize
    IN  IF capped < 1 THEN 1 ELSE capped

-----------------------------------------------------------------------------
(* The part of Loop's critical section after the clean-up of the previous   *)
(* batch, entered with counters total, idle, todo, verdict ok and program   *)
(* counters pcs: return (master only), wait, or take a batch.               *)

Return(t, total, ok, pcs) ==
    /\ nTotal' = total - 1
    /\ fRet' = ok
    /\ fAllOk' = TRUE
    /\ pc' = [pcs EXCEPT ![t] = "out"]
    /\ vChecks' = [vChecks EXCEPT ![t] = {}]
    /\ UNCHANGED <<queue, fOk>>

GoIdle(t, total, idle, ok, pcs) ==
    /\ nTotal' = total
    /\ nIdle' = idle + 1
    /\ fAllOk' = ok
    /\ pc' = [pcs EXCEPT ![t] = "wait"]
    /\ vChecks' = [vChecks EXCEPT ![t] = {}]
    /\ UNCHANGED <<queue, fOk, fRet>>

TakeBatch(t, total, idle, ok, pcs) ==
    /\ \E S \in kSubset(BatchLength(total, idle), queue) :
          /\ queue' = queue \ S
          /\ vChecks' = [vChecks EXCEPT ![t] = S]
    /\ nTotal' = total
    /\ nIdle' = idle
    /\ fAllOk' = ok
    /\ fOk' = [fOk EXCEPT ![t] = ok]
    /\ pc' = [pcs EXCEPT ![t] = "exec"]
    /\ UNCHANGED fRet

\* Mutant of CanReturn: the master leaves as soon as the queue is empty.
CanReturnEarly(t, todo) == t = Master

\* (fMaster || fQuit) && nTodo == 0
CanReturn(t, todo) == t = Master /\ todo = 0

LoopBody(t, total, idle, todo, ok, pcs) ==
    /\ nTodo' = todo
    /\ \/ /\ queue = {} /\ CanReturn(t, todo)
          /\ nIdle' = idle
          /\ Return(t, total, ok, pcs)
       \/ /\ queue = {} /\ ~CanReturn(t, todo)
          /\ GoIdle(t, total, idle, ok, pcs)
       \/ /\ queue # {}
          /\ TakeBatch(t, total, idle, ok, pcs)
    /\ UNCHANGED <<added, sessions>>

-----------------------------------------------------------------------------

\* Loop's first iteration.  The master gets here by Wait() or, when
\* ConnectBlock returns early, by ~CCheckQueueControl.
Enter(t) ==
    /\ pc[t] \in {"ready", "unwind"}
    /\ LoopBody(t, nTotal + 1, nIdle, nTodo, fAllOk, pc)
    /\ UNCHANGED intr

\* Return from cond.wait with the mutex held.
Wake(t) ==
    /\ pc[t] = "woken"
    /\ ~intr[t]
    /\ LoopBody(t, nTotal, nIdle - 1, nTodo, fAllOk, pc)
    /\ UNCHANGED intr

\* Mutant of Verdict: fAllOk = fOk instead of fAllOk &= fOk.
VerdictOverwrites(t) == fOk[t] /\ vChecks[t] \cap BadChecks = {}

\* fAllOk &= fOk, where fOk starts as the fAllOk seen when the batch was taken
\* and check() is called only while it is true.
Verdict(t) == fAllOk /\ fOk[t] /\ vChecks[t] \cap BadChecks = {}

\* nTodo -= nNow
Remaining(t) == nTodo - Cardinality(vChecks[t])

\* Mutant of NotifyMaster: the last worker does not notify.
NotifyNobody(t, todo) == pc

\* if (nTodo == 0 && !fMaster) condMaster.notify_one()
NotifyMaster(t, todo) ==
    IF todo = 0 /\ t # Master /\ pc[Master] = "wait"
    THEN [pc EXCEPT ![Master] = "woken"]
    ELSE pc

\* Execute the batch (stopping at the first failure, or at once when the
\* block had already failed), then the next critical section.
Finish(t) ==
    /\ pc[t] = "exec"
    /\ LoopBody(t, nTotal, nIdle, Remaining(t), Verdict(t),
                NotifyMaster(t, Remaining(t)))
    /\ UNCHANGED intr

\* The CCheckQueueControl constructor, which asserts IsIdle().
Construct ==
    /\ pc[Master] = "out"
    /\ sessions < MaxSessions
    /\ sessions' = sessions + 1
    /\ added' = {}
    /\ pc' = [pc EXCEPT ![Master] = "ready"]
    /\ UNCHANGED <<queue, nIdle, nTotal, fAllOk, nTodo, vChecks, fOk, intr, fRet>>

\* Add(vChecks): notify_one for a single check, notify_all for more.
Add(V) ==
    /\ pc[Master] = "ready"
    /\ queue' = queue \cup V
    /\ added' = added \cup V
    /\ nTodo' = nTodo + Cardinality(V)
    /\ LET waiting == {w \in Workers : pc[w] = "wait"}
       IN  \E N \in SUBSET waiting :
             /\ Cardinality(N) = IF Cardinality(V) = 1 /\ waiting # {}
                                 THEN 1 ELSE Cardinality(waiting)
             /\ pc' = [t \in Threads |-> IF t \in N THEN "woken" ELSE pc[t]]
    /\ UNCHANGED <<nIdle, nTotal, fAllOk, vChecks, fOk, intr, fRet, sessions>>

\* Condition variables may wake up for no reason.
SpuriousWakeup(t) ==
    /\ pc[t] = "wait"
    /\ pc' = [pc EXCEPT ![t] = "woken"]
    /\ UNCHANGED <<queue, nIdle, nTotal, fAllOk, nTodo, vChecks, fOk, intr,
                   added, fRet, sessions>>

\* threadGroup.interrupt_all() at shutdown.  The master is interruptible when
\* it is the message handler thread, and not when it serves an RPC.
InterruptAll ==
    /\ \A t \in Threads : ~intr[t]
    /\ \A w \in Workers : pc[w] # "dead"
    /\ \E m \in BOOLEAN : intr' = [t \in Threads |-> t # Master \/ m]
    /\ UNCHANGED <<queue, nIdle, nTotal, fAllOk, nTodo, pc, vChecks, fOk,
                   added, fRet, sessions>>

\* thread_interrupted leaves cond.wait without the nIdle-- and without the
\* nTotal-- of a regular exit.  A worker is gone; the master unwinds into
\* ~CCheckQueueControl, which enters Loop a second time (the request is
\* cleared by the throw).
Interrupted(t) ==
    /\ intr[t]
    /\ pc[t] \in {"wait", "woken"}
    /\ intr' = [intr EXCEPT ![t] = FALSE]
    /\ pc' = [pc EXCEPT ![t] = IF t = Master THEN "unwind" ELSE "dead"]
    /\ UNCHANGED <<queue, nIdle, nTotal, fAllOk, nTodo, vChecks, fOk, added,
                   fRet, sessions>>

ThreadStep(t) == Enter(t) \/ Wake(t) \/ Finish(t) \/ Interrupted(t)

Next ==
    \/ Construct
    \/ \E V \in SUBSET (Checks \ added) : V # {} /\ Add(V)
    \/ \E t \in Threads : Enter(t)
    \/ \E t \in Threads : Wake(t)
    \/ \E t \in Threads : Finish(t)
    \/ \E t \in Threads : Interrupted(t)
    \/ \E t \in Threads : SpuriousWakeup(t)
    \/ InterruptAll

Spec == Init /\ [][Next]_vars

\* Every thread that can run eventually runs (the OS scheduler); nothing is
\* assumed of spurious wakeups, of new blocks or of shutdown.
FairSpec == Spec /\ \A t \in Threads : WF_vars(ThreadStep(t))

-----------------------------------------------------------------------------
(* Properties *)

Pending == queue \cup UNION {vChecks[t] : t \in Threads}

\* Types; in particular the counters never drop below zero, which for the
\* unsigned nTodo would keep the master waiting for 2^32 checks.
TypeOK ==
    /\ queue \in SUBSET Checks
    /\ nIdle \in Nat /\ nTotal \in Nat /\ nTodo \in Nat
    /\ fAllOk \in BOOLEAN
    /\ pc \in [Threads -> PC]
    /\ vChecks \in [Threads -> SUBSET Checks]
    /\ fOk \in [Threads -> BOOLEAN]
    /\ intr \in [Threads -> BOOLEAN]
    /\ added \in SUBSET Checks
    /\ fRet \in BOOLEAN
    /\ sessions \in Nat

\* The assertion in CCheckQueueControl's constructor never fires: whenever the
\* master may start on the next block, no thread is inside a batch, nothing is
\* left to do and no verdict of an earlier block is left in fAllOk, also after
\* early returns and after interrupted waits, which leak nIdle and nTotal.
ControlFindsIdle == pc[Master] = "out" => IsIdle

\* Wait returns true exactly when every check added for this block succeeds:
\* no batch is forgotten, run twice or credited to the neighbouring block, and
\* skipping the rest of a failed block does not change the verdict.
VerdictCorrect ==
    pc[Master] = "out" => (fRet <=> added \cap BadChecks = {})

\* nTodo counts the queued checks and those in the threads' own batches, and no
\* check is in two places: the test nTodo == 0 is the master's only evidence
\* that the other threads have finished.
TodoAccurate ==
    /\ nTodo = Cardinality(Pending)
    /\ \A t \in Threads : vChecks[t] \cap queue = {}
    /\ \A t, u \in Threads : t # u => vChecks[t] \cap vChecks[u] = {}

\* A master that joined the pool returns from Wait, whatever the interleaving
\* of notifications: no lost wake-up of condMaster leaves a block unverified.
WaitReturns == pc[Master] # "out" ~> pc[Master] = "out"
=============================================================================
