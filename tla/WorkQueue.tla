----------------------------- MODULE WorkQueue -----------------------------
(***************************************************************************)
(* The HTTP server's work queue (httpserver.cpp): the event thread queues    *)
(* requests, worker threads run them, and at shutdown the main thread        *)
(* interrupts the queue, waits for the workers and deletes it.               *)
(*                                                                           *)
(* One action per critical section of WorkQueue::cs, and per step outside    *)
(* it.  libevent is reduced to when it calls back.  Nothing keeps a slow     *)
(* worker or callback off the deleted queue: once one has used it, what the  *)
(* program does is undefined, and the model takes no further step.           *)
(***************************************************************************)
EXTENDS Integers, FiniteSets, Sequences

CONSTANTS
    Workers,      \* -rpcthreads
    Requests,     \* the HTTP requests clients may send
    MaxDepth,     \* -rpcworkqueue
    NoRequest

ASSUME WorkersAssumption  == IsFiniteSet(Workers)
ASSUME MaxDepthAssumption == MaxDepth \in Nat \ {0}
ASSUME NoRequestAssumption == NoRequest \notin Requests

VARIABLES
    queue, running, numThreads,   \* the WorkQueue
    freed,                        \* delete workQueue
    pc, item,                     \* of each worker: position in Run, and i
    event, eventItem,             \* the event thread in http_request_cb
    rejecting,                    \* evhttp calls http_reject_request_cb
    main,                         \* main thread
    received, sent,               \* requests received; replies per request
    undefined                     \* the deleted queue has been used

queueVars  == <<queue, running, numThreads, freed>>
workerVars == <<pc, item>>
eventVars  == <<event, eventItem, rejecting>>
vars       == <<queueVars, workerVars, eventVars, main, received, sent, undefined>>

\* new: created but not yet in Run; loop: reads "running" without the lock;
\* take: wants the lock; wait, woken: in cond.wait and notified;
\* run, delete: (*i)() and delete i; leave: ~ThreadCounter
WorkerPC == {"new", "loop", "take", "wait", "woken", "run", "delete", "leave", "done"}
EventPC  == {"idle", "callback", "gone"}
MainPC   == {"up", "interrupt", "exit", "wait", "woken", "delete", "join", "done"}

-----------------------------------------------------------------------------
(* cond *)

\* Mutant of NotifyOne: nobody is woken.
NotifyNobody == UNCHANGED <<pc, main>>

\* cond.notify_one()
NotifyOne ==
    \/ \E w \in Workers : pc[w] = "wait" /\ pc' = [pc EXCEPT ![w] = "woken"] /\ UNCHANGED main
    \/ main = "wait" /\ main' = "woken" /\ UNCHANGED pc
    \/ main # "wait" /\ (\A w \in Workers : pc[w] # "wait") /\ UNCHANGED <<pc, main>>

\* The workers after notify_all, w being at q
AllWoken(w, q) == [v \in Workers |-> IF v = w THEN q ELSE IF pc[v] = "wait" THEN "woken" ELSE pc[v]]

SpuriousWakeup ==
    /\ \/ \E w \in Workers : pc[w] = "wait" /\ pc' = [pc EXCEPT ![w] = "woken"] /\ UNCHANGED main
       \/ main = "wait" /\ main' = "woken" /\ UNCHANGED pc
    /\ UNCHANGED <<queueVars, item, eventVars, received, sent, undefined>>

-----------------------------------------------------------------------------
(* Run *)

Goto(w, q) == pc' = [pc EXCEPT ![w] = q]

\* ThreadCounter()
Counted == numThreads + 1

Enter(w) ==
    /\ pc[w] = "new"
    /\ numThreads' = Counted
    /\ Goto(w, "loop")
    /\ UNCHANGED <<queue, running, freed, item, eventVars, main, received, sent, undefined>>

ReadRunning(w) ==
    /\ pc[w] = "loop"
    /\ Goto(w, IF running THEN "take" ELSE "leave")
    /\ UNCHANGED <<queueVars, item, eventVars, main, received, sent, undefined>>

\* queue.pop_front()
Popped == Tail(queue)

Take(w) ==
    /\ pc[w] \in {"take", "woken"}
    /\ \/ running /\ queue = <<>> /\ Goto(w, "wait") /\ UNCHANGED <<queue, item>>
       \/ ~running /\ Goto(w, "leave") /\ UNCHANGED <<queue, item>>
       \/ /\ running /\ queue # <<>>
          /\ item' = [item EXCEPT ![w] = Head(queue)]
          /\ queue' = Popped
          /\ Goto(w, "run")
    /\ UNCHANGED <<running, numThreads, freed, eventVars, main, received, sent, undefined>>

\* The handler may or may not have called WriteReply when it returns.
RunItem(w) ==
    /\ pc[w] = "run"
    /\ \E replies \in {0, 1} : sent' = [sent EXCEPT ![item[w]] = @ + replies]
    /\ Goto(w, "delete")
    /\ UNCHANGED <<queueVars, item, eventVars, main, received, undefined>>

\* ~HTTPRequest replies unless replySent
WithReply(r) == [sent EXCEPT ![r] = IF @ = 0 THEN 1 ELSE @]

DeleteItem(w) ==
    /\ pc[w] = "delete"
    /\ sent' = WithReply(item[w])
    /\ item' = [item EXCEPT ![w] = NoRequest]
    /\ Goto(w, "loop")
    /\ UNCHANGED <<queueVars, eventVars, main, received, undefined>>

\* Mutant of WakeMain: the notification of ~ThreadCounter is missing.
WakeMainNot == main

\* The main thread after notify_all
WakeMain == IF main = "wait" THEN "woken" ELSE main

Leave(w) ==
    /\ pc[w] = "leave"
    /\ numThreads' = numThreads - 1
    /\ pc' = AllWoken(w, "done")
    /\ main' = WakeMain
    /\ UNCHANGED <<queue, running, freed, item, eventVars, received, sent, undefined>>

\* A worker that was in none of the above when WaitExit counted goes on to use the
\* queue's lock or running after the queue is gone.
UseDeleted(w) ==
    /\ freed /\ pc[w] \notin {"run", "delete", "done"}
    /\ undefined' = TRUE
    /\ UNCHANGED <<queueVars, workerVars, eventVars, main, received, sent>>

-----------------------------------------------------------------------------
(* The event thread *)

\* http_reject_request_cb, or http_request_cb up to Enqueue: without a handler
\* for the path, or from a forbidden peer, the request is answered at once.
Receive(r) ==
    /\ event = "idle" /\ r \notin received
    /\ received' = received \cup {r}
    /\ \/ sent' = [sent EXCEPT ![r] = 1] /\ UNCHANGED <<event, eventItem>>
       \/ ~rejecting /\ event' = "callback" /\ eventItem' = r /\ UNCHANGED sent
    /\ UNCHANGED <<queueVars, workerVars, rejecting, main, undefined>>

\* queue.size() >= maxDepth
Full == Len(queue) >= MaxDepth

Enqueue ==
    /\ event = "callback" /\ ~freed
    /\ \/ /\ Full
          /\ sent' = [sent EXCEPT ![eventItem] = @ + 1]
          /\ UNCHANGED <<queue, pc, main>>
       \/ /\ ~Full
          /\ queue' = Append(queue, eventItem)
          /\ NotifyOne
          /\ UNCHANGED sent
    /\ event' = "idle" /\ eventItem' = NoRequest
    /\ UNCHANGED <<running, numThreads, freed, item, rejecting, received, undefined>>

\* A callback that was under way when the queue was deleted uses it.
EnqueueDeleted ==
    /\ event = "callback" /\ freed
    /\ undefined' = TRUE
    /\ UNCHANGED <<queueVars, workerVars, eventVars, main, received, sent>>

-----------------------------------------------------------------------------
(* Shutdown *)

\* InterruptHTTPServer: new requests are rejected ...
InterruptHTTPServer ==
    /\ main = "up"
    /\ rejecting' = TRUE
    /\ main' = "interrupt"
    /\ UNCHANGED <<queueVars, workerVars, event, eventItem, received, sent, undefined>>

\* ... and workQueue->Interrupt()
Interrupt ==
    /\ main = "interrupt"
    /\ running' = FALSE
    /\ pc' = [w \in Workers |-> IF pc[w] = "wait" THEN "woken" ELSE pc[w]]
    /\ main' = "exit"
    /\ UNCHANGED <<queue, numThreads, freed, item, eventVars, received, sent, undefined>>

\* Mutant of StillCounted: any wake-up ends the wait.
StillCountedOnce == numThreads > 0 /\ main = "exit"

\* while (numThreads > 0)
StillCounted == numThreads > 0

\* StopHTTPServer: WaitExit
WaitExit ==
    /\ main \in {"exit", "woken"}
    /\ main' = IF StillCounted THEN "wait" ELSE "delete"
    /\ UNCHANGED <<queueVars, workerVars, eventVars, received, sent, undefined>>

\* delete workQueue: ~WorkQueue deletes what is left.  workQueue still points there.
DeleteQueue ==
    /\ main = "delete"
    /\ freed' = TRUE
    /\ queue' = <<>>
    /\ sent' = [r \in Requests |-> IF \E k \in DOMAIN queue : queue[k] = r THEN WithReply(r)[r] ELSE sent[r]]
    /\ main' = "join"
    /\ UNCHANGED <<running, numThreads, workerVars, eventVars, received, undefined>>

\* threadHTTP ends by itself, or after event_base_loopbreak
JoinEventThread ==
    /\ main = "join" /\ event = "idle"
    /\ event' = "gone"
    /\ main' = "done"
    /\ UNCHANGED <<queueVars, workerVars, eventItem, rejecting, received, sent, undefined>>

-----------------------------------------------------------------------------
Init ==
    /\ queue = <<>> /\ running = TRUE /\ numThreads = 0 /\ freed = FALSE
    /\ pc = [w \in Workers |-> "new"] /\ item = [w \in Workers |-> NoRequest]
    /\ event = "idle" /\ eventItem = NoRequest /\ rejecting = FALSE
    /\ main = "up"
    /\ received = {} /\ sent = [r \in Requests |-> 0]
    /\ undefined = FALSE

Run(w) ==
    /\ ~undefined
    /\ \/ ~freed /\ (Enter(w) \/ ReadRunning(w) \/ Take(w) \/ Leave(w))
       \/ UseDeleted(w)
       \/ RunItem(w) \/ DeleteItem(w)

Callback == ~undefined /\ (Enqueue \/ EnqueueDeleted)

Shutdown == ~undefined /\ (Interrupt \/ WaitExit \/ DeleteQueue \/ JoinEventThread)

Next ==
    \/ \E w \in Workers : Run(w)
    \/ Callback \/ Shutdown
    \/ /\ ~undefined
       /\ (\E r \in Requests : Receive(r)) \/ InterruptHTTPServer \/ SpuriousWakeup

Spec == Init /\ [][Next]_vars

\* Threads that can run do run, and handlers return.  Nothing is assumed of
\* clients, of when shutdown begins, or of spurious wake-ups.
Fairness == (\A w \in Workers : WF_vars(Run(w))) /\ WF_vars(Callback) /\ WF_vars(Shutdown)

FairSpec == Spec /\ Fairness

-----------------------------------------------------------------------------
(* Properties *)

Queued(r)  == {k \in DOMAIN queue : queue[k] = r}
Holding(r) == {w \in Workers : item[w] = r}

\* Types; the queue is never deeper than -rpcworkqueue.
TypeOK ==
    /\ queue \in Seq(Requests) /\ Len(queue) <= MaxDepth
    /\ running \in BOOLEAN /\ freed \in BOOLEAN /\ rejecting \in BOOLEAN
    /\ numThreads \in Nat
    /\ pc \in [Workers -> WorkerPC] /\ item \in [Workers -> Requests \cup {NoRequest}]
    /\ event \in EventPC /\ eventItem \in Requests \cup {NoRequest}
    /\ main \in MainPC
    /\ received \subseteq Requests /\ sent \in [Requests -> Nat]
    /\ undefined \in BOOLEAN

\* The pointer to a work item has one owner (callback, queue or worker) until it
\* is deleted, then its request has been answered; WriteReply's assertion that no
\* reply was sent before holds.
AnsweredOnce ==
    \A r \in Requests :
        LET owners == Cardinality(Queued(r)) + Cardinality(Holding(r)) + (IF eventItem = r THEN 1 ELSE 0)
        IN  /\ sent[r] <= 1
            /\ owners <= 1
            /\ r \in received /\ owners = 0 => sent[r] = 1
            /\ Queued(r) # {} \/ eventItem = r => sent[r] = 0

\* What WaitExit gives ~WorkQueue, whose precondition is that "worker threads have
\* all stopped": nobody waits in the queue or has a request of it in hand when it is
\* deleted.  A worker that entered Run after the count is not waited for.
WorkersWaitedFor == freed => \A w \in Workers : pc[w] \in {"new", "loop", "leave", "done"}

\* All of these at once: what an interruption at any moment must not break.
QueueSafe == TypeOK /\ AnsweredOnce /\ WorkersWaitedFor

\* Every request received is answered, also when the queue is interrupted with
\* requests in it, unless the queue is used after its deletion.
EveryRequestAnswered == \A r \in Requests : r \in received ~> sent[r] = 1 \/ undefined

\* WaitExit cannot miss the last worker's notification: shutdown ends.
ShutdownEnds == main = "interrupt" ~> main = "done" \/ undefined
=============================================================================
