-------------------------- MODULE WorkQueueProofs --------------------------
(***************************************************************************)
(* The HTTP work queue for any number of workers and requests and any depth: *)
(* a work item has one owner at a time and its request gets one reply, and    *)
(* the queue is not deleted under a worker that waits in it or runs a request.*)
(***************************************************************************)
EXTENDS WorkQueue, FiniteSetTheorems, TLAPS

\* Workers in Run, whom a ThreadCounter counts
Inside(p) == {w \in Workers : p[w] \notin {"new", "done"}}

\* r is somebody's: in the queue, in a worker's hands or in the callback's
Owned(r) ==
    \/ \E k \in 1..Len(queue) : queue[k] = r
    \/ \E w \in Workers : item[w] = r
    \/ eventItem = r

\* No work item is in two places.
OneOwner ==
    /\ \A j, k \in 1..Len(queue) : queue[j] = queue[k] => j = k
    /\ \A k \in 1..Len(queue) : queue[k] # eventItem
    /\ \A k \in 1..Len(queue), w \in Workers : item[w] # queue[k]
    /\ \A w \in Workers : item[w] # NoRequest => item[w] # eventItem
    /\ \A v, w \in Workers : item[v] = item[w] /\ item[v] # NoRequest => v = w

\* Who has an item
Hands ==
    /\ \A w \in Workers : item[w] # NoRequest <=> pc[w] \in {"run", "delete"}
    /\ eventItem # NoRequest <=> event = "callback"

\* How many replies were sent
Replies ==
    /\ \A r \in Requests : r \notin received => sent[r] = 0 /\ ~Owned(r)
    /\ \A r \in received : Owned(r) \/ sent[r] = 1
    /\ \A k \in 1..Len(queue) : sent[queue[k]] = 0
    /\ event = "callback" => sent[eventItem] = 0
    /\ \A w \in Workers : pc[w] = "run" => sent[item[w]] = 0
    /\ \A w \in Workers : pc[w] = "delete" => sent[item[w]] \in {0, 1}

\* The shutdown: who is counted, and what is known at each stage of it
Stages ==
    /\ numThreads = Cardinality(Inside(pc))
    /\ main # "up" => rejecting
    /\ freed => main \in {"join", "done"}
    /\ main \notin {"up", "interrupt"} => ~running
    /\ main \in {"delete", "join", "done"} =>
         \A w \in Workers : pc[w] \in {"new", "loop", "leave", "done"}

IInv == TypeOK /\ OneOwner /\ Hands /\ Replies /\ Stages

-----------------------------------------------------------------------------
(* Counting the workers *)

LEMMA InsideFinite ==
    ASSUME NEW p
    PROVE  IsFiniteSet(Inside(p))
  BY WorkersAssumption, FS_Subset DEF Inside

LEMMA CountUp ==
    ASSUME NEW p, NEW q, NEW w \in Workers,
           w \notin Inside(p), Inside(q) = Inside(p) \cup {w}
    PROVE  Cardinality(Inside(q)) = Cardinality(Inside(p)) + 1
  BY InsideFinite, FS_AddElement

LEMMA CountDown ==
    ASSUME NEW p, NEW q, NEW w \in Workers,
           w \in Inside(p), Inside(q) = Inside(p) \ {w}
    PROVE  Cardinality(Inside(q)) = Cardinality(Inside(p)) - 1
  BY InsideFinite, FS_RemoveElement

LEMMA CountZero ==
    ASSUME NEW p
    PROVE  /\ Cardinality(Inside(p)) \in Nat
           /\ Cardinality(Inside(p)) = 0 <=> Inside(p) = {}
  BY InsideFinite, FS_CardinalityType, FS_EmptySet

-----------------------------------------------------------------------------
(* Steps of a worker *)

LEMMA EnterKeeps ==
    ASSUME IInv, NEW w \in Workers, Enter(w)
    PROVE  IInv'
<1> USE DEF Enter, Goto, Counted, eventVars
<1>1. TypeOK'
  BY DEF IInv, TypeOK, WorkerPC
<1>2. OneOwner'
  BY DEF IInv, OneOwner
<1>3. Hands'
  BY DEF IInv, Hands, TypeOK
<1>4. Replies'
  BY DEF IInv, Replies, Owned, TypeOK
<1>5. Stages'
  <2>1. w \notin Inside(pc) /\ Inside(pc') = Inside(pc) \cup {w}
    BY DEF IInv, TypeOK, Inside
  <2>2. numThreads' = Cardinality(Inside(pc'))
    BY <2>1, CountUp DEF IInv, Stages
  <2> QED
    BY <2>1, <2>2 DEF IInv, Stages, TypeOK
<1> QED BY <1>1, <1>2, <1>3, <1>4, <1>5 DEF IInv

LEMMA ReadRunningKeeps ==
    ASSUME IInv, NEW w \in Workers, ReadRunning(w)
    PROVE  IInv'
<1> USE DEF ReadRunning, Goto, eventVars, queueVars
<1>1. TypeOK'
  BY DEF IInv, TypeOK, WorkerPC
<1>2. OneOwner'
  BY DEF IInv, OneOwner
<1>3. Hands'
  BY DEF IInv, Hands, TypeOK
<1>4. Replies'
  BY DEF IInv, Replies, Owned, TypeOK
<1>5. Stages'
  <2>1. Inside(pc') = Inside(pc)
    BY DEF IInv, TypeOK, Inside
  <2> QED
    BY <2>1 DEF IInv, Stages, TypeOK
<1> QED BY <1>1, <1>2, <1>3, <1>4, <1>5 DEF IInv

LEMMA TakeKeeps ==
    ASSUME IInv, NEW w \in Workers, Take(w)
    PROVE  IInv'
<1> USE DEF Goto, eventVars
<1>0. /\ UNCHANGED <<running, numThreads, freed, eventVars, main, received, sent, undefined>>
      /\ pc[w] \in {"take", "woken"}
      /\ pc \in [Workers -> WorkerPC]
  BY DEF Take, IInv, TypeOK
<1>1. CASE UNCHANGED <<queue, item>> /\ (Goto(w, "wait") \/ Goto(w, "leave"))
  <2>1. TypeOK'
    BY <1>0, <1>1 DEF IInv, TypeOK, WorkerPC
  <2>2. OneOwner'
    BY <1>0, <1>1 DEF IInv, OneOwner
  <2>3. Hands'
    BY <1>0, <1>1 DEF IInv, Hands
  <2>4. Replies'
    BY <1>0, <1>1 DEF IInv, Replies, Owned
  <2>5. Stages'
    <3>1. Inside(pc') = Inside(pc)
      BY <1>0, <1>1 DEF Inside
    <3> QED
      BY <1>0, <1>1, <3>1 DEF IInv, Stages, TypeOK
  <2> QED BY <2>1, <2>2, <2>3, <2>4, <2>5 DEF IInv
<1>2. CASE /\ queue # <<>> /\ item' = [item EXCEPT ![w] = Head(queue)]
           /\ queue' = Popped /\ Goto(w, "run")
  <2>1. /\ queue \in Seq(Requests) /\ Len(queue) > 0
        /\ queue' \in Seq(Requests) /\ Len(queue') = Len(queue) - 1
        /\ \A k \in 1..Len(queue') : k + 1 \in 1..Len(queue) /\ queue'[k] = queue[k + 1]
        /\ \A k \in 1..Len(queue) : k # 1 => k - 1 \in 1..Len(queue')
        /\ 1 \in 1..Len(queue)
        /\ item \in [Workers -> Requests \cup {NoRequest}]
        /\ item' \in [Workers -> Requests \cup {NoRequest}]
        /\ item[w] = NoRequest /\ item'[w] = queue[1] /\ item'[w] \in Requests
        /\ \A v \in Workers : v # w => item'[v] = item[v]
    BY <1>0, <1>2 DEF IInv, TypeOK, Hands, Popped
  <2>2. TypeOK'
    BY <1>0, <1>2, <2>1, MaxDepthAssumption DEF IInv, TypeOK, WorkerPC
  <2>3. OneOwner'
    <3>1. \A j, k \in 1..Len(queue') : queue'[j] = queue'[k] => j = k
      BY <2>1 DEF IInv, OneOwner
    <3>2. \A k \in 1..Len(queue') : queue'[k] # eventItem'
      BY <1>0, <2>1 DEF IInv, OneOwner
    <3>3. \A k \in 1..Len(queue'), v \in Workers : item'[v] # queue'[k]
      BY <2>1 DEF IInv, OneOwner
    <3>4. \A v \in Workers : item'[v] # NoRequest => item'[v] # eventItem'
      BY <1>0, <2>1 DEF IInv, OneOwner
    <3>5. \A u, v \in Workers : item'[u] = item'[v] /\ item'[u] # NoRequest => u = v
      BY <2>1 DEF IInv, OneOwner
    <3> QED BY <3>1, <3>2, <3>3, <3>4, <3>5 DEF OneOwner
  <2>4. Hands'
    BY <1>0, <1>2, <2>1, NoRequestAssumption DEF IInv, Hands
  <2>5. ASSUME NEW r \in Requests
        PROVE  Owned(r) <=> Owned(r)'
    <3>1. ASSUME NEW k \in 1..Len(queue), queue[k] = r
          PROVE  Owned(r)'
      <4>1. CASE k = 1
        BY <2>1, <3>1, <4>1 DEF Owned
      <4>2. CASE k # 1
        <5>1. k - 1 \in 1..Len(queue') /\ queue'[k - 1] = r
          BY <2>1, <3>1, <4>2
        <5> QED BY <5>1 DEF Owned
      <4> QED BY <4>1, <4>2
    <3>2. ASSUME NEW k \in 1..Len(queue'), queue'[k] = r
          PROVE  Owned(r)
      BY <2>1, <3>2 DEF Owned
    <3>3. ASSUME NEW v \in Workers, item[v] = r
          PROVE  Owned(r)'
      BY <2>1, <3>3, NoRequestAssumption DEF Owned
    <3>4. ASSUME NEW v \in Workers, item'[v] = r
          PROVE  Owned(r)
      BY <2>1, <3>4 DEF Owned
    <3> QED BY <1>0, <3>1, <3>2, <3>3, <3>4 DEF Owned
  <2>6. Replies'
    <3>1. received \subseteq Requests
      BY DEF IInv, TypeOK
    <3>2. /\ \A r \in Requests : r \notin received' => sent'[r] = 0 /\ ~Owned(r)'
          /\ \A r \in received' : Owned(r)' \/ sent'[r] = 1
      BY <1>0, <2>5, <3>1 DEF IInv, Replies
    <3>3. \A k \in 1..Len(queue') : sent'[queue'[k]] = 0
      BY <1>0, <2>1 DEF IInv, Replies
    <3>4. \A v \in Workers : /\ pc'[v] = "run" => sent'[item'[v]] = 0
                             /\ pc'[v] = "delete" => sent'[item'[v]] \in {0, 1}
      BY <1>0, <1>2, <2>1 DEF IInv, Replies
    <3> QED BY <1>0, <3>2, <3>3, <3>4 DEF IInv, Replies
  <2>7. Stages'
    <3>1. Inside(pc') = Inside(pc)
      BY <1>0, <1>2 DEF Inside
    <3> QED
      BY <1>0, <1>2, <3>1 DEF IInv, Stages, TypeOK
  <2> QED BY <2>2, <2>3, <2>4, <2>6, <2>7 DEF IInv
<1> QED BY <1>1, <1>2 DEF Take

LEMMA RunItemKeeps ==
    ASSUME IInv, NEW w \in Workers, RunItem(w)
    PROVE  IInv'
<1> USE DEF Goto, eventVars, queueVars
<1>0. /\ UNCHANGED <<queueVars, item, eventVars, main, received, undefined>>
      /\ pc[w] = "run" /\ pc' = [pc EXCEPT ![w] = "delete"]
      /\ pc \in [Workers -> WorkerPC]
      /\ item[w] \in Requests /\ sent[item[w]] = 0
      /\ sent \in [Requests -> Nat]
  BY DEF RunItem, IInv, TypeOK, Hands, Replies
<1>a. PICK replies \in {0, 1} : sent' = [sent EXCEPT ![item[w]] = @ + replies]
  BY DEF RunItem
<1>1. sent' = [sent EXCEPT ![item[w]] = replies]
  <2>1. sent[item[w]] + replies = replies
    BY <1>0
  <2> QED BY <1>a, <2>1
<1>2. TypeOK'
  BY <1>0, <1>1 DEF IInv, TypeOK, WorkerPC
<1>3. OneOwner'
  BY <1>0 DEF IInv, OneOwner
<1>4. Hands'
  BY <1>0 DEF IInv, Hands
<1>5. Replies'
  <2>1. \A r \in Requests : Owned(r)' <=> Owned(r)
    BY <1>0 DEF Owned
  <2>2. Owned(item[w])
    BY DEF Owned
  <2>3. received \subseteq Requests /\ queue \in Seq(Requests)
        /\ eventItem \in Requests \cup {NoRequest}
    BY DEF IInv, TypeOK
  <2>4. \A r \in Requests : r \notin received' => sent'[r] = 0 /\ ~Owned(r)'
    BY <1>0, <1>1, <2>1, <2>2 DEF IInv, Replies
  <2>5. \A r \in received' : Owned(r)' \/ sent'[r] = 1
    BY <1>0, <1>1, <2>1, <2>2, <2>3 DEF IInv, Replies
  <2>6. \A k \in 1..Len(queue') : sent'[queue'[k]] = 0
    <3>1. \A k \in 1..Len(queue) : queue[k] # item[w] /\ queue[k] \in Requests
      BY <2>3 DEF IInv, OneOwner
    <3>2. \A k \in 1..Len(queue) : sent[queue[k]] = 0
      BY DEF IInv, Replies
    <3>3. \A r \in Requests : r # item[w] => sent'[r] = sent[r]
      BY <1>0, <1>1
    <3> QED BY <1>0, <3>1, <3>2, <3>3
  <2>7. event' = "callback" => sent'[eventItem'] = 0
    BY <1>0, <1>1, <2>3, NoRequestAssumption DEF IInv, Replies, OneOwner, Hands
  <2>8. \A v \in Workers : /\ pc'[v] = "run" => sent'[item'[v]] = 0
                           /\ pc'[v] = "delete" => sent'[item'[v]] \in {0, 1}
    <3> SUFFICES ASSUME NEW v \in Workers
                 PROVE  /\ pc'[v] = "run" => sent'[item'[v]] = 0
                        /\ pc'[v] = "delete" => sent'[item'[v]] \in {0, 1}
      OBVIOUS
    <3>1. CASE v = w
      BY <1>0, <1>1, <3>1
    <3>2. CASE v # w
      <4>1. pc'[v] = pc[v] /\ item'[v] = item[v]
        BY <1>0, <3>2
      <4>2. pc[v] \in {"run", "delete"} => item[v] \in Requests /\ item[v] # item[w]
        BY <1>0, <3>2, NoRequestAssumption DEF IInv, TypeOK, Hands, OneOwner
      <4> QED BY <1>0, <1>1, <4>1, <4>2 DEF IInv, Replies
    <3> QED BY <3>1, <3>2
  <2> QED BY <2>4, <2>5, <2>6, <2>7, <2>8 DEF Replies
<1>6. Stages'
  <2>1. Inside(pc') = Inside(pc)
    BY <1>0 DEF Inside
  <2> QED
    BY <1>0, <2>1 DEF IInv, Stages, TypeOK
<1> QED BY <1>2, <1>3, <1>4, <1>5, <1>6 DEF IInv

LEMMA DeleteItemKeeps ==
    ASSUME IInv, NEW w \in Workers, DeleteItem(w)
    PROVE  IInv'
<1> USE DEF Goto, eventVars, queueVars
<1>0. /\ UNCHANGED <<queueVars, eventVars, main, received, undefined>>
      /\ pc[w] = "delete" /\ pc' = [pc EXCEPT ![w] = "loop"]
      /\ pc \in [Workers -> WorkerPC]
      /\ item' = [item EXCEPT ![w] = NoRequest]
      /\ item \in [Workers -> Requests \cup {NoRequest}]
      /\ item[w] \in Requests /\ sent[item[w]] \in {0, 1}
      /\ sent \in [Requests -> Nat]
  BY DEF DeleteItem, IInv, TypeOK, Hands, Replies
<1>1. sent' = [sent EXCEPT ![item[w]] = 1]
  BY <1>0 DEF DeleteItem, WithReply
<1>2. TypeOK'
  BY <1>0, <1>1 DEF IInv, TypeOK, WorkerPC
<1>3. OneOwner'
  <2>1. /\ \A j, k \in 1..Len(queue') : queue'[j] = queue'[k] => j = k
        /\ \A k \in 1..Len(queue') : queue'[k] # eventItem'
    BY <1>0 DEF IInv, OneOwner
  <2>2. \A k \in 1..Len(queue'), v \in Workers : item'[v] # queue'[k]
    BY <1>0, NoRequestAssumption DEF IInv, OneOwner, TypeOK
  <2>3. \A v \in Workers : item'[v] # NoRequest => item'[v] # eventItem'
    BY <1>0 DEF IInv, OneOwner
  <2>4. \A u, v \in Workers : item'[u] = item'[v] /\ item'[u] # NoRequest => u = v
    BY <1>0 DEF IInv, OneOwner
  <2> QED BY <2>1, <2>2, <2>3, <2>4 DEF OneOwner
<1>4. Hands'
  BY <1>0 DEF IInv, Hands
<1>5. Replies'
  <2>1. \A r \in Requests : r # item[w] => (Owned(r)' <=> Owned(r))
    BY <1>0, NoRequestAssumption DEF Owned
  <2>2. Owned(item[w])
    BY DEF Owned
  <2>3. received \subseteq Requests /\ queue \in Seq(Requests)
        /\ eventItem \in Requests \cup {NoRequest}
    BY DEF IInv, TypeOK
  <2>4. \A r \in Requests : r \notin received' => sent'[r] = 0 /\ ~Owned(r)'
    BY <1>0, <1>1, <2>1, <2>2 DEF IInv, Replies
  <2>5. \A r \in received' : Owned(r)' \/ sent'[r] = 1
    BY <1>0, <1>1, <2>1, <2>2, <2>3 DEF IInv, Replies
  <2>6. \A k \in 1..Len(queue') : sent'[queue'[k]] = 0
    <3>1. \A k \in 1..Len(queue) : queue[k] # item[w] /\ queue[k] \in Requests
      BY <2>3 DEF IInv, OneOwner
    <3>2. \A k \in 1..Len(queue) : sent[queue[k]] = 0
      BY DEF IInv, Replies
    <3>3. \A r \in Requests : r # item[w] => sent'[r] = sent[r]
      BY <1>0, <1>1
    <3> QED BY <1>0, <3>1, <3>2, <3>3
  <2>7. event' = "callback" => sent'[eventItem'] = 0
    BY <1>0, <1>1, <2>3, NoRequestAssumption DEF IInv, Replies, OneOwner, Hands
  <2>8. \A v \in Workers : /\ pc'[v] = "run" => sent'[item'[v]] = 0
                           /\ pc'[v] = "delete" => sent'[item'[v]] \in {0, 1}
    <3> SUFFICES ASSUME NEW v \in Workers
                 PROVE  /\ pc'[v] = "run" => sent'[item'[v]] = 0
                        /\ pc'[v] = "delete" => sent'[item'[v]] \in {0, 1}
      OBVIOUS
    <3>1. CASE v = w
      BY <1>0, <3>1
    <3>2. CASE v # w
      <4>1. pc'[v] = pc[v] /\ item'[v] = item[v]
        BY <1>0, <3>2
      <4>2. pc[v] \in {"run", "delete"} => item[v] \in Requests /\ item[v] # item[w]
        BY <1>0, <3>2, NoRequestAssumption DEF IInv, TypeOK, Hands, OneOwner
      <4> QED BY <1>0, <1>1, <4>1, <4>2 DEF IInv, Replies
    <3> QED BY <3>1, <3>2
  <2> QED BY <2>4, <2>5, <2>6, <2>7, <2>8 DEF Replies
<1>6. Stages'
  <2>1. Inside(pc') = Inside(pc)
    BY <1>0 DEF Inside
  <2> QED
    BY <1>0, <2>1 DEF IInv, Stages, TypeOK
<1> QED BY <1>2, <1>3, <1>4, <1>5, <1>6 DEF IInv

\* What the steps have in common that move no work item and send no reply: a
\* worker that moves has nothing in its hands before or after.
LEMMA NoItemMoves ==
    ASSUME IInv, UNCHANGED <<queue, item, eventItem, event, received, sent>>,
           \A v \in Workers : pc'[v] = pc[v] \/ {pc[v], pc'[v]} \cap {"run", "delete"} = {}
    PROVE  OneOwner' /\ Hands' /\ Replies'
<1>0. \A v \in Workers, q \in {"run", "delete"} : pc'[v] = q <=> pc[v] = q
  OBVIOUS
<1>1. OneOwner'
  BY DEF IInv, OneOwner
<1>2. Hands'
  BY <1>0 DEF IInv, Hands
<1>3. Replies'
  BY <1>0 DEF IInv, Replies, Owned
<1> QED BY <1>1, <1>2, <1>3

LEMMA LeaveKeeps ==
    ASSUME IInv, NEW w \in Workers, Leave(w)
    PROVE  IInv'
<1> USE DEF eventVars
<1>0. /\ UNCHANGED <<queue, running, freed, item, eventVars, received, sent, undefined>>
      /\ pc[w] = "leave" /\ pc \in [Workers -> WorkerPC]
      /\ pc' \in [Workers -> WorkerPC] /\ pc'[w] = "done"
      /\ \A v \in Workers : v # w => pc'[v] = IF pc[v] = "wait" THEN "woken" ELSE pc[v]
      /\ numThreads' = numThreads - 1
      /\ main' = IF main = "wait" THEN "woken" ELSE main
  BY DEF Leave, IInv, TypeOK, AllWoken, WorkerPC, WakeMain
<1>1. w \in Inside(pc) /\ Inside(pc') = Inside(pc) \ {w}
  BY <1>0 DEF Inside
<1>2. numThreads' = Cardinality(Inside(pc'))
  BY <1>0, <1>1, CountDown DEF IInv, Stages
<1>3. TypeOK'
  BY <1>0, <1>2, CountZero DEF IInv, TypeOK, MainPC
<1>4. OneOwner' /\ Hands' /\ Replies'
  BY <1>0, NoItemMoves
<1>5. Stages'
  BY <1>0, <1>1, <1>2 DEF IInv, Stages, TypeOK
<1> QED BY <1>3, <1>4, <1>5 DEF IInv

-----------------------------------------------------------------------------
(* The event thread *)

LEMMA ReceiveKeeps ==
    ASSUME IInv, NEW r \in Requests, Receive(r)
    PROVE  IInv'
<1> USE DEF eventVars, queueVars, workerVars
<1>0. /\ UNCHANGED <<queueVars, workerVars, rejecting, main, undefined>>
      /\ event = "idle" /\ r \notin received
      /\ received' = received \cup {r}
      /\ eventItem = NoRequest /\ r # NoRequest
      /\ sent \in [Requests -> Nat] /\ sent[r] = 0 /\ ~Owned(r)
      /\ item \in [Workers -> Requests \cup {NoRequest}]
      /\ queue \in Seq(Requests) /\ received \subseteq Requests
  BY NoRequestAssumption DEF Receive, IInv, TypeOK, Hands, Replies
<1>1. CASE sent' = [sent EXCEPT ![r] = 1] /\ UNCHANGED <<event, eventItem>>
  <2>1. TypeOK'
    BY <1>0, <1>1 DEF IInv, TypeOK
  <2>2. OneOwner' /\ Hands'
    BY <1>0, <1>1 DEF IInv, OneOwner, Hands
  <2>3. Replies'
    <3>1. \A s \in Requests : Owned(s)' <=> Owned(s)
      BY <1>0, <1>1 DEF Owned
    <3>2. \A s \in Requests : s # r => sent'[s] = sent[s]
      BY <1>0, <1>1
    <3>3. sent'[r] = 1
      BY <1>0, <1>1
    <3>4. \A s \in Requests : s \notin received' => sent'[s] = 0 /\ ~Owned(s)'
      BY <1>0, <3>1, <3>2 DEF IInv, Replies
    <3>5. \A s \in received' : Owned(s)' \/ sent'[s] = 1
      BY <1>0, <3>1, <3>2, <3>3 DEF IInv, Replies
    <3>6. \A k \in 1..Len(queue') : sent'[queue'[k]] = 0
      <4>1. \A k \in 1..Len(queue) : queue[k] \in Requests /\ queue[k] # r
        BY <1>0 DEF Owned
      <4> QED BY <1>0, <3>2, <4>1 DEF IInv, Replies
    <3>7. \A v \in Workers : /\ pc'[v] = "run" => sent'[item'[v]] = 0
                             /\ pc'[v] = "delete" => sent'[item'[v]] \in {0, 1}
      <4>1. \A v \in Workers : item[v] # r
        BY <1>0 DEF Owned
      <4>2. \A v \in Workers : pc[v] \in {"run", "delete"} => item[v] \in Requests
        BY <1>0 DEF IInv, Hands
      <4> QED BY <1>0, <3>2, <4>1, <4>2 DEF IInv, Replies
    <3> QED BY <1>0, <1>1, <3>4, <3>5, <3>6, <3>7 DEF Replies
  <2>4. Stages'
    BY <1>0, <1>1 DEF IInv, Stages
  <2> QED BY <2>1, <2>2, <2>3, <2>4 DEF IInv
<1>2. CASE ~rejecting /\ event' = "callback" /\ eventItem' = r /\ UNCHANGED sent
  <2>1. TypeOK'
    BY <1>0, <1>2 DEF IInv, TypeOK, EventPC
  <2>2. OneOwner'
    BY <1>0, <1>2 DEF IInv, OneOwner, Owned
  <2>3. Hands'
    BY <1>0, <1>2 DEF IInv, Hands
  <2>4. Replies'
    <3>1. \A s \in Requests : s # r => (Owned(s)' <=> Owned(s))
      BY <1>0, <1>2, NoRequestAssumption DEF Owned
    <3>2. Owned(r)'
      BY <1>2 DEF Owned
    <3>3. \A s \in Requests : s \notin received' => sent'[s] = 0 /\ ~Owned(s)'
      BY <1>0, <1>2, <3>1 DEF IInv, Replies
    <3>4. \A s \in received' : Owned(s)' \/ sent'[s] = 1
      BY <1>0, <1>2, <3>1, <3>2 DEF IInv, Replies
    <3> QED BY <1>0, <1>2, <3>3, <3>4 DEF IInv, Replies
  <2>5. Stages'
    BY <1>0, <1>2 DEF IInv, Stages, TypeOK
  <2> QED BY <2>1, <2>2, <2>3, <2>4, <2>5 DEF IInv
<1> QED BY <1>1, <1>2 DEF Receive

\* cond.notify_one() moves at most a waiter to "woken".
LEMMA NotifyOneFacts ==
    ASSUME IInv, NotifyOne
    PROVE  /\ pc' \in [Workers -> WorkerPC] /\ main' \in MainPC
           /\ \A v \in Workers : pc'[v] = pc[v] \/ (pc[v] = "wait" /\ pc'[v] = "woken")
           /\ main' = main \/ (main = "wait" /\ main' = "woken")
  BY DEF IInv, TypeOK, NotifyOne, WorkerPC, MainPC

LEMMA EnqueueKeeps ==
    ASSUME IInv, Enqueue
    PROVE  IInv'
<1> USE DEF eventVars, queueVars, workerVars
<1>0. /\ UNCHANGED <<running, numThreads, freed, item, rejecting, received, undefined>>
      /\ event = "callback" /\ event' = "idle" /\ eventItem' = NoRequest
      /\ eventItem \in Requests /\ eventItem # NoRequest
      /\ sent \in [Requests -> Nat] /\ sent[eventItem] = 0
      /\ item \in [Workers -> Requests \cup {NoRequest}]
      /\ queue \in Seq(Requests) /\ received \subseteq Requests
  BY NoRequestAssumption DEF Enqueue, IInv, TypeOK, Hands, Replies
<1>1. Owned(eventItem) /\ eventItem \in received
  BY <1>0 DEF Owned, IInv, Replies
<1>2. CASE sent' = [sent EXCEPT ![eventItem] = @ + 1] /\ UNCHANGED <<queue, pc, main>>
  <2>0. sent'[eventItem] = 1 /\ \A s \in Requests : s # eventItem => sent'[s] = sent[s]
    BY <1>0, <1>2
  <2>1. TypeOK'
    BY <1>0, <1>2 DEF IInv, TypeOK, EventPC
  <2>2. OneOwner'
    BY <1>0, <1>2, NoRequestAssumption DEF IInv, OneOwner
  <2>3. Hands'
    BY <1>0, <1>2 DEF IInv, Hands
  <2>4. Replies'
    <3>1. \A s \in Requests : s # eventItem => (Owned(s)' <=> Owned(s))
      BY <1>0, <1>2, NoRequestAssumption DEF Owned
    <3>4. \A s \in Requests : s \notin received' => sent'[s] = 0 /\ ~Owned(s)'
      BY <1>0, <1>1, <2>0, <3>1 DEF IInv, Replies
    <3>5. \A s \in received' : Owned(s)' \/ sent'[s] = 1
      BY <1>0, <2>0, <3>1 DEF IInv, Replies
    <3>6. \A k \in 1..Len(queue') : sent'[queue'[k]] = 0
      BY <1>0, <1>2, <2>0 DEF IInv, Replies, OneOwner
    <3>7. \A v \in Workers : /\ pc'[v] = "run" => sent'[item'[v]] = 0
                             /\ pc'[v] = "delete" => sent'[item'[v]] \in {0, 1}
      <4>2. \A v \in Workers : pc[v] \in {"run", "delete"} => item[v] \in Requests /\ item[v] # eventItem
        BY <1>0 DEF IInv, Hands, OneOwner
      <4> QED BY <1>0, <1>2, <2>0, <4>2 DEF IInv, Replies
    <3> QED BY <1>0, <1>2, <3>4, <3>5, <3>6, <3>7 DEF Replies
  <2>5. Stages'
    BY <1>0, <1>2 DEF IInv, Stages, TypeOK
  <2> QED BY <2>1, <2>2, <2>3, <2>4, <2>5 DEF IInv
<1>3. CASE ~Full /\ queue' = Append(queue, eventItem) /\ NotifyOne /\ UNCHANGED sent
  <2>0. /\ queue' \in Seq(Requests) /\ Len(queue') = Len(queue) + 1 /\ Len(queue) \in Nat
        /\ \A k \in 1..Len(queue) : queue'[k] = queue[k]
        /\ queue'[Len(queue) + 1] = eventItem
    BY <1>0, <1>3
  <2>a. /\ pc' \in [Workers -> WorkerPC] /\ main' \in MainPC
        /\ \A v \in Workers : pc'[v] = pc[v] \/ (pc[v] = "wait" /\ pc'[v] = "woken")
        /\ main' = main \/ (main = "wait" /\ main' = "woken")
    BY <1>3, NotifyOneFacts
  <2>b. \A k \in 1..Len(queue') : k \in 1..Len(queue) \/ k = Len(queue) + 1
    BY <2>0
  <2>c. Len(queue) + 1 \in 1..Len(queue') /\ \A k \in 1..Len(queue) : k \in 1..Len(queue')
    BY <2>0
  <2>1. TypeOK'
    BY <1>0, <1>3, <2>0, <2>a, MaxDepthAssumption DEF IInv, TypeOK, EventPC, Full
  <2>2. OneOwner'
    <3>1. \A j, k \in 1..Len(queue') : queue'[j] = queue'[k] => j = k
      BY <2>0, <2>b DEF IInv, OneOwner
    <3>2. \A k \in 1..Len(queue') : queue'[k] # eventItem'
      BY <1>0, <2>0, NoRequestAssumption
    <3>3. ASSUME NEW k \in 1..Len(queue'), NEW v \in Workers PROVE item'[v] # queue'[k]
      <4>1. \A l \in 1..Len(queue) : item[v] # queue[l]
        BY DEF IInv, OneOwner
      <4>2. item[v] # eventItem
        BY <1>0 DEF IInv, OneOwner
      <4> QED BY <1>0, <2>0, <2>b, <4>1, <4>2
    <3>4. \A v \in Workers : item'[v] # NoRequest => item'[v] # eventItem'
      BY <1>0
    <3>5. \A u, v \in Workers : item'[u] = item'[v] /\ item'[u] # NoRequest => u = v
      BY <1>0 DEF IInv, OneOwner
    <3> QED BY <3>1, <3>2, <3>3, <3>4, <3>5 DEF OneOwner
  <2>3. Hands'
    BY <1>0, <2>a DEF IInv, Hands
  <2>4. \A s \in Requests : Owned(s)' <=> Owned(s)
    <3> SUFFICES ASSUME NEW s \in Requests PROVE Owned(s)' <=> Owned(s)
      OBVIOUS
    <3>1. (\E k \in 1..Len(queue') : queue'[k] = s)
            <=> (\E k \in 1..Len(queue) : queue[k] = s) \/ eventItem = s
      BY <2>0, <2>b, <2>c
    <3>2. eventItem' # s
      BY <1>0, NoRequestAssumption
    <3> QED BY <1>0, <3>1, <3>2 DEF Owned
  <2>5. Replies'
    <3>1. \A s \in Requests : s \notin received' => sent'[s] = 0 /\ ~Owned(s)'
      BY <1>0, <1>3, <2>4 DEF IInv, Replies
    <3>2. \A s \in received' : Owned(s)' \/ sent'[s] = 1
      BY <1>0, <1>3, <2>4 DEF IInv, Replies
    <3>3. \A k \in 1..Len(queue') : sent'[queue'[k]] = 0
      BY <1>0, <1>3, <2>0, <2>b DEF IInv, Replies
    <3>4. \A v \in Workers : /\ pc'[v] = "run" => sent'[item'[v]] = 0
                             /\ pc'[v] = "delete" => sent'[item'[v]] \in {0, 1}
      BY <1>0, <1>3, <2>a DEF IInv, Replies
    <3> QED BY <1>0, <3>1, <3>2, <3>3, <3>4 DEF Replies
  <2>6. Stages'
    <3>1. Inside(pc') = Inside(pc)
      BY <2>a DEF Inside
    <3> QED BY <1>0, <2>a, <3>1 DEF IInv, Stages, TypeOK
  <2> QED BY <2>1, <2>2, <2>3, <2>5, <2>6 DEF IInv
<1> QED BY <1>2, <1>3 DEF Enqueue

-----------------------------------------------------------------------------
(* Shutdown *)

LEMMA InterruptHTTPServerKeeps ==
    ASSUME IInv, InterruptHTTPServer
    PROVE  IInv'
<1> USE DEF InterruptHTTPServer, queueVars, workerVars
<1>1. TypeOK'
  BY DEF IInv, TypeOK, MainPC
<1>2. OneOwner' /\ Hands' /\ Replies'
  BY NoItemMoves
<1>3. Stages'
  BY DEF IInv, Stages, TypeOK
<1> QED BY <1>1, <1>2, <1>3 DEF IInv

LEMMA InterruptKeeps ==
    ASSUME IInv, Interrupt
    PROVE  IInv'
<1> USE DEF eventVars
<1>0. /\ UNCHANGED <<queue, numThreads, freed, item, eventVars, received, sent, undefined>>
      /\ running' = FALSE /\ main = "interrupt" /\ main' = "exit"
      /\ pc \in [Workers -> WorkerPC] /\ pc' \in [Workers -> WorkerPC]
      /\ \A v \in Workers : pc'[v] = IF pc[v] = "wait" THEN "woken" ELSE pc[v]
  BY DEF Interrupt, IInv, TypeOK, WorkerPC
<1>1. TypeOK'
  BY <1>0 DEF IInv, TypeOK, MainPC
<1>2. OneOwner' /\ Hands' /\ Replies'
  BY <1>0, NoItemMoves
<1>3. Inside(pc') = Inside(pc)
  BY <1>0 DEF Inside
<1>4. Stages'
  BY <1>0, <1>3 DEF IInv, Stages, TypeOK
<1> QED BY <1>1, <1>2, <1>4 DEF IInv

LEMMA WaitExitKeeps ==
    ASSUME IInv, WaitExit
    PROVE  IInv'
<1> USE DEF WaitExit, queueVars, workerVars, eventVars
<1>1. TypeOK'
  BY DEF IInv, TypeOK, MainPC
<1>2. OneOwner' /\ Hands' /\ Replies'
  BY NoItemMoves
<1>3. main' = "delete" => \A w \in Workers : pc[w] \in {"new", "done"}
  BY CountZero DEF IInv, Stages, StillCounted, Inside, TypeOK
<1>4. main' \in {"wait", "delete"}
  OBVIOUS
<1>5. Stages'
  BY <1>3, <1>4 DEF IInv, Stages, TypeOK
<1> QED BY <1>1, <1>2, <1>5 DEF IInv

LEMMA DeleteQueueKeeps ==
    ASSUME IInv, DeleteQueue
    PROVE  IInv'
<1> USE DEF workerVars, eventVars
<1>0. /\ UNCHANGED <<running, numThreads, workerVars, eventVars, received, undefined>>
      /\ main = "delete" /\ main' = "join" /\ freed' = TRUE /\ queue' = <<>>
      /\ queue \in Seq(Requests) /\ sent \in [Requests -> Nat]
      /\ item \in [Workers -> Requests \cup {NoRequest}]
      /\ DOMAIN queue = 1..Len(queue) /\ received \subseteq Requests
      /\ (1..Len(queue')) = {}
  BY DEF DeleteQueue, IInv, TypeOK
<1>1. \A k \in 1..Len(queue) : sent[queue[k]] = 0
  BY DEF IInv, Replies
<1>2. /\ sent' \in [Requests -> Nat]
      /\ \A r \in Requests : (\E k \in 1..Len(queue) : queue[k] = r) => sent'[r] = 1
      /\ \A r \in Requests : ~(\E k \in 1..Len(queue) : queue[k] = r) => sent'[r] = sent[r]
  BY <1>0, <1>1 DEF DeleteQueue, WithReply
<1>3. TypeOK'
  BY <1>0, <1>2, MaxDepthAssumption DEF IInv, TypeOK, MainPC
<1>4. OneOwner'
  BY <1>0 DEF IInv, OneOwner
<1>5. Hands'
  BY <1>0 DEF IInv, Hands
<1>6. Replies'
  <2>1. \A r \in Requests : Owned(r) <=> Owned(r)' \/ \E k \in 1..Len(queue) : queue[k] = r
    BY <1>0 DEF Owned
  <2>2. \A r \in Requests : r \notin received' => sent'[r] = 0 /\ ~Owned(r)'
    BY <1>0, <1>2, <2>1 DEF IInv, Replies, Owned
  <2>3. \A r \in received' : Owned(r)' \/ sent'[r] = 1
    BY <1>0, <1>2, <2>1 DEF IInv, Replies
  <2>4. event' = "callback" => sent'[eventItem'] = 0
    <3>1. event = "callback" => eventItem \in Requests /\ ~\E k \in 1..Len(queue) : queue[k] = eventItem
      BY DEF IInv, TypeOK, Hands, OneOwner
    <3> QED BY <1>0, <1>2, <3>1 DEF IInv, Replies
  <2>5. \A v \in Workers : /\ pc'[v] = "run" => sent'[item'[v]] = 0
                           /\ pc'[v] = "delete" => sent'[item'[v]] \in {0, 1}
    <3>1. \A v \in Workers : pc[v] \in {"run", "delete"} =>
              item[v] \in Requests /\ ~\E k \in 1..Len(queue) : queue[k] = item[v]
      BY <1>0 DEF IInv, Hands, OneOwner
    <3> QED BY <1>0, <1>2, <3>1 DEF IInv, Replies
  <2> QED BY <1>0, <2>2, <2>3, <2>4, <2>5 DEF Replies
<1>7. Stages'
  BY <1>0 DEF IInv, Stages, TypeOK, DeleteQueue
<1> QED BY <1>3, <1>4, <1>5, <1>6, <1>7 DEF IInv

LEMMA JoinEventThreadKeeps ==
    ASSUME IInv, JoinEventThread
    PROVE  IInv'
<1> USE DEF JoinEventThread, queueVars, workerVars
<1>1. TypeOK'
  BY DEF IInv, TypeOK, MainPC, EventPC
<1>2. OneOwner'
  BY DEF IInv, OneOwner
<1>3. Hands'
  BY DEF IInv, Hands
<1>4. Replies'
  BY DEF IInv, Replies, Owned
<1>5. Stages'
  BY DEF IInv, Stages, TypeOK
<1> QED BY <1>1, <1>2, <1>3, <1>4, <1>5 DEF IInv

LEMMA SpuriousWakeupKeeps ==
    ASSUME IInv, SpuriousWakeup
    PROVE  IInv'
<1> USE DEF queueVars, eventVars
<1>0. /\ UNCHANGED <<queueVars, item, eventVars, received, sent, undefined>>
      /\ pc' \in [Workers -> WorkerPC] /\ main' \in MainPC
      /\ \A v \in Workers : pc'[v] = pc[v] \/ (pc[v] = "wait" /\ pc'[v] = "woken")
      /\ main' = main \/ (main = "wait" /\ main' = "woken")
  BY DEF SpuriousWakeup, IInv, TypeOK, WorkerPC, MainPC
<1>1. TypeOK'
  BY <1>0 DEF IInv, TypeOK
<1>2. OneOwner' /\ Hands' /\ Replies'
  BY <1>0, NoItemMoves
<1>3. Inside(pc') = Inside(pc)
  BY <1>0 DEF Inside
<1>4. Stages'
  BY <1>0, <1>3 DEF IInv, Stages, TypeOK
<1> QED BY <1>1, <1>2, <1>4 DEF IInv

-----------------------------------------------------------------------------
(* The inductive invariant and what follows from it *)

LEMMA InitIInv == Init => IInv
<1> SUFFICES ASSUME Init PROVE IInv
  OBVIOUS
<1> USE DEF Init
<1>0. queue \in Seq(Requests) /\ Len(queue) = 0 /\ (1..Len(queue)) = {}
  OBVIOUS
<1>1. TypeOK
  <2>1. queue \in Seq(Requests) /\ Len(queue) <= MaxDepth
    BY <1>0, MaxDepthAssumption
  <2>2. pc \in [Workers -> WorkerPC] /\ item \in [Workers -> Requests \cup {NoRequest}]
        /\ sent \in [Requests -> Nat]
    BY DEF WorkerPC
  <2> QED BY <2>1, <2>2 DEF TypeOK, EventPC, MainPC
<1>2. OneOwner /\ Hands
  BY <1>0 DEF OneOwner, Hands
<1>3. Replies
  BY <1>0, NoRequestAssumption DEF Replies, Owned
<1>4. Stages
  <2>1. Inside(pc) = {}
    BY DEF Inside
  <2> QED BY <2>1, CountZero DEF Stages
<1> QED BY <1>1, <1>2, <1>3, <1>4 DEF IInv

LEMMA NextKeepsIInv == IInv /\ [Next]_vars => IInv'
<1> SUFFICES ASSUME IInv, [Next]_vars PROVE IInv'
  OBVIOUS
<1>a. ASSUME undefined' = TRUE,
             UNCHANGED <<queueVars, workerVars, eventVars, main, received, sent>>
      PROVE  IInv'
  <2> USE <1>a DEF queueVars, workerVars, eventVars
  <2>1. TypeOK'
    BY DEF IInv, TypeOK
  <2>2. OneOwner' /\ Hands' /\ Replies'
    BY NoItemMoves
  <2>3. Stages'
    BY DEF IInv, Stages
  <2> QED BY <2>1, <2>2, <2>3 DEF IInv
<1>1. ASSUME NEW w \in Workers, Run(w) PROVE IInv'
  <2>1. CASE UseDeleted(w)
    BY <1>a, <2>1 DEF UseDeleted
  <2> QED
    BY <1>1, <2>1, EnterKeeps, ReadRunningKeeps, TakeKeeps, RunItemKeeps, DeleteItemKeeps,
       LeaveKeeps DEF Run
<1>2. ASSUME NEW r \in Requests, Receive(r) PROVE IInv'
  BY <1>2, ReceiveKeeps
<1>3. CASE Callback \/ InterruptHTTPServer \/ SpuriousWakeup
  <2>1. CASE EnqueueDeleted
    BY <1>a, <2>1 DEF EnqueueDeleted
  <2> QED
    BY <1>3, <2>1, EnqueueKeeps, InterruptHTTPServerKeeps, SpuriousWakeupKeeps DEF Callback
<1>4. CASE Shutdown
  BY <1>4, InterruptKeeps, WaitExitKeeps, DeleteQueueKeeps, JoinEventThreadKeeps DEF Shutdown
<1>5. CASE UNCHANGED vars
  <2> USE <1>5 DEF vars, queueVars, workerVars, eventVars
  <2>1. TypeOK'
    BY DEF IInv, TypeOK
  <2>2. OneOwner' /\ Hands' /\ Replies'
    BY NoItemMoves
  <2>3. Stages'
    BY DEF IInv, Stages
  <2> QED BY <2>1, <2>2, <2>3 DEF IInv
<1> QED BY <1>1, <1>2, <1>3, <1>4, <1>5 DEF Next

\* A set with at most one element has a cardinality of 0 or 1.
LEMMA AtMostOne ==
    ASSUME NEW S, \A x, y \in S : x = y
    PROVE  Cardinality(S) = IF S = {} THEN 0 ELSE 1
<1>1. CASE S = {}
  BY <1>1, FS_EmptySet
<1>2. CASE S # {}
  <2>1. PICK x \in S : TRUE
    BY <1>2
  <2>2. S = {x}
    BY <2>1
  <2> QED BY <1>2, <2>2, FS_Singleton
<1> QED BY <1>1, <1>2

LEMMA IInvAnsweredOnce == IInv => AnsweredOnce
<1> SUFFICES ASSUME IInv, NEW r \in Requests
             PROVE  LET owners == Cardinality(Queued(r)) + Cardinality(Holding(r)) + (IF eventItem = r THEN 1 ELSE 0)
                    IN  /\ sent[r] <= 1
                        /\ owners <= 1
                        /\ r \in received /\ owners = 0 => sent[r] = 1
                        /\ Queued(r) # {} \/ eventItem = r => sent[r] = 0
  BY DEF AnsweredOnce
<1>0. r # NoRequest /\ DOMAIN queue = 1..Len(queue) /\ sent[r] \in Nat
  BY NoRequestAssumption DEF IInv, TypeOK
<1>1. Cardinality(Queued(r)) = IF Queued(r) = {} THEN 0 ELSE 1
  BY <1>0, AtMostOne DEF Queued, IInv, OneOwner
<1>2. Cardinality(Holding(r)) = IF Holding(r) = {} THEN 0 ELSE 1
  BY <1>0, AtMostOne DEF Holding, IInv, OneOwner
<1>3. /\ Queued(r) = {} \/ Holding(r) = {}
      /\ Queued(r) = {} \/ eventItem # r
      /\ Holding(r) = {} \/ eventItem # r
  BY <1>0 DEF Queued, Holding, IInv, OneOwner
<1>4. Owned(r) <=> Queued(r) # {} \/ Holding(r) # {} \/ eventItem = r
  BY <1>0 DEF Owned, Queued, Holding
<1>5. Queued(r) # {} \/ eventItem = r => sent[r] = 0
  BY <1>0 DEF Queued, IInv, Hands, Replies
<1>6. Holding(r) # {} => sent[r] \in {0, 1}
  BY <1>0 DEF Holding, IInv, Hands, Replies
<1>7. sent[r] <= 1
  BY <1>0, <1>4, <1>5, <1>6 DEF IInv, Replies
<1>8. r \in received /\ ~Owned(r) => sent[r] = 1
  BY DEF IInv, Replies
<1> QED BY <1>1, <1>2, <1>3, <1>4, <1>5, <1>7, <1>8

LEMMA Inductive == Spec => []IInv
  BY InitIInv, NextKeepsIInv, PTL DEF Spec

\* However slow the threads are and whenever the shutdown begins, WorkQueue never
\* holds more than maxDepth items, each HTTPRequest is owned by the callback, the
\* queue or one worker until it is deleted, no request gets a second reply, and
\* what has no owner any more was answered, by its handler, by ~HTTPRequest or by
\* ~WorkQueue; and the count that WaitExit waits for keeps ~WorkQueue from deleting
\* the queue under a worker that waits in it or runs one of its requests.
THEOREM QueueIsSafe == Spec => []QueueSafe
<1>1. IInv => QueueSafe
  <2> SUFFICES ASSUME IInv PROVE QueueSafe
    OBVIOUS
  <2>1. WorkersWaitedFor
    BY DEF IInv, Stages, WorkersWaitedFor
  <2> QED BY <2>1, IInvAnsweredOnce DEF QueueSafe, IInv
<1> QED BY <1>1, Inductive, PTL
=============================================================================
