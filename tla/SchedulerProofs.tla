-------------------------- MODULE SchedulerProofs --------------------------
(***************************************************************************)
(* CScheduler for any number of service threads and tasks: the count of       *)
(* threads and the places of tasks are exact, a drain leaves no task, and a   *)
(* single thread starts no task early.                                        *)
(***************************************************************************)
EXTENDS Scheduler, FiniteSetTheorems, SequenceTheorems, TLAPS

Qs == 1..Len(taskQueue)

\* TypeOK without the bound on the count, which CountIsExact implies
Types ==
    /\ now \in Times /\ taskQueue \in Seq(Entry)
    /\ stopRequested \in BOOLEAN /\ stopWhenEmpty \in BOOLEAN /\ interrupted \in BOOLEAN
    /\ pc \in [Threads -> ServicePC]
    /\ ref \in [Threads -> Tasks \cup {NoTask, Freed}] /\ until \in [Threads -> Times]
    /\ cur \in [Threads -> Entry \cup {Idle}]
    /\ scheduled \subseteq Tasks /\ untold \in Nat /\ stopper \in {"up", "stop", "told"}

\* A task was scheduled and is in one place of the queue or in the hands of one
\* thread, which is then in f() or in the schedule() of Repeat.
Places ==
    /\ \A i \in Qs : taskQueue[i].task \in scheduled
    /\ \A i, j \in Qs : taskQueue[i].task = taskQueue[j].task => i = j
    /\ \A th \in Threads : pc[th] \in {"run", "insert"} => cur[th].task \in scheduled
    /\ \A th \in Threads : pc[th] \notin {"run", "insert"} => cur[th] = Idle
    /\ \A u, v \in Threads : cur[u].task = cur[v].task /\ cur[u].task # NoTask => u = v
    /\ \A th \in Threads, i \in Qs : cur[th].task # taskQueue[i].task

\* A thread ends only after a stop or an interruption, and while a drain goes on
\* only when no task is left or another thread is still there.
Ends ==
    /\ stopper = "up" => /\ ~stopRequested /\ ~stopWhenEmpty /\ ~interrupted
                         /\ \A th \in Threads : pc[th] # "done"
    /\ stopWhenEmpty /\ ~stopRequested /\ ~interrupted =>
          \/ taskQueue = <<>>
          \/ \E th \in Threads : pc[th] \notin {"none", "done"}
          \/ \A th \in Threads : pc[th] # "done"

\* At most one thread is ever created
Alone == \A u, v \in Threads : pc[u] # "none" /\ pc[v] # "none" => u = v

\* What a single thread waits for is still first in the queue, or something with
\* an earlier time is.
Timely ==
    Alone => \A th \in Threads :
        /\ ref[th] # Freed
        /\ ref[th] # NoTask => pc[th] # "none" /\ taskQueue # <<>> /\ taskQueue[1].at <= until[th]
        /\ pc[th] = "run" => cur[th].at <= now

IInv == Types /\ CountIsExact /\ Places /\ Ends /\ Timely

-----------------------------------------------------------------------------
(* Facts about the operators *)

\* e put in behind the first n elements of q
Behind(q, n, e) == SubSeq(q, 1, n) \o <<e>> \o SubSeq(q, n + 1, Len(q))

LEMMA InsertAfter ==
    ASSUME NEW S, NEW q \in Seq(S), NEW e \in S, NEW n \in Nat, n <= Len(q)
    PROVE  LET s == Behind(q, n, e)
           IN  /\ s \in Seq(S) /\ Len(s) = Len(q) + 1
               /\ \A i \in 1..n : s[i] = q[i]
               /\ s[n + 1] = e
               /\ \A i \in (n + 2)..(Len(q) + 1) : s[i] = q[i - 1]
<1> DEFINE a == SubSeq(q, 1, n)
           b == SubSeq(q, n + 1, Len(q))
           o == <<e>>
           c == a \o o
           s == c \o b
<1>0. Len(q) \in Nat /\ n \in Nat /\ n <= Len(q) /\ \A i \in 1..Len(q) : q[i] \in S
  BY LenProperties
<1>1. a \in Seq(S) /\ Len(a) = n /\ \A i \in 1..n : a[i] = q[i]
  <2>1. \A i \in 1..n : q[i] \in S
    BY <1>0
  <2>2. /\ a \in Seq(S) /\ Len(a) = IF 1 <= n THEN n - 1 + 1 ELSE 0
        /\ \A i \in 1..(n - 1 + 1) : a[i] = q[1 + i - 1]
    BY <1>0, <2>1, SubSeqProperties, Z3
  <2> QED BY <1>0, <2>2
<1>2. b \in Seq(S) /\ Len(b) = Len(q) - n /\ \A i \in 1..(Len(q) - n) : b[i] = q[n + i]
  <2>1. \A i \in (n + 1)..Len(q) : q[i] \in S
    BY <1>0
  <2>2. /\ b \in Seq(S) /\ Len(b) = IF n + 1 <= Len(q) THEN Len(q) - (n + 1) + 1 ELSE 0
        /\ \A i \in 1..(Len(q) - (n + 1) + 1) : b[i] = q[n + 1 + i - 1]
    BY <1>0, <2>1, SubSeqProperties, Z3
  <2> QED BY <1>0, <2>2
<1>3. o \in Seq(S) /\ Len(o) = 1 /\ o[1] = e
  OBVIOUS
<1> HIDE DEF a, b, o
<1>4. /\ c \in Seq(S) /\ Len(c) = n + 1
      /\ \A i \in 1..(n + 1) : c[i] = IF i <= n THEN a[i] ELSE o[i - n]
  <2>1. /\ c \in Seq(S) /\ Len(c) = Len(a) + Len(o)
        /\ \A i \in 1..(Len(a) + Len(o)) : c[i] = IF i <= Len(a) THEN a[i] ELSE o[i - Len(a)]
    BY <1>1, <1>3, ConcatProperties
  <2>2. Len(a) = n /\ Len(a) + Len(o) = n + 1
    BY <1>1, <1>3
  <2> QED BY <2>1, <2>2
<1> HIDE DEF c
<1>5. /\ s \in Seq(S) /\ Len(s) = Len(q) + 1
      /\ \A i \in 1..(Len(q) + 1) : s[i] = IF i <= n + 1 THEN c[i] ELSE b[i - (n + 1)]
  <2>1. /\ s \in Seq(S) /\ Len(s) = Len(c) + Len(b)
        /\ \A i \in 1..(Len(c) + Len(b)) : s[i] = IF i <= Len(c) THEN c[i] ELSE b[i - Len(c)]
    BY <1>2, <1>4, ConcatProperties
  <2>2. Len(c) = n + 1 /\ Len(c) + Len(b) = Len(q) + 1
    BY <1>0, <1>2, <1>4
  <2> QED BY <2>1, <2>2
<1> HIDE DEF s
<1>6. \A i \in 1..n : s[i] = q[i]
  BY <1>0, <1>1, <1>4, <1>5
<1>7. s[n + 1] = e
  BY <1>0, <1>3, <1>4, <1>5
<1>8. \A i \in (n + 2)..(Len(q) + 1) : s[i] = q[i - 1]
  <2> SUFFICES ASSUME NEW i \in (n + 2)..(Len(q) + 1) PROVE s[i] = q[i - 1]
    OBVIOUS
  <2>1. s[i] = b[i - (n + 1)] /\ i - (n + 1) \in 1..(Len(q) - n) /\ n + (i - (n + 1)) = i - 1
    BY <1>0, <1>5
  <2> QED BY <1>2, <2>1
<1> QED BY <1>5, <1>6, <1>7, <1>8 DEF s, c, a, b, o, Behind

\* taskQueue.insert puts the pair behind n others and moves the rest back by one;
\* it comes first only when the first task has a later time.
LEMMA InsertedFacts ==
    ASSUME taskQueue \in Seq(Entry), NEW t \in Times, NEW k \in Tasks
    PROVE  /\ Inserted(t, k) \in Seq(Entry)
           /\ Len(Inserted(t, k)) = Len(taskQueue) + 1
           /\ \E n \in 0..Len(taskQueue) :
                /\ \A i \in 1..n : Inserted(t, k)[i] = taskQueue[i]
                /\ Inserted(t, k)[n + 1] = [at |-> t, task |-> k]
                /\ \A i \in (n + 2)..(Len(taskQueue) + 1) : Inserted(t, k)[i] = taskQueue[i - 1]
                /\ n = 0 /\ taskQueue # <<>> => t < taskQueue[1].at
<1> DEFINE S == {i \in DOMAIN taskQueue : taskQueue[i].at <= t}
           n == Cardinality(S)
           q == taskQueue
           e == [at |-> t, task |-> k]
<1>0. Len(q) \in Nat /\ DOMAIN q = 1..Len(q) /\ e \in Entry
  BY DEF Entry
<1>1. IsFiniteSet(1..Len(q)) /\ Cardinality(1..Len(q)) = Len(q)
  <2>1. Len(q) \in Int /\ 1 \in Int
    BY <1>0
  <2>2. IsFiniteSet(1..Len(q)) /\ Cardinality(1..Len(q)) = IF 1 > Len(q) THEN 0 ELSE Len(q) - 1 + 1
    BY <2>1, FS_Interval
  <2> QED BY <1>0, <2>2
<1>2. IsFiniteSet(S) /\ n \in Nat /\ n <= Len(q)
  <2>1. S \in SUBSET (1..Len(q))
    BY <1>0
  <2> HIDE DEF S
  <2> QED BY <2>1, <1>1, FS_Subset, FS_CardinalityType
<1>3. n = 0 /\ q # <<>> => t < q[1].at
  <2> SUFFICES ASSUME n = 0, q # <<>> PROVE t < q[1].at
    OBVIOUS
  <2>1. S = {}
    BY <1>2, FS_EmptySet
  <2>2. 1 \in 1..Len(q)
    BY <1>0
  <2>3. q[1] \in Entry
    BY <2>2
  <2>4. q[1].at \in Times
    BY <2>3 DEF Entry
  <2>5. ~(q[1].at <= t)
    BY <1>0, <2>1, <2>2
  <2> QED BY <2>4, <2>5, TimeAssumption DEF Times
<1>4. n \in 0..Len(q)
  BY <1>0, <1>2
<1>5. Inserted(t, k) = Behind(q, n, e)
  BY DEF Inserted, Behind
<1> HIDE DEF n, e
<1>6. /\ Inserted(t, k) \in Seq(Entry) /\ Len(Inserted(t, k)) = Len(q) + 1
      /\ \A i \in 1..n : Inserted(t, k)[i] = q[i]
      /\ Inserted(t, k)[n + 1] = e
      /\ \A i \in (n + 2)..(Len(q) + 1) : Inserted(t, k)[i] = q[i - 1]
  <2>1. taskQueue \in Seq(Entry) /\ e \in Entry /\ n \in Nat /\ n <= Len(taskQueue)
    BY <1>0, <1>2
  <2>2. /\ Behind(taskQueue, n, e) \in Seq(Entry)
        /\ Len(Behind(taskQueue, n, e)) = Len(taskQueue) + 1
        /\ Behind(taskQueue, n, e)[n + 1] = e
    BY <2>1, InsertAfter
  <2>3. \A i \in 1..n : Behind(taskQueue, n, e)[i] = taskQueue[i]
    BY <2>1, InsertAfter
  <2>4. \A i \in (n + 2)..(Len(taskQueue) + 1) : Behind(taskQueue, n, e)[i] = taskQueue[i - 1]
    BY <2>1, InsertAfter
  <2> QED BY <1>5, <2>2, <2>3, <2>4
<1> QED BY <1>3, <1>4, <1>6 DEF e

\* The elements of the queue after an insertion are those before and the new one.
LEMMA InsertedPlaces ==
    ASSUME taskQueue \in Seq(Entry), NEW t \in Times, NEW k \in Tasks,
           \A i, j \in Qs : taskQueue[i].task = taskQueue[j].task => i = j,
           \A i \in Qs : taskQueue[i].task # k
    PROVE  LET s == Inserted(t, k)
           IN  /\ s \in Seq(Entry) /\ s # <<>> /\ Len(s) \in Nat
               /\ \A i, j \in 1..Len(s) : s[i].task = s[j].task => i = j
               /\ \A i \in 1..Len(s) : s[i].task = k \/ \E j \in Qs : s[i].task = taskQueue[j].task
               /\ taskQueue # <<>> => s[1].at <= taskQueue[1].at
<1> DEFINE s == Inserted(t, k)
           q == taskQueue
<1>1. PICK n \in 0..Len(q) :
         /\ \A i \in 1..n : s[i] = q[i]
         /\ s[n + 1] = [at |-> t, task |-> k]
         /\ \A i \in (n + 2)..(Len(q) + 1) : s[i] = q[i - 1]
         /\ n = 0 /\ q # <<>> => t < q[1].at
  BY InsertedFacts
<1>2. s \in Seq(Entry) /\ Len(s) = Len(q) + 1 /\ Len(q) \in Nat
  <2>1. Len(q) \in Nat
    OBVIOUS
  <2> QED BY <2>1, InsertedFacts
<1> HIDE DEF s
<1>3. \A i \in 1..Len(s) :
         \/ i \in 1..n /\ i \in Qs /\ s[i].task = q[i].task
         \/ i = n + 1 /\ s[i].task = k
         \/ i > n + 1 /\ i - 1 \in Qs /\ s[i].task = q[i - 1].task
  <2> SUFFICES ASSUME NEW i \in 1..Len(s)
               PROVE  \/ i \in 1..n /\ i \in Qs /\ s[i].task = q[i].task
                      \/ i = n + 1 /\ s[i].task = k
                      \/ i > n + 1 /\ i - 1 \in Qs /\ s[i].task = q[i - 1].task
    OBVIOUS
  <2>1. CASE i \in 1..n
    BY <1>1, <1>2, <2>1 DEF Qs
  <2>2. CASE i = n + 1
    BY <1>1, <2>2
  <2>3. CASE i \in (n + 2)..(Len(q) + 1)
    BY <1>1, <1>2, <2>3 DEF Qs
  <2> QED BY <1>2, <2>1, <2>2, <2>3
<1>5. \A i, j \in 1..Len(s) : s[i].task = s[j].task => i = j
  <2> SUFFICES ASSUME NEW i \in 1..Len(s), NEW j \in 1..Len(s), s[i].task = s[j].task PROVE i = j
    OBVIOUS
  <2>1. CASE i = n + 1
    BY <1>3, <2>1
  <2>2. CASE j = n + 1
    BY <1>3, <2>2
  <2>3. CASE i # n + 1 /\ j # n + 1
    BY <1>2, <1>3, <2>3
  <2> QED BY <2>1, <2>2, <2>3
<1>6. \A i \in 1..Len(s) : s[i].task = k \/ \E j \in Qs : s[i].task = q[j].task
  BY <1>3
<1>7. q # <<>> => s[1].at <= q[1].at
  <2> SUFFICES ASSUME q # <<>> PROVE s[1].at <= q[1].at
    OBVIOUS
  <2>1. 1 \in 1..Len(q)
    BY <1>2
  <2>2. q[1] \in Entry
    BY <2>1
  <2>3. q[1].at \in Nat /\ t \in Nat
    BY <2>2, TimeAssumption DEF Entry, Times
  <2>4. CASE n = 0
    BY <1>1, <2>3, <2>4
  <2>5. CASE n # 0
    <3>1. 1 \in 1..n
      BY <2>5, <1>2
    <3> QED BY <1>1, <2>3, <3>1
  <2> QED BY <2>4, <2>5
<1>8. s # <<>>
  BY <1>2
<1> QED BY <1>2, <1>5, <1>6, <1>7, <1>8 DEF s

LEMMA ServingFacts ==
    /\ IsFiniteSet(Serving) /\ Cardinality(Serving) \in Nat
    /\ Cardinality(Serving) <= Cardinality(Threads) /\ Cardinality(Threads) \in Nat
<1>1. Serving \in SUBSET Threads
  BY DEF Serving
<1> QED BY <1>1, ThreadsAssumption, FS_Subset, FS_CardinalityType

LEMMA CountUp ==
    ASSUME CountIsExact, NEW th, th \notin Serving, Serving' = Serving \cup {th},
           nThreadsServicingQueue' = nThreadsServicingQueue + 1
    PROVE  CountIsExact'
  BY ServingFacts, FS_AddElement DEF CountIsExact

LEMMA CountDown ==
    ASSUME CountIsExact, NEW th, th \in Serving, Serving' = Serving \ {th},
           nThreadsServicingQueue' = nThreadsServicingQueue - 1
    PROVE  CountIsExact'
  BY ServingFacts, FS_RemoveElement DEF CountIsExact

LEMMA EntryFacts ==
    /\ \A e \in Entry : e.at \in Times /\ e.task \in Tasks /\ e.task # NoTask /\ e.task # Freed
    /\ Idle.task = NoTask /\ Idle.at = 0 /\ Idle \notin Entry
    /\ \A t \in Times : t \in Nat /\ t <= MaxTime
    /\ MaxTime \in Nat
  BY TimeAssumption, NoTaskAssumption DEF Entry, Idle, Times

-----------------------------------------------------------------------------
(* Steps that only wake threads *)

\* No thread enters or leaves serviceQueue, takes a task or gives it back.
LEMMA QuietKeeps ==
    ASSUME IInv, pc' \in [Threads -> ServicePC],
           \A v \in Threads : \/ pc'[v] = pc[v]
                              \/ {pc[v], pc'[v]} \cap {"none", "new", "done", "run", "insert"} = {},
           UNCHANGED <<now, taskQueue, ref, until, cur, nThreadsServicingQueue, scheduled>>
    PROVE  /\ CountIsExact' /\ Places' /\ Timely'
           /\ UNCHANGED <<stopper, stopRequested, stopWhenEmpty, interrupted>> => Ends'
<1>0. \A v \in Threads, q \in {"none", "new", "done", "run", "insert"} : pc'[v] = q <=> pc[v] = q
  OBVIOUS
<1>1. CountIsExact'
  <2>1. Serving' = Serving
    BY <1>0 DEF Serving
  <2> QED BY <2>1 DEF IInv, CountIsExact
<1>2. Places'
  BY <1>0 DEF IInv, Places, Qs
<1>3. Timely'
  <2>1. Alone' <=> Alone
    BY <1>0 DEF Alone
  <2> QED BY <1>0, <2>1 DEF IInv, Timely
<1>4. UNCHANGED <<stopper, stopRequested, stopWhenEmpty, interrupted>> => Ends'
  BY <1>0 DEF IInv, Ends
<1> QED BY <1>1, <1>2, <1>3, <1>4

LEMMA NotifyOneFacts ==
    ASSUME IInv, NEW th, NEW q, NotifyOne(th, q),
           th \in Threads => pc[th] \in ServicePC \ {"wait", "timed"} /\ q \in ServicePC
    PROVE  /\ pc' \in [Threads -> ServicePC]
           /\ \A v \in Threads :
                 IF v = th THEN pc'[v] = q
                 ELSE pc'[v] = pc[v] \/ (pc[v] \in {"wait", "timed"} /\ pc'[v] = "woken")
<1> DEFINE waiting == {v \in Threads : pc[v] \in {"wait", "timed"}}
           moved   == [v \in Threads |-> IF v = th THEN q ELSE pc[v]]
<1>1. moved \in [Threads -> ServicePC]
  BY DEF IInv, Types
<1>2. CASE pc' = moved
  BY <1>1, <1>2
<1>3. ASSUME NEW u \in waiting, pc' = [moved EXCEPT ![u] = "woken"]
      PROVE  /\ pc' \in [Threads -> ServicePC]
             /\ \A v \in Threads :
                   IF v = th THEN pc'[v] = q
                   ELSE pc'[v] = pc[v] \/ (pc[v] \in {"wait", "timed"} /\ pc'[v] = "woken")
  <2>1. u # th
    OBVIOUS
  <2> QED BY <1>1, <1>3, <2>1 DEF ServicePC
<1> QED BY <1>2, <1>3 DEF NotifyOne

LEMMA NotifyKeeps ==
    ASSUME IInv, Notify
    PROVE  IInv'
<1>0. /\ UNCHANGED <<now, taskQueue, ref, until, cur, nThreadsServicingQueue, scheduled,
                     stopper, interrupted, stopRequested, stopWhenEmpty>>
      /\ NotifyOne(NoTask, NoTask) /\ untold > 0 /\ untold' = untold - 1
  BY DEF Notify
<1>1. /\ pc' \in [Threads -> ServicePC]
      /\ \A v \in Threads : pc'[v] = pc[v] \/ (pc[v] \in {"wait", "timed"} /\ pc'[v] = "woken")
  BY <1>0, NotifyOneFacts, NoTaskAssumption
<1>2. Types'
  BY <1>0, <1>1 DEF IInv, Types
<1> QED BY <1>0, <1>1, <1>2, QuietKeeps DEF IInv

LEMMA NotifyOtherKeeps ==
    ASSUME IInv, NEW th \in Threads, NotifyOther(th)
    PROVE  IInv'
<1>0. /\ UNCHANGED <<now, taskQueue, ref, until, cur, nThreadsServicingQueue, clients>>
      /\ NotifyOne(th, "back") /\ pc[th] = "notify"
  BY DEF NotifyOther
<1>1. /\ pc' \in [Threads -> ServicePC] /\ pc'[th] = "back"
      /\ \A v \in Threads \ {th} : pc'[v] = pc[v] \/ (pc[v] \in {"wait", "timed"} /\ pc'[v] = "woken")
  BY <1>0, NotifyOneFacts DEF ServicePC
<1>2. Types'
  BY <1>0, <1>1 DEF IInv, Types, clients
<1>3. \A v \in Threads : \/ pc'[v] = pc[v]
                         \/ {pc[v], pc'[v]} \cap {"none", "new", "done", "run", "insert"} = {}
  BY <1>0, <1>1
<1> QED BY <1>0, <1>1, <1>2, <1>3, QuietKeeps DEF IInv, clients

LEMMA SpuriousWakeupKeeps ==
    ASSUME IInv, NEW th \in Threads, SpuriousWakeup(th)
    PROVE  IInv'
<1>0. /\ UNCHANGED <<now, taskQueue, ref, until, cur, nThreadsServicingQueue, clients>>
      /\ pc' = [pc EXCEPT ![th] = "woken"] /\ pc[th] \in {"wait", "timed"}
      /\ pc \in [Threads -> ServicePC]
  BY DEF SpuriousWakeup, IInv, Types
<1>1. /\ pc' \in [Threads -> ServicePC]
      /\ \A v \in Threads : pc'[v] = pc[v] \/ (pc[v] \in {"wait", "timed"} /\ pc'[v] = "woken")
  BY <1>0 DEF ServicePC
<1>2. Types'
  BY <1>0, <1>1 DEF IInv, Types, clients
<1> QED BY <1>0, <1>1, <1>2, QuietKeeps DEF IInv, clients

LEMMA NotifyStopKeeps ==
    ASSUME IInv, NotifyStop
    PROVE  IInv'
<1>0. /\ UNCHANGED <<now, taskQueue, ref, until, cur, nThreadsServicingQueue, scheduled, untold,
                     interrupted, stopRequested, stopWhenEmpty>>
      /\ stopper = "stop" /\ stopper' = "told" /\ pc' = ToldToStop
      /\ pc \in [Threads -> ServicePC]
  BY DEF NotifyStop, IInv, Types
<1>1. /\ pc' \in [Threads -> ServicePC]
      /\ \A v \in Threads : pc'[v] = pc[v] \/ (pc[v] \in {"wait", "timed"} /\ pc'[v] = "woken")
  BY <1>0 DEF ServicePC, ToldToStop
<1>2. Types'
  BY <1>0, <1>1 DEF IInv, Types
<1>3. Ends'
  BY <1>0, <1>1 DEF IInv, Ends
<1> QED BY <1>0, <1>1, <1>2, <1>3, QuietKeeps DEF IInv

\* Steps that change only the flags
LEMMA FlagsKeep ==
    ASSUME IInv, (\E drain \in BOOLEAN : Stop(drain)) \/ InterruptAll
    PROVE  IInv'
<1>0. /\ UNCHANGED <<now, taskQueue, service, scheduled, untold>>
      /\ stopper = "up" /\ stopper' \in {"stop", "told"}
      /\ stopWhenEmpty' \in BOOLEAN /\ stopRequested' \in BOOLEAN /\ interrupted' \in BOOLEAN
  BY DEF Stop, InterruptAll, IInv, Types
<1>1. Types'
  BY <1>0 DEF IInv, Types, service
<1>2. Ends'
  BY <1>0 DEF IInv, Ends, service
<1>3. pc' \in [Threads -> ServicePC]
  BY <1>1 DEF Types
<1> QED BY <1>0, <1>1, <1>2, <1>3, QuietKeeps DEF IInv, service

LEMMA TickKeeps ==
    ASSUME IInv, Tick
    PROVE  IInv'
<1>0. /\ UNCHANGED <<taskQueue, service, clients>> /\ now' = now + 1
      /\ now' \in Times /\ now \in Times
  BY EntryFacts DEF Tick, IInv, Types, Times
<1>1. Types'
  BY <1>0 DEF IInv, Types, service, clients
<1>2. CountIsExact'
  BY <1>0 DEF IInv, CountIsExact, Serving, service
<1>3. Places' /\ Ends'
  BY <1>0 DEF IInv, Places, Ends, Qs, service, clients
<1>4. Timely'
  <2>1. Alone' <=> Alone
    BY <1>0 DEF Alone, service
  <2>2. \A th \in Threads : cur[th].at \in Times
    BY EntryFacts DEF IInv, Types, Times
  <2>3. \A th \in Threads : cur[th].at <= now => cur[th].at <= now'
    <3>1. now \in Nat /\ \A th \in Threads : cur[th].at \in Nat
      BY <1>0, <2>2, EntryFacts
    <3> QED BY <1>0, <3>1
  <2> QED BY <1>0, <2>1, <2>3 DEF IInv, Timely, service
<1> QED BY <1>1, <1>2, <1>3, <1>4 DEF IInv

-----------------------------------------------------------------------------
(* serviceQueue *)

\* The loop from the lock to the next wait, for a thread that holds no task
LEMMA SettleKeeps ==
    ASSUME IInv, NEW th \in Threads, NEW count, Settle(th, count),
           UNCHANGED <<now, taskQueue, cur, clients>>,
           pc[th] \notin {"none", "done", "run", "insert"},
           count = nThreadsServicingQueue + (IF pc[th] = "new" THEN 1 ELSE 0)
    PROVE  IInv'
<1>0. /\ pc \in [Threads -> ServicePC] /\ until \in [Threads -> Times]
      /\ ref \in [Threads -> Tasks \cup {NoTask, Freed}]
      /\ taskQueue \in Seq(Entry) /\ nThreadsServicingQueue \in Nat
  BY ServingFacts DEF IInv, Types, CountIsExact
<1>1. taskQueue # <<>> => /\ Head(taskQueue) \in Entry /\ taskQueue[1] = Head(taskQueue)
                          /\ Head(taskQueue).at \in Times /\ Head(taskQueue).task \in Tasks
                          /\ Head(taskQueue).at <= Head(taskQueue).at
  <2>1. taskQueue # <<>> => Head(taskQueue) \in Entry /\ taskQueue[1] = Head(taskQueue)
    BY <1>0
  <2> QED BY <2>1, EntryFacts
<1>2. \E q \in {"done", "wait", "timed"} :
        /\ pc' = [pc EXCEPT ![th] = q]
        /\ q = "done" <=> ShouldStop
        /\ nThreadsServicingQueue' = count - (IF q = "done" THEN 1 ELSE 0)
  BY DEF Settle
<1>3. PICK q \in {"done", "wait", "timed"} :
        /\ pc' = [pc EXCEPT ![th] = q]
        /\ q = "done" <=> ShouldStop
        /\ nThreadsServicingQueue' = count - (IF q = "done" THEN 1 ELSE 0)
  BY <1>2
<1>4. \/ /\ ref' = [ref EXCEPT ![th] = NoTask] /\ until' = until
      \/ /\ taskQueue # <<>> /\ ref' = [ref EXCEPT ![th] = Head(taskQueue).task]
         /\ until' = [until EXCEPT ![th] = Head(taskQueue).at]
  BY DEF Settle
<1>5. Types'
  <2>1. pc' \in [Threads -> ServicePC]
    BY <1>0, <1>3 DEF ServicePC
  <2>2. ref' \in [Threads -> Tasks \cup {NoTask, Freed}] /\ until' \in [Threads -> Times]
    BY <1>0, <1>1, <1>4
  <2> QED BY <2>1, <2>2 DEF IInv, Types, clients
<1>6. CountIsExact'
  <2>0. CountIsExact
    BY DEF IInv
  <2>1. CASE pc[th] = "new" /\ q = "done"
    <3>1. Serving' = Serving
      BY <1>0, <1>3, <2>1 DEF Serving
    <3>2. nThreadsServicingQueue' = nThreadsServicingQueue
      BY <1>0, <1>3, <2>1
    <3> QED BY <2>0, <3>1, <3>2 DEF CountIsExact
  <2>2. CASE pc[th] = "new" /\ q # "done"
    <3>1. th \notin Serving /\ Serving' = Serving \cup {th}
      BY <1>0, <1>3, <2>2 DEF Serving
    <3>2. nThreadsServicingQueue' = nThreadsServicingQueue + 1
      BY <1>0, <1>3, <2>2
    <3> QED BY <2>0, <3>1, <3>2, CountUp
  <2>3. CASE pc[th] # "new" /\ q = "done"
    <3>1. th \in Serving /\ Serving' = Serving \ {th}
      BY <1>0, <1>3, <2>3 DEF Serving
    <3>2. nThreadsServicingQueue' = nThreadsServicingQueue - 1
      BY <1>0, <1>3, <2>3
    <3> QED BY <2>0, <3>1, <3>2, CountDown
  <2>4. CASE pc[th] # "new" /\ q # "done"
    <3>1. Serving' = Serving
      BY <1>0, <1>3, <2>4 DEF Serving
    <3>2. nThreadsServicingQueue' = nThreadsServicingQueue
      BY <1>0, <1>3, <2>4
    <3> QED BY <2>0, <3>1, <3>2 DEF CountIsExact
  <2> QED BY <2>1, <2>2, <2>3, <2>4
<1>7. Places'
  <2>1. \A v \in Threads, x \in {"run", "insert"} : pc'[v] = x <=> pc[v] = x
    BY <1>0, <1>3
  <2> QED BY <2>1 DEF IInv, Places, Qs, clients
<1>8. Ends'
  <2>1. CASE q = "done"
    <3>1. stopRequested \/ (stopWhenEmpty /\ taskQueue = <<>>)
      BY <1>3, <2>1 DEF ShouldStop
    <3> QED BY <3>1 DEF IInv, Ends, clients
  <2>2. CASE q # "done"
    <3>1. pc'[th] \notin {"none", "done"} /\ \A v \in Threads : pc'[v] = "done" => pc[v] = "done"
      BY <1>0, <1>3, <2>2
    <3> QED BY <3>1 DEF IInv, Ends, clients
  <2> QED BY <2>1, <2>2
<1>9. Timely'
  <2>1. \A v \in Threads : (pc'[v] = "none" <=> pc[v] = "none") /\ (pc'[v] = "run" => pc[v] = "run")
    BY <1>0, <1>3
  <2>2. Alone' <=> Alone
    BY <2>1 DEF Alone
  <2>3. \A v \in Threads : v # th => ref'[v] = ref[v] /\ until'[v] = until[v]
    BY <1>0, <1>4
  <2>4. ref'[th] # Freed
    BY <1>0, <1>1, <1>4, NoTaskAssumption
  <2>5. ref'[th] # NoTask => taskQueue # <<>> /\ taskQueue[1].at <= until'[th]
    BY <1>0, <1>1, <1>4
  <2> QED BY <2>1, <2>2, <2>3, <2>4, <2>5 DEF IInv, Timely
<1> QED BY <1>5, <1>6, <1>7, <1>8, <1>9 DEF IInv

\* The thread takes the first task: for a single thread its time has come.
LEMMA TakeKeeps ==
    ASSUME IInv, NEW th \in Threads, pc[th] = "woken" \/ Expired(th), TRUE \in TimedOut(th),
           taskQueue # <<>>, Take(th), UNCHANGED <<until, nThreadsServicingQueue, now, clients>>
    PROVE  IInv'
<1> DEFINE first == Head(taskQueue)
<1>0. /\ pc \in [Threads -> ServicePC] /\ pc[th] \in {"woken", "timed"}
      /\ ref \in [Threads -> Tasks \cup {NoTask, Freed}]
      /\ cur \in [Threads -> Entry \cup {Idle}] /\ cur[th] = Idle
      /\ until \in [Threads -> Times] /\ now \in Times
  BY DEF IInv, Types, Expired, Places
<1>1. /\ taskQueue \in Seq(Entry) /\ Len(taskQueue) \in Nat /\ 1 \in Qs
      /\ first = taskQueue[1] /\ first \in Entry
      /\ taskQueue' \in Seq(Entry) /\ Len(taskQueue') = Len(taskQueue) - 1
      /\ \A i \in 1..Len(taskQueue') : i + 1 \in Qs /\ taskQueue'[i] = taskQueue[i + 1]
  BY DEF IInv, Types, Take, Erased, Qs
<1>2. /\ cur' = [cur EXCEPT ![th] = first] /\ pc' = [pc EXCEPT ![th] = "run"]
      /\ ref' = [v \in Threads |-> IF v = th THEN NoTask
                                   ELSE IF ref[v] = first.task THEN Freed ELSE ref[v]]
  BY DEF Take
<1>3. first.task \in Tasks /\ first.at \in Times /\ first.task # NoTask
  BY <1>1, EntryFacts
<1> HIDE DEF first
<1>4. Types'
  <2>1. pc' \in [Threads -> ServicePC] /\ cur' \in [Threads -> Entry \cup {Idle}]
    BY <1>0, <1>1, <1>2 DEF ServicePC
  <2>2. ref' \in [Threads -> Tasks \cup {NoTask, Freed}]
    BY <1>0, <1>2
  <2> QED BY <1>1, <2>1, <2>2 DEF IInv, Types, clients
<1>5. CountIsExact'
  <2>1. Serving' = Serving
    BY <1>0, <1>2 DEF Serving
  <2> QED BY <2>1 DEF IInv, CountIsExact
<1>6. Places'
  <2>0. /\ cur'[th] = first /\ pc'[th] = "run"
        /\ \A v \in Threads : v # th => cur'[v] = cur[v] /\ pc'[v] = pc[v]
    BY <1>0, <1>2
  <2>1. /\ \A i \in 1..Len(taskQueue') : taskQueue'[i].task \in scheduled'
        /\ \A i, j \in 1..Len(taskQueue') : taskQueue'[i].task = taskQueue'[j].task => i = j
    <3>1. \A i \in 1..Len(taskQueue') : taskQueue'[i].task \in scheduled'
      BY <1>1 DEF IInv, Places, clients
    <3>2. ASSUME NEW i \in 1..Len(taskQueue'), NEW j \in 1..Len(taskQueue'), taskQueue'[i].task = taskQueue'[j].task
          PROVE  i + 1 = j + 1
      <4>1. i + 1 \in Qs /\ j + 1 \in Qs /\ taskQueue[i + 1].task = taskQueue[j + 1].task
        BY <1>1, <3>2
      <4>2. \A k, l \in Qs : taskQueue[k].task = taskQueue[l].task => k = l
        BY DEF IInv, Places, Qs
      <4> QED BY <4>1, <4>2
    <3> QED BY <3>1, <3>2
  <2>2. \A v \in Threads : /\ pc'[v] \in {"run", "insert"} => cur'[v].task \in scheduled'
                           /\ pc'[v] \notin {"run", "insert"} => cur'[v] = Idle
    BY <1>1, <2>0 DEF IInv, Places, clients
  <2>3. \A v \in Threads : v # th => cur[v].task # first.task
    BY <1>1 DEF IInv, Places
  <2>4. \A u, v \in Threads : cur'[u].task = cur'[v].task /\ cur'[u].task # NoTask => u = v
    BY <2>0, <2>3 DEF IInv, Places
  <2>5. \A i \in 1..Len(taskQueue') : first.task # taskQueue'[i].task
    BY <1>1 DEF IInv, Places
  <2>6. \A v \in Threads, i \in 1..Len(taskQueue') : cur'[v].task # taskQueue'[i].task
    BY <1>1, <2>0, <2>5 DEF IInv, Places
  <2> QED BY <2>1, <2>2, <2>4, <2>6 DEF Places, Qs
<1>7. Ends'
  <2>1. pc'[th] \notin {"none", "done"} /\ \A v \in Threads : pc'[v] = "done" => pc[v] = "done"
    BY <1>0, <1>2
  <2> QED BY <2>1 DEF IInv, Ends, clients
<1>8. Timely'
  <2>1. \A v \in Threads : (pc'[v] = "none" <=> pc[v] = "none") /\ (v # th => pc'[v] = pc[v])
    BY <1>0, <1>2
  <2>2. Alone' <=> Alone
    BY <2>1 DEF Alone
  <2> SUFFICES ASSUME Alone', NEW v \in Threads
               PROVE  /\ ref'[v] # Freed
                      /\ ref'[v] = NoTask
                      /\ pc'[v] = "run" => cur'[v].at <= now'
    BY DEF Timely
  <2>3. v # th => pc[v] = "none"
    BY <1>0, <2>2 DEF Alone
  <2>4. v # th => ref[v] = NoTask
    BY <2>2, <2>3 DEF IInv, Timely
  <2>5. ref'[v] = NoTask
    BY <1>2, <1>3, <2>4
  <2>6. first.at <= now
    <3>1. ref[th] # Freed /\ ref[th] # NoTask
      BY <2>2 DEF IInv, Timely, TimedOut
    <3>2. now >= until[th]
      BY <3>1 DEF TimedOut
    <3>3. first.at <= until[th]
      BY <1>1, <2>2, <3>1 DEF IInv, Timely
    <3>4. first.at \in Nat /\ until[th] \in Nat /\ now \in Nat
      BY <1>0, <1>3, EntryFacts
    <3> QED BY <3>2, <3>3, <3>4
  <2>7. v = th => cur'[v] = first
    BY <1>0, <1>2
  <2>8. pc'[v] = "run" => v = th
    BY <2>1, <2>3
  <2> QED BY <2>5, <2>6, <2>7, <2>8, NoTaskAssumption
<1> QED BY <1>4, <1>5, <1>6, <1>7, <1>8 DEF IInv

LEMMA ResumeKeeps ==
    ASSUME IInv, NEW th \in Threads, Resume(th)
    PROVE  IInv'
<1>0. UNCHANGED <<now, clients>> /\ (pc[th] = "woken" \/ Expired(th)) /\ nThreadsServicingQueue \in Nat
  BY ServingFacts DEF Resume, IInv, CountIsExact
<1>1. PICK timeout \in TimedOut(th) :
        IF timeout /\ ~ShouldStop /\ taskQueue # <<>>
        THEN Take(th) /\ UNCHANGED <<until, nThreadsServicingQueue>>
        ELSE Settle(th, nThreadsServicingQueue) /\ UNCHANGED <<taskQueue, cur>>
  BY DEF Resume
<1>2. CASE timeout /\ ~ShouldStop /\ taskQueue # <<>>
  <2>1. TRUE \in TimedOut(th)
    BY <1>2, NoTaskAssumption DEF TimedOut
  <2> QED BY <1>0, <1>1, <1>2, <2>1, TakeKeeps
<1>3. CASE ~(timeout /\ ~ShouldStop /\ taskQueue # <<>>)
  <2>1. pc[th] \in {"woken", "timed"}
    BY <1>0 DEF Expired
  <2>2. nThreadsServicingQueue = nThreadsServicingQueue + (IF pc[th] = "new" THEN 1 ELSE 0)
    BY <1>0, <2>1
  <2> QED BY <1>0, <1>1, <1>3, <2>1, <2>2, SettleKeeps
<1> QED BY <1>2, <1>3

LEMMA EnterRelockKeep ==
    ASSUME IInv, NEW th \in Threads, Enter(th) \/ Relock(th)
    PROVE  IInv'
<1>0. nThreadsServicingQueue \in Nat
  BY ServingFacts DEF IInv, CountIsExact
<1>1. CASE Enter(th)
  BY <1>1, SettleKeeps DEF Enter
<1>2. CASE Relock(th)
  <2>1. nThreadsServicingQueue = nThreadsServicingQueue + (IF pc[th] = "new" THEN 1 ELSE 0)
    BY <1>0, <1>2 DEF Relock
  <2> QED BY <1>2, <2>1, SettleKeeps DEF Relock
<1> QED BY <1>1, <1>2

LEMMA FinishKeeps ==
    ASSUME IInv, NEW th \in Threads, Finish(th)
    PROVE  IInv'
<1>0. /\ UNCHANGED <<now, taskQueue, ref, until, nThreadsServicingQueue, clients>>
      /\ pc \in [Threads -> ServicePC] /\ pc[th] = "run"
      /\ cur \in [Threads -> Entry \cup {Idle}] /\ cur[th].task \in scheduled
      /\ scheduled \subseteq Tasks /\ now \in Times
  BY DEF Finish, IInv, Types, Places
<1>1. PICK e \in Entry \cup {Idle}, q \in {"insert", "back"} :
        /\ cur' = [cur EXCEPT ![th] = e] /\ pc' = [pc EXCEPT ![th] = q]
        /\ q = "insert" => e.task = cur[th].task
        /\ q = "back" => e = Idle
  <2> DEFINE k == cur[th].task
             t == now + Period[k]
  <2>1. k \in Tasks /\ Period[k] \in Nat /\ t \in Nat
    BY <1>0, TimeAssumption, EntryFacts
  <2>2. CASE Period[k] > 0 /\ t <= MaxTime
    <3>1. [at |-> t, task |-> k] \in Entry
      BY <2>1, <2>2, TimeAssumption DEF Entry, Times
    <3>2. cur' = [cur EXCEPT ![th] = [at |-> t, task |-> k]] /\ pc' = [pc EXCEPT ![th] = "insert"]
      BY <2>2 DEF Finish
    <3> HIDE DEF t
    <3> QED BY <3>1, <3>2
  <2>3. CASE ~(Period[k] > 0 /\ t <= MaxTime)
    BY <2>3 DEF Finish
  <2> QED BY <2>2, <2>3
<1>2. Types'
  <2>1. pc' \in [Threads -> ServicePC] /\ cur' \in [Threads -> Entry \cup {Idle}]
    BY <1>0, <1>1 DEF ServicePC
  <2> QED BY <1>0, <2>1 DEF IInv, Types, clients
<1>3. CountIsExact'
  <2>1. Serving' = Serving
    BY <1>0, <1>1 DEF Serving
  <2> QED BY <1>0, <2>1 DEF IInv, CountIsExact
<1>4. Places'
  <2>0. /\ cur'[th] = e /\ pc'[th] = q
        /\ \A v \in Threads : v # th => cur'[v] = cur[v] /\ pc'[v] = pc[v]
    BY <1>0, <1>1
  <2>1. e.task = NoTask \/ e.task = cur[th].task
    BY <1>1, EntryFacts
  <2>2. \A v \in Threads : /\ pc'[v] \in {"run", "insert"} => cur'[v].task \in scheduled'
                           /\ pc'[v] \notin {"run", "insert"} => cur'[v] = Idle
    BY <1>0, <1>1, <2>0 DEF IInv, Places, clients
  <2>3. \A u, v \in Threads : cur'[u].task = cur'[v].task /\ cur'[u].task # NoTask => u = v
    BY <2>0, <2>1 DEF IInv, Places
  <2>4. \A v \in Threads, i \in Qs : cur'[v].task # taskQueue[i].task
    <3>1. \A i \in Qs : taskQueue[i].task # NoTask
      BY EntryFacts DEF IInv, Types, Qs
    <3> QED BY <2>0, <2>1, <3>1 DEF IInv, Places
  <2> QED BY <1>0, <2>2, <2>3, <2>4 DEF IInv, Places, Qs, clients
<1>5. Ends'
  <2>1. pc'[th] \notin {"none", "done"} /\ \A v \in Threads : pc'[v] = "done" => pc[v] = "done"
    BY <1>0, <1>1
  <2> QED BY <1>0, <2>1 DEF IInv, Ends, clients
<1>6. Timely'
  <2>1. \A v \in Threads : /\ pc'[v] = "none" <=> pc[v] = "none"
                           /\ pc'[v] = "run" => pc[v] = "run" /\ cur'[v] = cur[v]
    BY <1>0, <1>1
  <2>2. Alone' <=> Alone
    BY <2>1 DEF Alone
  <2> QED BY <1>0, <2>1, <2>2 DEF IInv, Timely
<1> QED BY <1>2, <1>3, <1>4, <1>5, <1>6 DEF IInv

\* What an insertion into the queue keeps, whoever holds the task
LEMMA InsertKeepsTimely ==
    ASSUME IInv, NEW t \in Times, NEW k \in Tasks, taskQueue' = Inserted(t, k),
           \A i \in Qs : taskQueue[i].task # k,
           UNCHANGED <<now, ref, until>>,
           \A v \in Threads : (pc'[v] = "none" <=> pc[v] = "none")
                              /\ (pc'[v] = "run" => pc[v] = "run" /\ cur'[v] = cur[v])
    PROVE  Timely'
<1>1. Alone' <=> Alone
  BY DEF Alone
<1>2. /\ taskQueue \in Seq(Entry) /\ taskQueue' \in Seq(Entry) /\ taskQueue' # <<>>
      /\ taskQueue # <<>> => taskQueue'[1].at <= taskQueue[1].at
  <2>1. /\ \A i \in Qs : taskQueue[i].task \in scheduled
        /\ \A i, j \in Qs : taskQueue[i].task = taskQueue[j].task => i = j
        /\ taskQueue \in Seq(Entry)
    BY DEF IInv, Places, Types
  <2> QED BY <2>1, InsertedPlaces
<1>3. taskQueue # <<>> => taskQueue'[1].at \in Nat /\ taskQueue[1].at \in Nat
  <2>1. taskQueue # <<>> => taskQueue'[1] \in Entry /\ taskQueue[1] \in Entry
    BY <1>2
  <2> QED BY <2>1, EntryFacts
<1>4. \A v \in Threads : until[v] \in Nat
  BY EntryFacts DEF IInv, Types
<1> QED BY <1>1, <1>2, <1>3, <1>4 DEF IInv, Timely

LEMMA ReinsertKeeps ==
    ASSUME IInv, NEW th \in Threads, Reinsert(th)
    PROVE  IInv'
<1> DEFINE k == cur[th].task
           t == cur[th].at
<1>0. /\ UNCHANGED <<now, ref, until, nThreadsServicingQueue, clients>>
      /\ pc \in [Threads -> ServicePC] /\ pc[th] = "insert" /\ pc' = [pc EXCEPT ![th] = "notify"]
      /\ cur \in [Threads -> Entry \cup {Idle}] /\ cur' = [cur EXCEPT ![th] = Idle]
      /\ scheduled \subseteq Tasks /\ taskQueue \in Seq(Entry)
      /\ taskQueue' = Inserted(t, k) /\ k \in scheduled
  BY DEF Reinsert, IInv, Types, Places
<1>1. k \in Tasks /\ t \in Times /\ k # NoTask
  <2>1. cur[th] # Idle
    BY <1>0, EntryFacts, NoTaskAssumption
  <2> QED BY <1>0, <2>1, EntryFacts
<1>2. /\ \A i \in Qs : taskQueue[i].task # k
      /\ \A i \in Qs : taskQueue[i].task \in scheduled
      /\ \A i, j \in Qs : taskQueue[i].task = taskQueue[j].task => i = j
  BY DEF IInv, Places
<1> HIDE DEF k, t
<1>3. /\ taskQueue' \in Seq(Entry)
      /\ \A i \in Qs' : taskQueue'[i].task \in scheduled \cup {k}
      /\ \A i, j \in Qs' : taskQueue'[i].task = taskQueue'[j].task => i = j
      /\ \A i \in Qs' : taskQueue'[i].task = k \/ \E j \in Qs : taskQueue'[i].task = taskQueue[j].task
  <2> DEFINE s == Inserted(t, k)
  <2>1. /\ s \in Seq(Entry)
        /\ \A i, j \in 1..Len(s) : s[i].task = s[j].task => i = j
        /\ \A i \in 1..Len(s) : s[i].task = k \/ \E j \in Qs : s[i].task = taskQueue[j].task
    BY <1>0, <1>1, <1>2, InsertedPlaces
  <2>2. taskQueue' = s /\ Qs' = 1..Len(s)
    BY <1>0 DEF Qs
  <2> HIDE DEF s
  <2>3. \A i \in Qs' : taskQueue'[i].task \in scheduled \cup {k}
    BY <1>2, <2>1, <2>2
  <2> QED BY <2>1, <2>2, <2>3
<1>4. Types'
  <2>1. pc' \in [Threads -> ServicePC] /\ cur' \in [Threads -> Entry \cup {Idle}]
    BY <1>0 DEF ServicePC
  <2> QED BY <1>0, <1>3, <2>1 DEF IInv, Types, clients
<1>5. CountIsExact'
  <2>1. Serving' = Serving
    BY <1>0 DEF Serving
  <2> QED BY <1>0, <2>1 DEF IInv, CountIsExact
<1>6. Places'
  <2>0. /\ cur'[th] = Idle /\ Idle.task = NoTask /\ pc'[th] = "notify"
        /\ \A v \in Threads : v # th => cur'[v] = cur[v] /\ pc'[v] = pc[v] /\ cur[v].task # k
    BY <1>0, <1>1, EntryFacts DEF IInv, Places, k
  <2>1. \A v \in Threads : /\ pc'[v] \in {"run", "insert"} => cur'[v].task \in scheduled'
                           /\ pc'[v] \notin {"run", "insert"} => cur'[v] = Idle
    BY <1>0, <2>0 DEF IInv, Places, clients
  <2>2. \A u, v \in Threads : cur'[u].task = cur'[v].task /\ cur'[u].task # NoTask => u = v
    BY <2>0 DEF IInv, Places
  <2>3. \A v \in Threads, i \in Qs' : cur'[v].task # taskQueue'[i].task
    <3>1. \A i \in Qs' : taskQueue'[i].task # NoTask
      BY <1>0, <1>3, NoTaskAssumption
    <3>2. \A v \in Threads, i \in Qs' : v # th => cur[v].task # taskQueue'[i].task
      BY <1>3, <2>0 DEF IInv, Places
    <3> QED BY <2>0, <3>1, <3>2
  <2>4. \A i \in Qs' : taskQueue'[i].task \in scheduled'
    BY <1>0, <1>3 DEF clients
  <2> QED BY <1>3, <2>1, <2>2, <2>3, <2>4 DEF Places
<1>7. Ends'
  <2>1. pc'[th] \notin {"none", "done"} /\ \A v \in Threads : pc'[v] = "done" => pc[v] = "done"
    BY <1>0
  <2> QED BY <1>0, <2>1 DEF IInv, Ends, clients
<1>8. Timely'
  <2>1. \A v \in Threads : (pc'[v] = "none" <=> pc[v] = "none")
                           /\ (pc'[v] = "run" => pc[v] = "run" /\ cur'[v] = cur[v])
    BY <1>0
  <2> QED BY <1>0, <1>1, <1>2, <2>1, InsertKeepsTimely
<1> QED BY <1>4, <1>5, <1>6, <1>7, <1>8 DEF IInv

LEMMA ScheduleKeeps ==
    ASSUME IInv, NEW k \in Tasks, NEW t \in Times, Schedule(k, t)
    PROVE  IInv'
<1>0. /\ UNCHANGED <<now, service, stopper, interrupted, stopRequested, stopWhenEmpty>>
      /\ k \notin scheduled /\ stopper = "up" /\ taskQueue' = Inserted(t, k)
      /\ scheduled' = scheduled \cup {k} /\ untold' = untold + 1
      /\ scheduled \subseteq Tasks /\ taskQueue \in Seq(Entry)
  BY DEF Schedule, IInv, Types
<1>2. /\ \A i \in Qs : taskQueue[i].task # k
      /\ \A i \in Qs : taskQueue[i].task \in scheduled
      /\ \A i, j \in Qs : taskQueue[i].task = taskQueue[j].task => i = j
  BY <1>0 DEF IInv, Places
<1>3. /\ taskQueue' \in Seq(Entry)
      /\ \A i \in Qs' : taskQueue'[i].task \in scheduled \cup {k}
      /\ \A i, j \in Qs' : taskQueue'[i].task = taskQueue'[j].task => i = j
      /\ \A i \in Qs' : taskQueue'[i].task = k \/ \E j \in Qs : taskQueue'[i].task = taskQueue[j].task
  <2> DEFINE s == Inserted(t, k)
  <2>1. /\ s \in Seq(Entry)
        /\ \A i, j \in 1..Len(s) : s[i].task = s[j].task => i = j
        /\ \A i \in 1..Len(s) : s[i].task = k \/ \E j \in Qs : s[i].task = taskQueue[j].task
    BY <1>0, <1>2, InsertedPlaces
  <2>2. taskQueue' = s /\ Qs' = 1..Len(s)
    BY <1>0 DEF Qs
  <2> HIDE DEF s
  <2>3. \A i \in Qs' : taskQueue'[i].task \in scheduled \cup {k}
    BY <1>2, <2>1, <2>2
  <2> QED BY <2>1, <2>2, <2>3
<1>4. Types'
  BY <1>0, <1>3 DEF IInv, Types, service
<1>5. CountIsExact'
  BY <1>0 DEF IInv, CountIsExact, Serving, service
<1>6. Places'
  <2>1. \A v \in Threads : cur[v].task # k
    BY <1>0, EntryFacts, NoTaskAssumption DEF IInv, Places
  <2>2. \A v \in Threads, i \in Qs' : cur[v].task # taskQueue'[i].task
    BY <1>3, <2>1 DEF IInv, Places
  <2> QED BY <1>0, <1>3, <2>2 DEF IInv, Places, service
<1>7. Ends'
  BY <1>0 DEF IInv, Ends, service
<1>8. Timely'
  BY <1>0, <1>2, InsertKeepsTimely DEF service
<1> QED BY <1>4, <1>5, <1>6, <1>7, <1>8 DEF IInv

LEMMA ThrowKeeps ==
    ASSUME IInv, NEW th \in Threads, Throw(th)
    PROVE  IInv'
<1>0. /\ UNCHANGED <<now, taskQueue, until, clients>>
      /\ pc \in [Threads -> ServicePC] /\ pc[th] \in {"wait", "timed", "woken", "run"}
      /\ pc' = [pc EXCEPT ![th] = "done"] /\ interrupted
      /\ cur \in [Threads -> Entry \cup {Idle}] /\ cur' = [cur EXCEPT ![th] = Idle]
      /\ ref \in [Threads -> Tasks \cup {NoTask, Freed}] /\ ref' = [ref EXCEPT ![th] = NoTask]
      /\ nThreadsServicingQueue' = nThreadsServicingQueue - 1
  BY DEF Throw, Uncounted, IInv, Types
<1>1. Types'
  <2>1. pc' \in [Threads -> ServicePC] /\ cur' \in [Threads -> Entry \cup {Idle}]
        /\ ref' \in [Threads -> Tasks \cup {NoTask, Freed}]
    BY <1>0 DEF ServicePC
  <2> QED BY <1>0, <2>1 DEF IInv, Types, clients
<1>2. CountIsExact'
  <2>1. th \in Serving /\ Serving' = Serving \ {th}
    BY <1>0 DEF Serving
  <2> QED BY <1>0, <2>1, CountDown DEF IInv
<1>3. Places'
  <2>0. /\ cur'[th] = Idle /\ Idle.task = NoTask /\ pc'[th] = "done"
        /\ \A v \in Threads : v # th => cur'[v] = cur[v] /\ pc'[v] = pc[v]
    BY <1>0, EntryFacts
  <2>1. \A i \in Qs : taskQueue[i].task # NoTask
    BY EntryFacts DEF IInv, Types, Qs
  <2>2. \A v \in Threads : /\ pc'[v] \in {"run", "insert"} => cur'[v].task \in scheduled'
                           /\ pc'[v] \notin {"run", "insert"} => cur'[v] = Idle
    BY <1>0, <2>0 DEF IInv, Places, clients
  <2>3. \A u, v \in Threads : cur'[u].task = cur'[v].task /\ cur'[u].task # NoTask => u = v
    BY <2>0 DEF IInv, Places
  <2>4. \A v \in Threads, i \in Qs : cur'[v].task # taskQueue[i].task
    BY <2>0, <2>1 DEF IInv, Places
  <2> QED BY <1>0, <2>2, <2>3, <2>4 DEF IInv, Places, Qs, clients
<1>4. Ends'
  BY <1>0 DEF IInv, Ends, clients
<1>5. Timely'
  <2>1. \A v \in Threads : /\ pc'[v] = "none" <=> pc[v] = "none"
                           /\ pc'[v] = "run" => pc[v] = "run" /\ cur'[v] = cur[v]
                           /\ v # th => ref'[v] = ref[v]
    BY <1>0
  <2>2. ref'[th] = NoTask
    BY <1>0
  <2>3. Alone' <=> Alone
    BY <2>1 DEF Alone
  <2> QED BY <1>0, <2>1, <2>2, <2>3, NoTaskAssumption DEF IInv, Timely
<1> QED BY <1>1, <1>2, <1>3, <1>4, <1>5 DEF IInv

-----------------------------------------------------------------------------
(* The inductive invariant and what follows from it *)

LEMMA InitIInv == Init => IInv
<1> SUFFICES ASSUME Init PROVE IInv
  OBVIOUS
<1> USE DEF Init
<1>0. taskQueue \in Seq(Entry) /\ Qs = {} /\ now \in Times /\ 0 \in Times
  BY TimeAssumption DEF Qs, Times
<1>1. Types
  <2>1. pc \in [Threads -> ServicePC] /\ cur \in [Threads -> Entry \cup {Idle}]
        /\ ref \in [Threads -> Tasks \cup {NoTask, Freed}] /\ until \in [Threads -> Times]
    BY <1>0 DEF ServicePC
  <2> QED BY <1>0, <2>1 DEF Types
<1>2. CountIsExact
  <2>1. Serving = {}
    BY DEF Serving
  <2> QED BY <2>1, FS_EmptySet DEF CountIsExact
<1>3. Places
  BY <1>0, EntryFacts DEF Places
<1>4. Ends
  BY DEF Ends
<1>5. Timely
  BY NoTaskAssumption DEF Timely
<1> QED BY <1>1, <1>2, <1>3, <1>4, <1>5 DEF IInv

LEMMA NextKeepsIInv == IInv /\ [Next]_vars => IInv'
<1> SUFFICES ASSUME IInv, [Next]_vars PROVE IInv'
  OBVIOUS
<1>1. ASSUME NEW th \in Threads, ServiceQueue(th) PROVE IInv'
  BY <1>1, EnterRelockKeep, ResumeKeeps, FinishKeeps, ReinsertKeeps, NotifyOtherKeeps DEF ServiceQueue
<1>2. ASSUME NEW th \in Threads, Throw(th) \/ SpuriousWakeup(th) PROVE IInv'
  BY <1>2, ThrowKeeps, SpuriousWakeupKeeps
<1>3. ASSUME NEW k \in Tasks, NEW t \in Times, Schedule(k, t) PROVE IInv'
  BY <1>3, ScheduleKeeps
<1>4. CASE (\E drain \in BOOLEAN : Stop(drain)) \/ InterruptAll
  BY <1>4, FlagsKeep
<1>5. CASE Notify \/ NotifyStop \/ Tick
  BY <1>5, NotifyKeeps, NotifyStopKeeps, TickKeeps
<1>6. CASE UNCHANGED vars
  <2> USE <1>6 DEF vars, service, clients
  <2>1. Types' /\ Ends'
    BY DEF IInv, Types, Ends
  <2>2. pc' \in [Threads -> ServicePC]
    BY <2>1 DEF Types
  <2> QED BY <2>1, <2>2, QuietKeeps DEF IInv
<1> QED BY <1>1, <1>2, <1>3, <1>4, <1>5, <1>6 DEF Next

LEMMA Inductive == Spec => []IInv
  BY InitIInv, NextKeepsIInv, PTL DEF Spec

\* A set with at most one element has a cardinality of 0 or 1.
LEMMA AtMostOne ==
    ASSUME NEW S, \A x, y \in S : x = y
    PROVE  Cardinality(S) = IF S = {} THEN 0 ELSE 1
<1>1. CASE S = {}
  BY <1>1, FS_EmptySet
<1>2. CASE S # {}
  <2>1. PICK x \in S : TRUE
    BY <1>2
  <2>2. S = {x}
    BY <2>1
  <2> QED BY <1>2, <2>2, FS_Singleton
<1> QED BY <1>1, <1>2

LEMMA IInvOneInstance == IInv => OneInstance
<1> SUFFICES ASSUME IInv, NEW k \in Tasks
             PROVE  Cardinality({i \in DOMAIN taskQueue : taskQueue[i].task = k})
                      + Cardinality({th \in Threads : cur[th].task = k}) <= 1
  BY DEF OneInstance
<1> DEFINE Q == {i \in DOMAIN taskQueue : taskQueue[i].task = k}
           T == {th \in Threads : cur[th].task = k}
<1>0. DOMAIN taskQueue = Qs /\ k # NoTask
  BY NoTaskAssumption DEF IInv, Types, Qs
<1>1. \A i, j \in Q : i = j
  BY <1>0 DEF IInv, Places
<1>2. \A u, v \in T : u = v
  BY <1>0 DEF IInv, Places
<1>3. Q = {} \/ T = {}
  BY <1>0 DEF IInv, Places
<1> HIDE DEF Q, T
<1>4. Cardinality(Q) = (IF Q = {} THEN 0 ELSE 1) /\ Cardinality(T) = (IF T = {} THEN 0 ELSE 1)
  BY <1>1, <1>2, AtMostOne
<1>5. Cardinality(Q) + Cardinality(T) <= 1
  BY <1>3, <1>4
<1> QED BY <1>5 DEF Q, T

\* nThreadsServicingQueue is the number of threads in serviceQueue, through stops,
\* drains and exceptions, so that the assertion of ~CScheduler holds once they are
\* joined; and a task is in one place of taskQueue or in one thread, never in two:
\* Repeat, which is scheduled again by the thread that ran it, never overlaps itself.
THEOREM AccountsStayExact == Spec => []AccountsExact
<1>1. IInv => AccountsExact
  <2> SUFFICES ASSUME IInv PROVE AccountsExact
    OBVIOUS
  <2>1. nThreadsServicingQueue \in 0..Cardinality(Threads)
    BY ServingFacts DEF IInv, CountIsExact
  <2>2. TypeOK
    BY <2>1 DEF IInv, Types, TypeOK
  <2> QED BY <2>2, IInvOneInstance DEF AccountsExact, IInv
<1> QED BY <1>1, Inductive, PTL

\* stop(true): when the last service thread has ended after a drain, without a
\* stop(false) or an interruption, taskQueue is empty, whatever tasks were put back
\* by Repeat while the drain went on.
THEOREM DrainIsComplete == Spec => []DrainLeavesNothing
<1>1. IInv => DrainLeavesNothing
  BY DEF IInv, Ends, DrainLeavesNothing
<1> QED BY <1>1, Inductive, PTL

\* The single thread that AppInit2 creates never calls a task before the time it
\* was scheduled for: the reference it waits with does not dangle, and a task
\* inserted before the first one is even earlier than the time waited for.
THEOREM NeverEarly == Spec => []NotBeforeItsTime
<1>1. IInv => NotBeforeItsTime
  <2> SUFFICES ASSUME IInv, Cardinality({th \in Threads : pc[th] # "none"}) <= 1
               PROVE  \A th \in Threads : pc[th] = "run" => cur[th].at <= now
    BY DEF NotBeforeItsTime
  <2>1. Alone
    <3> SUFFICES ASSUME NEW u \in Threads, NEW v \in Threads, pc[u] # "none", pc[v] # "none", u # v
                 PROVE  FALSE
      BY DEF Alone
    <3> DEFINE S == {th \in Threads : pc[th] # "none"}
    <3>1. IsFiniteSet(S) /\ {u, v} \in SUBSET S
      BY ThreadsAssumption, FS_Subset
    <3>2. Cardinality({u, v}) = 2
      <4>1. IsFiniteSet({u}) /\ Cardinality({u}) = 1
        BY FS_Singleton
      <4>2. Cardinality({u} \cup {v}) = Cardinality({u}) + 1
        BY <4>1, FS_AddElement
      <4>3. {u, v} = {u} \cup {v}
        OBVIOUS
      <4> QED BY <4>1, <4>2, <4>3
    <3> HIDE DEF S
    <3>3. Cardinality({u, v}) <= Cardinality(S) /\ Cardinality(S) \in Nat
      BY <3>1, FS_Subset, FS_CardinalityType
    <3> QED BY <3>2, <3>3 DEF S
  <2> QED BY <2>1 DEF IInv, Timely
<1> QED BY <1>1, Inductive, PTL
=============================================================================
