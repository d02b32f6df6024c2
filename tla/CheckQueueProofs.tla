-------------------------- MODULE CheckQueueProofs --------------------------
(***************************************************************************)
(* The check queue for any number of workers, checks and blocks: the         *)
(* counters are accurate, a new control always finds the queue idle, and     *)
(* Wait returns the conjunction of the block's checks.                       *)
(*                                                                           *)
(* Every critical section that works on the queue ends with LoopBody.  The   *)
(* proof describes the state in which LoopBody is entered, with the running  *)
(* thread t counted as neither idle nor busy (Between), shows that LoopBody  *)
(* leads from there to the invariant, and that each action establishes it.   *)
(***************************************************************************)
EXTENDS CheckQueue, FiniteSetTheorems, TLAPS

Busy(p) == {u \in Threads : p[u] = "exec"}
Idle(p) == {u \in Threads : p[u] \in {"wait", "woken"}}

\* What is pending outside the hands of t
Others(t) == queue \cup UNION {vChecks[u] : u \in Threads \ {t}}

Shape ==
    /\ queue \in SUBSET Checks
    /\ nIdle \in Int /\ nTotal \in Int /\ nTodo \in Int
    /\ fAllOk \in BOOLEAN
    /\ pc \in [Threads -> PC]
    /\ vChecks \in [Threads -> SUBSET Checks]
    /\ fOk \in [Threads -> BOOLEAN]
    /\ intr \in [Threads -> BOOLEAN]
    /\ added \in SUBSET Checks
    /\ fRet \in BOOLEAN
    /\ sessions \in Nat

Disjoint ==
    /\ \A t \in Threads : vChecks[t] \cap queue = {}
    /\ \A t, u \in Threads : t # u => vChecks[t] \cap vChecks[u] = {}

\* The part of the invariant about the block being verified
InBlock ==
    /\ fAllOk <=> (added \ Pending) \cap BadChecks = {}
    /\ \A t \in Threads : pc[t] = "exec" /\ ~fOk[t] => ~fAllOk

IInv ==
    /\ Shape
    /\ Disjoint
    /\ \A t \in Threads : pc[t] = "exec" <=> vChecks[t] # {}
    /\ nTotal = nIdle + Cardinality(Busy(pc))
    /\ nIdle >= Cardinality(Idle(pc))
    /\ nTodo = Cardinality(Pending)
    /\ Pending \subseteq added
    /\ pc[Master] # "out" => InBlock
    /\ pc[Master] = "out" => /\ fAllOk /\ Pending = {}
                             /\ fRet <=> added \cap BadChecks = {}

\* The state in which t runs LoopBody
Between(t, total, idle, todo, ok, pcs) ==
    /\ total \in Int /\ idle \in Int /\ todo \in Int /\ ok \in BOOLEAN
    /\ pcs \in [Threads -> PC]
    /\ \A u \in Threads \ {t} : pcs[u] = "exec" <=> vChecks[u] # {}
    /\ total = idle + Cardinality(Busy(pcs) \ {t}) + 1
    /\ idle >= Cardinality(Idle(pcs) \ {t})
    /\ todo = Cardinality(Others(t))
    /\ Others(t) \subseteq added
    /\ pcs[Master] # "out" =>
          /\ ok <=> (added \ Others(t)) \cap BadChecks = {}
          /\ \A u \in Threads \ {t} : pcs[u] = "exec" /\ ~fOk[u] => ~ok
    /\ pcs[Master] = "out" =>
          /\ t # Master /\ ok /\ Others(t) = {}
          /\ fRet <=> added \cap BadChecks = {}

LEMMA FiniteThreads == IsFiniteSet(Threads)
BY WorkersAssumption, FS_AddElement DEF Threads

LEMMA FiniteParts ==
    ASSUME Shape
    PROVE  /\ \A S \in SUBSET Checks : IsFiniteSet(S) /\ Cardinality(S) \in Nat
           /\ \A S \in SUBSET Threads : IsFiniteSet(S) /\ Cardinality(S) \in Nat
           /\ Pending \in SUBSET Checks
           /\ \A t : Others(t) \in SUBSET Checks
<1>1. \A S \in SUBSET Checks : IsFiniteSet(S) /\ Cardinality(S) \in Nat
  BY ChecksAssumption, FS_Subset, FS_CardinalityType
<1>2. \A S \in SUBSET Threads : IsFiniteSet(S) /\ Cardinality(S) \in Nat
  BY FiniteThreads, FS_Subset, FS_CardinalityType
<1>3. Pending \in SUBSET Checks
  BY DEF Shape, Pending
<1>4. \A t : Others(t) \in SUBSET Checks
  BY DEF Shape, Others
<1> QED BY <1>1, <1>2, <1>3, <1>4

LEMMA BatchNotEmpty ==
    ASSUME NEW total \in Int, NEW idle \in Int, total > 0, idle >= 0, Shape,
           NEW S \in kSubset(BatchLength(total, idle), queue)
    PROVE  S # {} /\ S \subseteq queue
<1>1. Cardinality(queue) \in Nat
  BY FiniteParts DEF Shape
<1>2. Cardinality(queue) \div (total + idle + 1) \in Int
  BY <1>1
<1>3. BatchLength(total, idle) \in Int /\ BatchLength(total, idle) >= 1
  BY <1>2, BatchAssumption DEF BatchLength
<1>4. Cardinality(S) = BatchLength(total, idle) /\ S \subseteq queue
  BY DEF kSubset
<1>5. Cardinality({}) = 0
  BY FS_EmptySet
<1> QED BY <1>3, <1>4, <1>5

\* LoopBody leads from the state Between to the invariant.
LEMMA LoopBodyInv ==
    ASSUME NEW t \in Threads, NEW total, NEW idle, NEW todo, NEW ok, NEW pcs,
           Shape, Disjoint, Between(t, total, idle, todo, ok, pcs),
           LoopBody(t, total, idle, todo, ok, pcs), UNCHANGED intr
    PROVE  IInv'
<1> USE DEF Between
<1>0. /\ Busy(pcs) \ {t} \in SUBSET Threads /\ Idle(pcs) \ {t} \in SUBSET Threads
      /\ IsFiniteSet(Busy(pcs) \ {t}) /\ Cardinality(Busy(pcs) \ {t}) \in Nat
      /\ IsFiniteSet(Idle(pcs) \ {t}) /\ Cardinality(Idle(pcs) \ {t}) \in Nat
  BY FiniteParts DEF Busy, Idle
<1>01. /\ total \in Int /\ idle \in Int
       /\ total = idle + Cardinality(Busy(pcs) \ {t}) + 1
       /\ idle >= Cardinality(Idle(pcs) \ {t})
  OBVIOUS
<1>1. added' = added /\ sessions' = sessions /\ intr' = intr /\ nTodo' = todo
  BY DEF LoopBody
<1>2. CASE queue = {} /\ CanReturn(t, todo) /\ nIdle' = idle /\ Return(t, total, ok, pcs)
  <2>1. t = Master /\ todo = 0
    BY <1>2 DEF CanReturn
  <2>2. /\ queue' = {} /\ fOk' = fOk /\ nIdle' = idle /\ nTotal' = total - 1
        /\ fAllOk' = TRUE /\ fRet' = ok
        /\ pc' = [pcs EXCEPT ![t] = "out"] /\ vChecks' = [vChecks EXCEPT ![t] = {}]
    BY <1>2 DEF Return
  <2>3. Others(t) = {}
    BY <2>1, FiniteParts, FS_EmptySet
  <2>4. Pending' = {}
    BY <2>2, <2>3 DEF Pending, Others, Shape
  <2>5. Busy(pc') = Busy(pcs) \ {t} /\ Idle(pc') = Idle(pcs) \ {t}
    BY <2>2 DEF Busy, Idle
  <2>6. Shape'
    BY <1>1, <2>2 DEF Shape, PC
  <2>7. Disjoint'
    BY <2>2 DEF Disjoint, Shape
  <2>8. \A u \in Threads : pc'[u] = "exec" <=> vChecks'[u] # {}
    BY <2>2 DEF Shape
  <2>9. nTodo' = Cardinality(Pending')
    BY <1>1, <2>1, <2>4, FS_EmptySet
  <2>10. nTotal' = nIdle' + Cardinality(Busy(pc')) /\ nIdle' >= Cardinality(Idle(pc'))
    <3> HIDE DEF Between
    <3>1. /\ Cardinality(Busy(pc')) = Cardinality(Busy(pcs) \ {t})
          /\ Cardinality(Idle(pc')) = Cardinality(Idle(pcs) \ {t})
      BY <2>5
    <3> QED BY <1>0, <1>01, <2>2, <3>1
  <2>11. pc'[Master] = "out"
    BY <2>1, <2>2
  <2>12. fAllOk' /\ (fRet' <=> added' \cap BadChecks = {})
    <3>1. pcs[Master] # "out"
      BY <2>1
    <3>2. ok <=> (added \ Others(t)) \cap BadChecks = {}
      BY <3>1
    <3>3. added \ Others(t) = added
      BY <2>3
    <3> QED BY <1>1, <2>2, <3>2, <3>3
  <2> QED BY <2>4, <2>6, <2>7, <2>8, <2>9, <2>10, <2>11, <2>12 DEF IInv
<1>31. pcs[Master] = "out" => t # Master
  OBVIOUS
<1>3. CASE queue = {} /\ GoIdle(t, total, idle, ok, pcs)
  <2>2. /\ queue' = {} /\ fOk' = fOk /\ nIdle' = idle + 1 /\ nTotal' = total
        /\ fAllOk' = ok /\ fRet' = fRet
        /\ pc' = [pcs EXCEPT ![t] = "wait"] /\ vChecks' = [vChecks EXCEPT ![t] = {}]
    BY <1>3 DEF GoIdle
  <2>4. Pending' = Others(t)
    BY <1>3, <2>2 DEF Pending, Others, Shape
  <2>5. Busy(pc') = Busy(pcs) \ {t} /\ Idle(pc') = (Idle(pcs) \ {t}) \cup {t}
    BY <2>2 DEF Busy, Idle
  <2>51. /\ Cardinality(Idle(pc')) = Cardinality(Idle(pcs) \ {t}) + 1
         /\ Cardinality(Busy(pc')) = Cardinality(Busy(pcs) \ {t})
    <3> HIDE DEF Between
    <3> QED BY <1>0, <2>5, FS_AddElement
  <2>6. Shape'
    BY <1>1, <2>2 DEF Shape, PC
  <2>7. Disjoint'
    BY <2>2 DEF Disjoint, Shape
  <2>8. \A u \in Threads : pc'[u] = "exec" <=> vChecks'[u] # {}
    BY <2>2 DEF Shape
  <2>9. nTodo' = Cardinality(Pending') /\ Pending' \subseteq added'
    BY <1>1, <2>4
  <2>10. nTotal' = nIdle' + Cardinality(Busy(pc')) /\ nIdle' >= Cardinality(Idle(pc'))
    <3> HIDE DEF Between
    <3> QED BY <1>0, <1>01, <2>2, <2>51
  <2>11. pc'[Master] # "out" => InBlock'
    <3> SUFFICES ASSUME pc'[Master] # "out" PROVE InBlock'
      OBVIOUS
    <3>1. pcs[Master] # "out"
      BY <1>31, <2>2 DEF Threads
    <3> QED BY <1>1, <2>2, <2>4, <3>1 DEF InBlock, Shape
  <2>12. pc'[Master] = "out" => /\ fAllOk' /\ Pending' = {}
                                /\ fRet' <=> added' \cap BadChecks = {}
    <3>1. pc'[Master] = "out" => pcs[Master] = "out"
      BY <2>2 DEF Threads
    <3> QED BY <1>1, <2>2, <2>4, <3>1
  <2> QED BY <2>6, <2>7, <2>8, <2>9, <2>10, <2>11, <2>12 DEF IInv
<1>4. CASE queue # {} /\ TakeBatch(t, total, idle, ok, pcs)
  <2>1. PICK S \in kSubset(BatchLength(total, idle), queue) :
            queue' = queue \ S /\ vChecks' = [vChecks EXCEPT ![t] = S]
    BY <1>4 DEF TakeBatch
  <2>2. /\ fOk' = [fOk EXCEPT ![t] = ok] /\ nIdle' = idle /\ nTotal' = total
        /\ fAllOk' = ok /\ fRet' = fRet /\ pc' = [pcs EXCEPT ![t] = "exec"]
    BY <1>4 DEF TakeBatch
  <2>3. S # {} /\ S \subseteq queue
    BY <1>0, BatchNotEmpty
  <2>4. Pending' = Others(t)
    BY <2>1, <2>3 DEF Pending, Others, Shape
  <2>5. Busy(pc') = (Busy(pcs) \ {t}) \cup {t} /\ Idle(pc') = Idle(pcs) \ {t}
    BY <2>2 DEF Busy, Idle
  <2>51. /\ Cardinality(Busy(pc')) = Cardinality(Busy(pcs) \ {t}) + 1
         /\ Cardinality(Idle(pc')) = Cardinality(Idle(pcs) \ {t})
    <3> HIDE DEF Between
    <3> QED BY <1>0, <2>5, FS_AddElement
  <2>6. Shape'
    BY <1>1, <2>1, <2>2, <2>3 DEF Shape, PC
  <2>7. Disjoint'
    BY <2>1, <2>3 DEF Disjoint, Shape
  <2>8. \A u \in Threads : pc'[u] = "exec" <=> vChecks'[u] # {}
    BY <2>1, <2>2, <2>3 DEF Shape
  <2>9. nTodo' = Cardinality(Pending') /\ Pending' \subseteq added'
    BY <1>1, <2>4
  <2>10. nTotal' = nIdle' + Cardinality(Busy(pc')) /\ nIdle' >= Cardinality(Idle(pc'))
    <3> HIDE DEF Between
    <3> QED BY <1>0, <1>01, <2>2, <2>51
  <2>11. pc'[Master] # "out"
    BY <1>4, <2>2 DEF Threads, Others
  <2>12. InBlock'
    <3>1. pcs[Master] # "out"
      BY <1>4 DEF Others
    <3> QED BY <1>1, <2>2, <2>4, <3>1 DEF InBlock, Shape
  <2> QED BY <2>6, <2>7, <2>8, <2>9, <2>10, <2>11, <2>12 DEF IInv
<1> QED BY <1>2, <1>3, <1>4 DEF LoopBody

\* Between for a thread t that holds no batch: it enters Loop or wakes up.
LEMMA BetweenIdle ==
    ASSUME NEW t \in Threads, IInv, pc[t] # "exec", pc[t] # "out",
           NEW total \in Int, NEW idle \in Int,
           total = idle + Cardinality(Busy(pc)) + 1,
           idle >= Cardinality(Idle(pc) \ {t})
    PROVE  Between(t, total, idle, nTodo, fAllOk, pc)
<1>1. vChecks[t] = {}
  BY DEF IInv
<1>2. Others(t) = Pending
  BY <1>1 DEF Others, Pending
<1>3. Busy(pc) \ {t} = Busy(pc)
  BY DEF Busy
<1>4. Cardinality(Busy(pc) \ {t}) = Cardinality(Busy(pc))
  BY <1>3
<1>5. total = idle + Cardinality(Busy(pc) \ {t}) + 1
  BY <1>4
<1>6. /\ nTodo \in Int /\ fAllOk \in BOOLEAN /\ pc \in [Threads -> PC]
      /\ \A u \in Threads : pc[u] = "exec" <=> vChecks[u] # {}
      /\ nTodo = Cardinality(Pending) /\ Pending \subseteq added
      /\ pc[Master] # "out" => InBlock
      /\ pc[Master] = "out" => /\ fAllOk /\ Pending = {}
                               /\ fRet <=> added \cap BadChecks = {}
  BY DEF IInv, Shape
<1>7. /\ nTodo = Cardinality(Others(t)) /\ Others(t) \subseteq added
  BY <1>2, <1>6
<1>8. pc[Master] # "out" =>
          /\ fAllOk <=> (added \ Others(t)) \cap BadChecks = {}
          /\ \A u \in Threads \ {t} : pc[u] = "exec" /\ ~fOk[u] => ~fAllOk
  BY <1>2, <1>6 DEF InBlock
<1>9. pc[Master] = "out" =>
          /\ t # Master /\ fAllOk /\ Others(t) = {}
          /\ fRet <=> added \cap BadChecks = {}
  BY <1>2, <1>6
<1> QED BY <1>5, <1>6, <1>7, <1>8, <1>9 DEF Between

\* Facts about the counters in numbers only
LEMMA Counters ==
    ASSUME IInv
    PROVE  /\ nTotal \in Int /\ nIdle \in Int
           /\ Cardinality(Busy(pc)) \in Nat /\ Cardinality(Idle(pc)) \in Nat
           /\ IsFiniteSet(Busy(pc)) /\ IsFiniteSet(Idle(pc))
           /\ nTotal = nIdle + Cardinality(Busy(pc))
           /\ nIdle >= Cardinality(Idle(pc))
<1>1. Busy(pc) \in SUBSET Threads /\ Idle(pc) \in SUBSET Threads
  BY DEF Busy, Idle
<1> QED BY <1>1, FiniteParts DEF IInv, Shape

LEMMA EnterInv ==
    ASSUME NEW t \in Threads, IInv, Enter(t)
    PROVE  IInv'
<1>1. /\ pc[t] \in {"ready", "unwind"} /\ UNCHANGED intr
      /\ LoopBody(t, nTotal + 1, nIdle, nTodo, fAllOk, pc)
  BY DEF Enter
<1>2. Idle(pc) \ {t} = Idle(pc)
  BY <1>1 DEF Idle
<1>3. nIdle >= Cardinality(Idle(pc) \ {t})
  BY <1>2, Counters
<1>4. nTotal + 1 \in Int /\ nIdle \in Int /\ nTotal + 1 = nIdle + Cardinality(Busy(pc)) + 1
  BY Counters
<1>5. pc[t] # "exec" /\ pc[t] # "out"
  BY <1>1
<1>6. Between(t, nTotal + 1, nIdle, nTodo, fAllOk, pc)
  BY <1>3, <1>4, <1>5, BetweenIdle
<1>7. Shape /\ Disjoint
  BY DEF IInv
<1> QED BY <1>1, <1>6, <1>7, LoopBodyInv

LEMMA WakeInv ==
    ASSUME NEW t \in Threads, IInv, Wake(t)
    PROVE  IInv'
<1>1. /\ pc[t] = "woken" /\ UNCHANGED intr
      /\ LoopBody(t, nTotal, nIdle - 1, nTodo, fAllOk, pc)
  BY DEF Wake
<1>2. t \in Idle(pc)
  BY <1>1 DEF Idle
<1>3. Cardinality(Idle(pc) \ {t}) = Cardinality(Idle(pc)) - 1
  BY <1>2, Counters, FS_RemoveElement
<1>4. /\ nTotal \in Int /\ nIdle - 1 \in Int
      /\ nTotal = (nIdle - 1) + Cardinality(Busy(pc)) + 1
      /\ nIdle - 1 >= Cardinality(Idle(pc) \ {t})
  BY <1>3, Counters
<1>5. pc[t] # "exec" /\ pc[t] # "out"
  BY <1>1
<1>6. Between(t, nTotal, nIdle - 1, nTodo, fAllOk, pc)
  BY <1>4, <1>5, BetweenIdle
<1>7. Shape /\ Disjoint
  BY DEF IInv
<1> QED BY <1>1, <1>6, <1>7, LoopBodyInv

LEMMA FinishInv ==
    ASSUME NEW t \in Threads, IInv, Finish(t)
    PROVE  IInv'
<1> DEFINE pcs == NotifyMaster(t, Remaining(t))
<1>1. /\ pc[t] = "exec" /\ UNCHANGED intr
      /\ LoopBody(t, nTotal, nIdle, Remaining(t), Verdict(t), pcs)
  BY DEF Finish
<1>2. pc[Master] # "out"
  BY <1>1 DEF IInv, Pending
<1>3. /\ Others(t) = Pending \ vChecks[t] /\ vChecks[t] \subseteq Pending
  BY DEF IInv, Disjoint, Others, Pending
<1>4. Remaining(t) = Cardinality(Others(t)) /\ Remaining(t) \in Int
  <2>1. IsFiniteSet(Pending) /\ IsFiniteSet(vChecks[t])
    BY FiniteParts DEF IInv, Shape
  <2>2. Cardinality(Pending \ vChecks[t]) = Cardinality(Pending) - Cardinality(Pending \cap vChecks[t])
    BY <2>1, FS_Difference
  <2>3. Pending \cap vChecks[t] = vChecks[t]
    BY <1>3
  <2>4. Cardinality(Pending) \in Nat /\ Cardinality(vChecks[t]) \in Nat
    BY <2>1, FS_CardinalityType
  <2>5. Cardinality(Pending \cap vChecks[t]) = Cardinality(vChecks[t])
    BY <2>3
  <2>6. Cardinality(Others(t)) = Cardinality(Pending \ vChecks[t])
    BY <1>3
  <2>7. nTodo = Cardinality(Pending)
    BY DEF IInv
  <2> QED BY <2>2, <2>4, <2>5, <2>6, <2>7 DEF Remaining
<1>5. /\ pcs \in [Threads -> PC] /\ Busy(pcs) = Busy(pc) /\ Idle(pcs) = Idle(pc)
      /\ pcs[Master] # "out"
      /\ \A u \in Threads : pcs[u] = "exec" <=> pc[u] = "exec"
  BY <1>2 DEF NotifyMaster, IInv, Shape, Busy, Idle, PC, Threads
<1>6. /\ Cardinality(Busy(pc)) = Cardinality(Busy(pc) \ {t}) + 1
      /\ Cardinality(Busy(pc) \ {t}) \in Nat
      /\ Cardinality(Idle(pc) \ {t}) = Cardinality(Idle(pc))
  <2>1. t \in Busy(pc) /\ Idle(pc) \ {t} = Idle(pc)
    BY <1>1 DEF Busy, Idle
  <2>2. IsFiniteSet(Busy(pc) \ {t}) /\ Cardinality(Busy(pc) \ {t}) = Cardinality(Busy(pc)) - 1
    BY <2>1, Counters, FS_RemoveElement
  <2>3. Cardinality(Busy(pc) \ {t}) \in Nat
    BY <2>2, FS_CardinalityType
  <2>4. Cardinality(Idle(pc) \ {t}) = Cardinality(Idle(pc))
    BY <2>1
  <2> QED BY <2>2, <2>3, <2>4, Counters
<1>7. Verdict(t) <=> (added \ Others(t)) \cap BadChecks = {}
  <2>1. added \ Others(t) = (added \ Pending) \cup vChecks[t]
    BY <1>3 DEF IInv
  <2>2. fAllOk <=> (added \ Pending) \cap BadChecks = {}
    BY <1>2 DEF IInv, InBlock
  <2>3. ~fOk[t] => ~fAllOk
    BY <1>1, <1>2 DEF IInv, InBlock
  <2> QED BY <2>1, <2>2, <2>3 DEF Verdict
<1>8. Verdict(t) \in BOOLEAN /\ (Verdict(t) => fAllOk)
  BY DEF Verdict
<1>9. \A u \in Threads \ {t} : pcs[u] = "exec" /\ ~fOk[u] => ~Verdict(t)
  BY <1>2, <1>5, <1>8 DEF IInv, InBlock
<1>10. Between(t, nTotal, nIdle, Remaining(t), Verdict(t), pcs)
  <2>1. Others(t) \subseteq added
    BY <1>3 DEF IInv
  <2>2. \A u \in Threads \ {t} : pcs[u] = "exec" <=> vChecks[u] # {}
    BY <1>5 DEF IInv
  <2> HIDE DEF pcs
  <2>3. /\ Cardinality(Busy(pcs) \ {t}) = Cardinality(Busy(pc) \ {t})
        /\ Cardinality(Idle(pcs) \ {t}) = Cardinality(Idle(pc) \ {t})
    BY <1>5
  <2>4. /\ nTotal \in Int /\ nIdle \in Int
        /\ nTotal = nIdle + Cardinality(Busy(pcs) \ {t}) + 1
        /\ nIdle >= Cardinality(Idle(pcs) \ {t})
    BY <1>6, <2>3, Counters
  <2> QED BY <1>4, <1>5, <1>7, <1>8, <1>9, <2>1, <2>2, <2>4 DEF Between
<1> HIDE DEF pcs
<1> QED BY <1>1, <1>10, LoopBodyInv DEF IInv

LEMMA InitInv == Init => IInv
<1> SUFFICES ASSUME Init PROVE IInv
  OBVIOUS
<1>1. Shape
  BY DEF Init, Shape, PC
<1>2. Pending = {} /\ Busy(pc) = {} /\ Idle(pc) = {}
  BY DEF Init, Pending, Busy, Idle
<1>3. Cardinality(Pending) = 0 /\ Cardinality(Busy(pc)) = 0 /\ Cardinality(Idle(pc)) = 0
  BY <1>2, FS_EmptySet
<1>4. nTotal = 0 /\ nIdle = 0 /\ nTodo = 0 /\ fAllOk /\ fRet /\ added = {}
  BY DEF Init
<1>5. Disjoint /\ (\A t \in Threads : pc[t] = "exec" <=> vChecks[t] # {})
  BY DEF Init, Disjoint
<1>6. pc[Master] = "out"
  BY DEF Init, Threads
<1> QED BY <1>1, <1>2, <1>3, <1>4, <1>5, <1>6 DEF IInv

LEMMA ConstructInv ==
    ASSUME IInv, Construct
    PROVE  IInv'
<1>1. /\ pc[Master] = "out" /\ sessions' = sessions + 1 /\ added' = {}
      /\ pc' = [pc EXCEPT ![Master] = "ready"]
      /\ UNCHANGED <<queue, nIdle, nTotal, fAllOk, nTodo, vChecks, fOk, intr, fRet>>
  BY DEF Construct
<1>2. Shape'
  <2>1. Shape
    BY DEF IInv
  <2>2. sessions' \in Nat
    BY <1>1, <2>1 DEF Shape
  <2>3. pc' \in [Threads -> PC]
    BY <1>1, <2>1 DEF Shape, PC
  <2> QED BY <1>1, <2>1, <2>2, <2>3 DEF Shape
<1>3. Disjoint'
  BY <1>1 DEF IInv, Disjoint
<1>4. Pending' = Pending /\ Pending = {} /\ fAllOk
  BY <1>1 DEF IInv, Pending
<1>5. Busy(pc') = Busy(pc) /\ Idle(pc') = Idle(pc)
  BY <1>1 DEF Busy, Idle, IInv, Shape
<1>6. nTotal' = nIdle' + Cardinality(Busy(pc')) /\ nIdle' >= Cardinality(Idle(pc'))
  BY <1>1, <1>5, Counters
<1>7. \A t \in Threads : pc'[t] = "exec" <=> vChecks'[t] # {}
  BY <1>1 DEF IInv, Shape
<1>8. nTodo' = Cardinality(Pending') /\ Pending' \subseteq added'
  BY <1>1, <1>4 DEF IInv
<1>9. \A t \in Threads : pc'[t] # "exec"
  BY <1>1, <1>4, <1>7 DEF Pending
<1>10. InBlock'
  BY <1>1, <1>4, <1>9 DEF InBlock
<1>11. pc'[Master] # "out"
  BY <1>1 DEF IInv, Shape, Threads
<1> QED BY <1>2, <1>3, <1>6, <1>7, <1>8, <1>10, <1>11 DEF IInv

LEMMA AddInv ==
    ASSUME IInv, NEW V \in SUBSET (Checks \ added), Add(V)
    PROVE  IInv'
<1>1. /\ pc[Master] = "ready" /\ queue' = queue \cup V /\ added' = added \cup V
      /\ nTodo' = nTodo + Cardinality(V)
      /\ UNCHANGED <<nIdle, nTotal, fAllOk, vChecks, fOk, intr, fRet, sessions>>
  BY DEF Add
<1>2. PICK N \in SUBSET {w \in Workers : pc[w] = "wait"} :
          pc' = [t \in Threads |-> IF t \in N THEN "woken" ELSE pc[t]]
  BY DEF Add
<1>3. Shape'
  BY <1>1, <1>2 DEF IInv, Shape, PC
<1>4. Pending' = Pending \cup V /\ Pending \subseteq added /\ Pending \cap V = {}
  BY <1>1 DEF IInv, Pending
<1>5. Disjoint'
  BY <1>1, <1>4 DEF IInv, Disjoint, Pending
<1>6. Busy(pc') = Busy(pc) /\ Idle(pc') = Idle(pc)
  BY <1>2 DEF Busy, Idle
<1>7. nTotal' = nIdle' + Cardinality(Busy(pc')) /\ nIdle' >= Cardinality(Idle(pc'))
  BY <1>1, <1>6, Counters
<1>8. \A t \in Threads : pc'[t] = "exec" <=> pc[t] = "exec"
  BY <1>2
<1>9. \A t \in Threads : pc'[t] = "exec" <=> vChecks'[t] # {}
  BY <1>1, <1>8 DEF IInv
<1>10. nTodo' = Cardinality(Pending')
  <2>1. IsFiniteSet(Pending) /\ IsFiniteSet(V)
    BY FiniteParts DEF IInv
  <2>2. Cardinality(Pending \cup V) =
          Cardinality(Pending) + Cardinality(V) - Cardinality(Pending \cap V)
    BY <2>1, FS_Union
  <2>3. Cardinality(Pending \cap V) = 0
    BY <1>4, FS_EmptySet
  <2>4. Cardinality(Pending) \in Nat /\ Cardinality(V) \in Nat
    BY <2>1, FS_CardinalityType
  <2>5. nTodo = Cardinality(Pending) /\ Cardinality(Pending') = Cardinality(Pending \cup V)
    BY <1>4 DEF IInv
  <2> QED BY <1>1, <2>2, <2>3, <2>4, <2>5
<1>11. Pending' \subseteq added' /\ added' \ Pending' = added \ Pending
  BY <1>1, <1>4
<1>12. InBlock'
  BY <1>1, <1>8, <1>11 DEF IInv, InBlock
<1>13. pc'[Master] # "out"
  BY <1>1, <1>2 DEF Threads
<1> QED BY <1>3, <1>5, <1>7, <1>9, <1>10, <1>11, <1>12, <1>13 DEF IInv

\* A thread blocked in cond.wait is woken, or leaves by thread_interrupted:
\* the counters, which still count it, bound the number of idle threads.
LEMMA LeaveWaitInv ==
    ASSUME IInv, NEW t \in Threads, NEW p \in {"woken", "unwind", "dead"},
           pc[t] \in {"wait", "woken"}, pc' = [pc EXCEPT ![t] = p],
           intr' \in [Threads -> BOOLEAN],
           UNCHANGED <<queue, nIdle, nTotal, fAllOk, nTodo, vChecks, fOk,
                       added, fRet, sessions>>
    PROVE  IInv'
<1>1. Shape'
  BY DEF IInv, Shape, PC
<1>2. Disjoint' /\ Pending' = Pending
  BY DEF IInv, Disjoint, Pending
<1>3. \A u \in Threads : /\ pc'[u] = "exec" <=> pc[u] = "exec"
                         /\ pc'[u] = "out" <=> pc[u] = "out"
  BY DEF IInv, Shape
<1>4. Busy(pc') = Busy(pc) /\ Idle(pc') \subseteq Idle(pc)
  BY <1>3 DEF Busy, Idle, IInv, Shape
<1>5. Cardinality(Idle(pc')) \in Nat /\ Cardinality(Idle(pc')) <= Cardinality(Idle(pc))
  BY <1>4, Counters, FS_Subset, FS_CardinalityType
<1>6. Cardinality(Busy(pc')) = Cardinality(Busy(pc))
  BY <1>4
<1>7. nTotal' = nIdle' + Cardinality(Busy(pc')) /\ nIdle' >= Cardinality(Idle(pc'))
  BY <1>5, <1>6, Counters
<1>8. \A u \in Threads : pc'[u] = "exec" <=> vChecks'[u] # {}
  BY <1>3 DEF IInv
<1>9. nTodo' = Cardinality(Pending') /\ Pending' \subseteq added'
  BY <1>2 DEF IInv
<1>10. pc'[Master] # "out" => InBlock'
  BY <1>2, <1>3 DEF IInv, InBlock, Threads
<1>11. pc'[Master] = "out" => /\ fAllOk' /\ Pending' = {}
                              /\ fRet' <=> added' \cap BadChecks = {}
  BY <1>2, <1>3 DEF IInv, Threads
<1> QED BY <1>1, <1>2, <1>7, <1>8, <1>9, <1>10, <1>11 DEF IInv

LEMMA NextInv == IInv /\ [Next]_vars => IInv'
<1> SUFFICES ASSUME IInv, [Next]_vars PROVE IInv'
  OBVIOUS
<1>1. CASE Construct
  BY <1>1, ConstructInv
<1>2. CASE \E V \in SUBSET (Checks \ added) : V # {} /\ Add(V)
  BY <1>2, AddInv
<1>3. CASE \E t \in Threads : Enter(t)
  BY <1>3, EnterInv
<1>4. CASE \E t \in Threads : Wake(t)
  BY <1>4, WakeInv
<1>5. CASE \E t \in Threads : Finish(t)
  BY <1>5, FinishInv
<1>6. CASE \E t \in Threads : Interrupted(t)
  <2> PICK t \in Threads : Interrupted(t)
    BY <1>6
  <2> DEFINE p == IF t = Master THEN "unwind" ELSE "dead"
  <2>1. /\ p \in {"woken", "unwind", "dead"} /\ pc[t] \in {"wait", "woken"}
        /\ pc' = [pc EXCEPT ![t] = p]
        /\ UNCHANGED <<queue, nIdle, nTotal, fAllOk, nTodo, vChecks, fOk,
                       added, fRet, sessions>>
    BY DEF Interrupted
  <2>2. intr' \in [Threads -> BOOLEAN]
    BY DEF Interrupted, IInv, Shape
  <2> HIDE DEF p
  <2> QED BY <2>1, <2>2, LeaveWaitInv
<1>7. CASE \E t \in Threads : SpuriousWakeup(t)
  <2> PICK t \in Threads : SpuriousWakeup(t)
    BY <1>7
  <2>1. /\ pc[t] \in {"wait", "woken"} /\ pc' = [pc EXCEPT ![t] = "woken"]
        /\ UNCHANGED <<queue, nIdle, nTotal, fAllOk, nTodo, vChecks, fOk,
                       added, fRet, sessions>>
    BY DEF SpuriousWakeup
  <2>2. intr' \in [Threads -> BOOLEAN]
    BY DEF SpuriousWakeup, IInv, Shape
  <2> QED BY <2>1, <2>2, LeaveWaitInv
<1>8. CASE InterruptAll
  <2>1. /\ intr' \in [Threads -> BOOLEAN]
        /\ UNCHANGED <<queue, nIdle, nTotal, fAllOk, nTodo, pc, vChecks, fOk,
                       added, fRet, sessions>>
    BY <1>8 DEF InterruptAll
  <2> QED BY <2>1 DEF IInv, Shape, Disjoint, InBlock, Pending
<1>9. CASE UNCHANGED vars
  BY <1>9 DEF vars, IInv, Shape, Disjoint, InBlock, Pending
<1> QED BY <1>1, <1>2, <1>3, <1>4, <1>5, <1>6, <1>7, <1>8, <1>9 DEF Next

LEMMA Invariance == Spec => []IInv
BY InitInv, NextInv, PTL DEF Spec

\* The counters of CCheckQueue, unsigned or not, never drop below zero, and
\* the state keeps its types, for any number of threads, checks and blocks.
THEOREM TypesHold == Spec => []TypeOK
<1>1. IInv => TypeOK
  <2> SUFFICES ASSUME IInv PROVE TypeOK
    OBVIOUS
  <2>1. nTotal \in Nat /\ nIdle \in Nat
    BY Counters
  <2>2. nTodo \in Nat
    BY FiniteParts DEF IInv
  <2> QED BY <2>1, <2>2 DEF TypeOK, IInv, Shape
<1> QED BY <1>1, Invariance, PTL

\* nTodo is exact and no check is in two places (TodoAccurate).
THEOREM TodoIsAccurate == Spec => []TodoAccurate
<1>1. IInv => TodoAccurate
  BY DEF IInv, Disjoint, TodoAccurate
<1> QED BY <1>1, Invariance, PTL

\* The assertion in the constructor of CCheckQueueControl never fails.
THEOREM ControlAlwaysFindsIdle == Spec => []ControlFindsIdle
<1>1. IInv => ControlFindsIdle
  <2> SUFFICES ASSUME IInv, pc[Master] = "out" PROVE IsIdle
    BY DEF ControlFindsIdle
  <2>1. fAllOk /\ Pending = {}
    BY DEF IInv
  <2>2. nTodo = 0
    BY <2>1, FS_EmptySet DEF IInv
  <2>3. Busy(pc) = {}
    BY <2>1 DEF IInv, Pending, Busy
  <2>4. nTotal = nIdle
    <3>1. Cardinality(Busy(pc)) = 0
      BY <2>3, FS_EmptySet
    <3> QED BY <3>1, Counters
  <2> QED BY <2>1, <2>2, <2>4 DEF IsIdle
<1> QED BY <1>1, Invariance, PTL

\* Wait returns the conjunction of the checks of its block.
THEOREM VerdictIsCorrect == Spec => []VerdictCorrect
<1>1. IInv => VerdictCorrect
  BY DEF IInv, VerdictCorrect
<1> QED BY <1>1, Invariance, PTL
=============================================================================
