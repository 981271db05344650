----------------------------- MODULE AthdProofs -----------------------------
(***************************************************************************)
(* Theorems about Athd for every set of threads, every registry, capacity  *)
(* and bound.  A state predicate that TLC checks on small instances, such  *)
(* as CountExact, is not inductive: it needs to know where in exec() each  *)
(* thread is.  IInv adds that.  The accounts of nodes and jobs (JobInv)    *)
(* rest on it, and on those what athd promises to its users: the order of  *)
(* broadcasts and what rejected pushes can lose, always; that no job is    *)
(* rejected, and the whole of JobContract, for a use of the pool that      *)
(* SafeUse and DistinctTargets describe.                                   *)
(***************************************************************************)
EXTENDS Athd, SequenceTheorems, FiniteSetTheorems, TLAPS

\* Points of user code and of a push.
Busy == {"user", "job", "lock", "node", "enq", "rej"}

\* Thread t handles the node curr.
AtNode(t) ==
    \/ pc[t] = "fin"
    \/ pc[t] \in Busy /\ ctx[t] \in {"work", "done", "result"}

\* Thread t is outside the inner loop of exec().
NoBatch(t) ==
    \/ pc[t] \in {"loop", "exit", "idle", "spin", "gone"}
    \/ pc[t] \in Busy /\ ctx[t] \in {"start", "stop"}

CallInv ==
    \A p \in Procs :
       /\ pc[p] \in {"lock", "node", "enq", "rej"} =>
             call[p].to # <<>> /\ call[p].kind # "none"
       /\ pc[p] = "job" => call[p].kind = "work"
       /\ call[p].kind \in {"work", "result"} =>
             p \in Threads /\ call[p].job \in JobIds
       /\ p \notin Threads =>
             /\ pc[p] \in {"idle", "node", "enq", "rej", "spin", "gone"}
             /\ ctx[p] = "stop"

BatchInv ==
    \A t \in Threads :
       /\ AtNode(t) => pos[t] <= Len(batch[t])
       /\ AtNode(t) /\ ctx[t] = "work" /\ pc[t] # "fin" => Curr(t).kind = "work"
       /\ pc[t] = "next" => batch[t] # <<>> /\ pos[t] <= Len(batch[t]) + 1
       /\ NoBatch(t) => batch[t] = <<>> /\ pos[t] = 1

LifeInv ==
    \A t \in Threads :
       /\ pc[t] \in {"exit", "idle", "spin", "gone"} \/ ctx[t] = "stop" =>
             ~isWorking[t] /\ queue[t] = <<>>
       /\ pc[t] \in {"idle", "spin", "gone"} \/ isStop[t] => ctx[t] = "stop"
       /\ ctx[t] = "stop" =>
             pc[t] \in {"idle", "node", "enq", "rej", "spin", "gone"}

IInv == TypeOK /\ CallInv /\ BatchInv /\ LifeInv /\ CountExact /\ FreeCountExact

-----------------------------------------------------------------------------
(* Parts of IInv whose variables a step leaves alone.                      *)

LEMMA ThreadFrame ==
  ASSUME ThreadType, CountExact, UNCHANGED <<mailVars, lifeVars, jobEnd>>
  PROVE  ThreadType' /\ CountExact'
BY DEF ThreadType, CountExact, mailVars, lifeVars

LEMMA PoolFrame ==
  ASSUME PoolType, FreeCountExact, UNCHANGED <<nodeVars, jobVars, index>>
  PROVE  PoolType' /\ FreeCountExact'
BY DEF PoolType, FreeCountExact, nodeVars, jobVars

LEMMA HistoryFrame ==
  ASSUME HistoryType, UNCHANGED histVars
  PROVE  HistoryType'
BY DEF HistoryType, histVars

LEMMA ControlFrame ==
  ASSUME ControlType, CallInv, BatchInv, LifeInv,
         UNCHANGED <<pc, ctx, call, mtx, queue, batch, pos, lifeVars>>,
         fault' \in {"none", "null call", "use after free"}
  PROVE  ControlType' /\ CallInv' /\ BatchInv' /\ LifeInv'
BY DEF ControlType, CallInv, BatchInv, LifeInv, AtNode, NoBatch, Busy, Curr,
       lifeVars

\* A step that ends in undefined behaviour.
LEMMA CrashInv ==
  ASSUME IInv, NEW why \in {"null call", "use after free"}, Crash(why)
  PROVE  IInv'
BY ThreadFrame, PoolFrame, HistoryFrame, ControlFrame
   DEF IInv, TypeOK, Crash, mailVars

-----------------------------------------------------------------------------
(* The steps of a push.                                                    *)

LEMMA UserPushInv ==
  ASSUME IInv, NEW p \in Procs, UserPush(p)
  PROVE  IInv'
<1> USE ThreadsAssumption DEF IInv, TypeOK, UserPush, At
<1>1. [kind |-> "work", job |-> pushes + 1, to |-> <<>>] \in Call
      /\ pushes + 1 \in JobIds /\ p \in Threads
  BY BoundsAssumption DEF Call, JobIds, PoolType
<1>2. ControlType' /\ CallInv'
  BY <1>1 DEF ControlType, CallInv
<1>3. ThreadType' /\ CountExact'
  BY ThreadFrame
<1>4. PoolType' /\ FreeCountExact'
  BY BoundsAssumption DEF PoolType, FreeCountExact, nodeVars
<1>5. HistoryType'
  BY HistoryFrame
<1>6. BatchInv'
  BY DEF ControlType, BatchInv, AtNode, NoBatch, Busy, Curr, Procs, mailVars
<1>7. LifeInv'
  BY DEF ControlType, LifeInv, Procs, mailVars, lifeVars
<1> QED BY <1>1, <1>2, <1>3, <1>4, <1>5, <1>6, <1>7

LEMMA StartPushInv ==
  ASSUME IInv, NEW p \in Procs, NEW to \in Seq(Threads), to # <<>>,
         NEW next \in {"node", "lock"}, StartPush(p, to, next), index' \in Nat
  PROVE  IInv'
<1> USE ThreadsAssumption DEF IInv, TypeOK, StartPush, At
<1>1. p \in Threads /\ call[p].job \in JobIds /\ Len(to) \in Int
  BY DEF CallInv
<1>2. [kind |-> "work", job |-> call[p].job, to |-> to] \in Call
  BY <1>1 DEF Call
<1>3. ControlType' /\ CallInv'
  BY <1>1, <1>2 DEF ControlType, CallInv
<1>4. ThreadType' /\ CountExact'
  BY ThreadFrame
<1>5. legs' \in [JobIds -> Int]
  BY <1>1 DEF PoolType, JobCountOf
<1>6. PoolType' /\ FreeCountExact'
  BY <1>5 DEF PoolType, FreeCountExact, nodeVars
<1>7. Pushed(p, to) \in History
  BY DEF Pushed, History
<1>8. HistoryType'
  BY <1>7 DEF HistoryType
<1>9. BatchInv'
  <2> SUFFICES ASSUME NEW t \in Threads
               PROVE  /\ AtNode(t)' => AtNode(t)
                      /\ NoBatch(t)' => NoBatch(t)
                      /\ pc'[t] # "next" \/ pc[t] = "next"
                      /\ pc[t] # "fin" \/ pc'[t] = "fin"
    BY DEF BatchInv, Curr, mailVars
  <2> QED BY DEF ControlType, AtNode, NoBatch, Busy, Procs
<1>10. LifeInv'
  BY DEF ControlType, LifeInv, Procs, mailVars, lifeVars
<1> QED BY <1>1, <1>2, <1>3, <1>4, <1>5, <1>6, <1>7, <1>8, <1>9, <1>10

LEMMA PushKindsInv ==
  ASSUME IInv, NEW p \in Procs,
         PushThread(p) \/ PushPool(p) \/ PushLua(p) \/ PushAll(p)
  PROVE  IInv'
<1>1. index \in Nat
  BY DEF IInv, TypeOK, PoolType
<1>2. CASE PushThread(p)
  <2>1. PICK t \in Threads : StartPush(p, <<t>>, "node")
    BY <1>2 DEF PushThread
  <2>2. <<t>> \in Seq(Threads) /\ <<t>> # <<>>
    OBVIOUS
  <2> QED BY <1>1, <1>2, <2>1, <2>2, StartPushInv DEF PushThread
<1>3. CASE PushPool(p)
  <2> DEFINE idx(cid) == IF cid # 0 THEN cid ELSE index + 1
             slot(cid) == (idx(cid) % Len(Pool)) + 1
  <2>1. PICK cid \in Cids : /\ index' = IF cid # 0 THEN index ELSE index + 1
                            /\ StartPush(p, <<Pool[slot(cid)]>>, "node")
    BY <1>3 DEF PushPool
  <2>2. Pool \in Seq(Threads) /\ Len(Pool) \in Nat \ {0}
    BY RegistriesAssumption
  <2>3. idx(cid) \in Nat
    BY <1>1, BoundsAssumption
  <2>4. idx(cid) % Len(Pool) \in 0 .. Len(Pool) - 1
    BY <2>2, <2>3
  <2> HIDE DEF idx
  <2>5. Pool[slot(cid)] \in Threads
    BY <2>2, <2>4
  <2>6. <<Pool[slot(cid)]>> \in Seq(Threads) /\ <<Pool[slot(cid)]>> # <<>>
    BY <2>5
  <2>7. index' \in Nat
    BY <1>1, <2>1
  <2> QED BY <2>1, <2>6, <2>7, StartPushInv
<1>4. CASE PushLua(p)
  <2>1. LuaThreads \in Seq(Threads) /\ LuaThreads # <<>>
    BY RegistriesAssumption
  <2> QED BY <1>1, <1>4, <2>1, StartPushInv DEF PushLua
<1>5. CASE PushAll(p)
  <2>1. AllThreads \in Seq(Threads) /\ AllThreads # <<>>
    BY RegistriesAssumption
  <2> QED BY <1>1, <1>5, <2>1, StartPushInv DEF PushAll
<1> QED BY <1>2, <1>3, <1>4, <1>5

LEMMA LockMdInv ==
  ASSUME IInv, NEW p \in Procs, LockMd(p)
  PROVE  IInv'
<1> USE ThreadsAssumption DEF IInv, TypeOK, LockMd, At
<1>1. ControlType' /\ CallInv'
  BY DEF ControlType, CallInv
<1>2. ThreadType' /\ CountExact'
  BY ThreadFrame
<1>3. PoolType' /\ FreeCountExact'
  BY PoolFrame
<1>4. HistoryType'
  BY HistoryFrame
<1>5. BatchInv'
  BY DEF ControlType, BatchInv, AtNode, NoBatch, Busy, Curr, Procs, mailVars
<1>6. LifeInv'
  BY DEF ControlType, LifeInv, Procs, mailVars, lifeVars
<1> QED BY <1>1, <1>2, <1>3, <1>4, <1>5, <1>6

LEMMA AllocNodeInv ==
  ASSUME IInv, NEW p \in Procs, AllocNode(p)
  PROVE  IInv'
<1> USE ThreadsAssumption DEF IInv, TypeOK, AllocNode, At
<1>1. ControlType' /\ CallInv'
  BY DEF ControlType, CallInv
<1>2. ThreadType' /\ CountExact'
  BY ThreadFrame
<1>3. PoolType' /\ FreeCountExact'
  BY DEF PoolType, FreeCountExact, HasFreeNode, jobVars
<1>4. HistoryType'
  BY HistoryFrame
<1>5. BatchInv'
  BY DEF ControlType, BatchInv, AtNode, NoBatch, Busy, Curr, Procs, mailVars
<1>6. LifeInv'
  BY DEF ControlType, LifeInv, Procs, mailVars, lifeVars
<1> QED BY <1>1, <1>2, <1>3, <1>4, <1>5, <1>6

LEMMA NextTargetInv ==
  ASSUME IInv, NEW p \in Procs, pc[p] \in {"enq", "rej"}, NextTarget(p),
         UNCHANGED <<ctx, fault, batch, pos>>
  PROVE  /\ ControlType' /\ CallInv' /\ BatchInv'
         /\ \A q \in Procs : q # p => pc'[q] = pc[q]
         /\ pc'[p] \in {"node", "user", "fin", "spin"}
         /\ pc'[p] = "spin" => ctx[p] = "stop"
         /\ ctx[p] = "stop" => pc'[p] \in {"node", "spin"}
<1> USE ThreadsAssumption DEF IInv, TypeOK
<1> DEFINE rest == [kind |-> call[p].kind, job |-> call[p].job, to |-> Tail(call[p].to)]
           after == CASE ctx[p] = "result" -> "fin"
                      [] ctx[p] = "stop"   -> "spin"
                      [] OTHER             -> "user"
<1>1. call[p] \in Call /\ call[p].to \in Seq(Threads) /\ call[p].to # <<>> /\ call[p].kind # "none"
  BY DEF ControlType, Call, CallInv
<1>2. /\ pc[p] \in {"enq", "rej"}
      /\ ctx[p] \in {"start", "work", "done", "result", "stop"}
      /\ after \in {"user", "fin", "spin"}
      /\ after = "spin" <=> ctx[p] = "stop"
      /\ after = "fin" <=> ctx[p] = "result"
  BY DEF ControlType
<1>3. p \notin Threads => ctx[p] = "stop"
  BY <1>2 DEF CallInv
<1>4. CASE Len(call[p].to) > 1
  <2>1. Tail(call[p].to) \in Seq(Threads) /\ Tail(call[p].to) # <<>>
    BY <1>1, <1>4, HeadTailProperties
  <2>2. rest \in Call /\ rest.to # <<>> /\ rest.kind # "none"
    BY <1>1, <2>1 DEF Call
  <2>3. call' = [call EXCEPT ![p] = rest] /\ pc' = [pc EXCEPT ![p] = "node"] /\ mtx' = mtx
    BY <1>4 DEF NextTarget
  <2> HIDE DEF rest
  <2>4. ControlType'
    BY <2>2, <2>3 DEF ControlType
  <2>5. CallInv'
    BY <1>1, <2>2, <2>3 DEF ControlType, CallInv, rest
  <2>6. BatchInv'
    BY <2>3, <1>2 DEF ControlType, BatchInv, AtNode, NoBatch, Busy, Curr, Procs
  <2> QED
    BY <2>3, <2>4, <2>5, <2>6 DEF ControlType
<1>5. CASE ~(Len(call[p].to) > 1)
  <2>1. NoCall \in Call /\ NoCall.kind = "none"
    BY DEF NoCall, Call, NoJob, JobIds
  <2>2. call' = [call EXCEPT ![p] = NoCall] /\ pc' = [pc EXCEPT ![p] = after] /\ mtx' \in {mtx, NoProc}
    BY <1>5 DEF NextTarget
  <2> HIDE DEF after
  <2>3. ControlType'
    BY <1>2, <2>1, <2>2 DEF ControlType
  <2>4. CallInv'
    BY <1>2, <1>3, <2>1, <2>2 DEF ControlType, CallInv
  <2>5. BatchInv'
    BY <1>2, <2>2 DEF ControlType, BatchInv, AtNode, NoBatch, Busy, Curr, Procs
  <2> QED
    BY <1>2, <2>2, <2>3, <2>4, <2>5 DEF ControlType
<1> QED BY <1>4, <1>5

LEMMA EnqueueInv == ASSUME IInv, NEW p \in Procs, Enqueue(p) PROVE IInv'
<1> USE ThreadsAssumption DEF IInv, TypeOK
<1> DEFINE t == Head(call[p].to)
           c == [kind |-> call[p].kind, job |-> call[p].job, sender |-> p]
<1>1. pc[p] = "enq" /\ isWorking[t]
  BY DEF Enqueue, At, Target
<1>2. UNCHANGED <<ctx, batch, pos, count, lifeVars, jobEnd, nodeVars, jobVars, index, fault, histVars>>
  BY DEF Enqueue
<1>3. queue' = [queue EXCEPT ![t] = Append(queue[t], c)] /\ jobCount' = [jobCount EXCEPT ![t] = jobCount[t] + 1]
  BY DEF Enqueue, Link, Target
<1>a. call[p] \in Call /\ call[p].to # <<>> /\ call[p].kind # "none"
  BY <1>1 DEF ControlType, CallInv
<1>b. call[p].kind # "stop" => p \in Threads /\ call[p].job \in JobIds
  BY <1>a DEF CallInv, Call
<1>4. t \in Threads /\ c \in Cell
  BY <1>a, <1>b DEF Call, Cell
<1> HIDE DEF t, c
<1>5. /\ ControlType' /\ CallInv' /\ BatchInv'
      /\ \A q \in Procs : q # p => pc'[q] = pc[q]
      /\ pc'[p] \in {"node", "user", "fin", "spin"}
      /\ pc'[p] = "spin" => ctx[p] = "stop"
      /\ ctx[p] = "stop" => pc'[p] \in {"node", "spin"}
  BY <1>1, <1>2, NextTargetInv DEF Enqueue
<1>6. queue[t] \in Seq(Cell) /\ Append(queue[t], c) \in Seq(Cell) /\ Len(Append(queue[t], c)) = Len(queue[t]) + 1 /\ Len(queue[t]) \in Nat
  BY <1>4 DEF ThreadType
<1>7. ThreadType'
  BY <1>2, <1>3, <1>4, <1>6 DEF ThreadType, lifeVars
<1>8. PoolType' /\ HistoryType' /\ FreeCountExact'
  BY <1>2 DEF PoolType, HistoryType, FreeCountExact, nodeVars, jobVars, histVars
<1>9. LifeInv'
  BY <1>1, <1>2, <1>3, <1>4, <1>5 DEF LifeInv, ThreadType, ControlType, lifeVars, Procs
<1>10. CountExact'
  <2> SUFFICES ASSUME NEW u \in Threads
               PROVE  /\ jobCount'[u] = Len(queue'[u]) + Len(batch[u]) - pos[u] + 1
                      /\ batch[u] # <<>> => count[u] = Len(batch[u])
    BY <1>2 DEF CountExact
  <2>1. CASE u = t
    <3>1. jobCount[t] = Len(queue[t]) + Len(batch[t]) - pos[t] + 1
      BY <1>4 DEF CountExact
    <3>2. jobCount'[t] = jobCount[t] + 1
      BY <1>3, <1>4 DEF ThreadType
    <3>3. queue'[t] = Append(queue[t], c)
      BY <1>3, <1>4 DEF ThreadType
    <3>4. Len(batch[t]) \in Nat /\ pos[t] \in Nat /\ jobCount[t] \in Int
      BY <1>4 DEF ThreadType
    <3>5. batch[t] # <<>> => count[t] = Len(batch[t])
      BY <1>4 DEF CountExact
    <3>6. Len(queue'[t]) = Len(queue[t]) + 1
      BY <3>3, <1>6
    <3>7. batch'[t] = batch[t] /\ pos'[t] = pos[t] /\ count'[t] = count[t]
      BY <1>2
    <3>8. jobCount'[t] = Len(queue'[t]) + Len(batch[t]) - pos[t] + 1
      <4>1. (Len(queue[t]) + Len(batch[t]) - pos[t] + 1) + 1
              = (Len(queue[t]) + 1) + Len(batch[t]) - pos[t] + 1
        BY <1>6, <3>4
      <4> QED BY <4>1, <3>1, <3>2, <3>6, Zenon
    <3> QED BY <2>1, <3>5, <3>8
  <2>2. CASE u # t
    BY <2>2, <1>3 DEF ThreadType, CountExact
  <2> QED BY <2>1, <2>2
<1> QED BY <1>5, <1>7, <1>8, <1>9, <1>10

LEMMA RejectInv ==
  ASSUME IInv, NEW p \in Procs, Reject(p)
  PROVE  IInv'
<1> USE ThreadsAssumption DEF IInv, TypeOK, Reject, At
<1>1. ControlType' /\ CallInv'
  BY DEF ControlType, CallInv
<1>2. ThreadType' /\ CountExact'
  BY ThreadFrame
<1>3. PoolType' /\ FreeCountExact'
  BY DEF PoolType, FreeCountExact, jobVars
<1>4. HistoryType'
  BY HistoryFrame
<1>5. BatchInv'
  BY DEF ControlType, BatchInv, AtNode, NoBatch, Busy, Curr, Procs, mailVars
<1>6. LifeInv'
  BY DEF ControlType, LifeInv, Procs, mailVars, lifeVars
<1> QED BY <1>1, <1>2, <1>3, <1>4, <1>5, <1>6

LEMMA RejectedDoneInv == ASSUME IInv, NEW p \in Procs, RejectedDone(p) PROVE IInv'
<1> USE ThreadsAssumption DEF IInv, TypeOK
<1> DEFINE j == call[p].job
<1>1. UNCHANGED <<ctx, mailVars, lifeVars, jobEnd, nodeVars, legs, pushes, index, fault, trace>>
  BY DEF RejectedDone
<1>2. pc[p] = "rej" /\ j \in JobIds /\ p \in Threads
  BY DEF RejectedDone, At, Live, CallInv, ControlType, Call
<1>3. jobEnd[p] \in BOOLEAN
  BY <1>2 DEF ThreadType
<1>4. /\ ControlType' /\ CallInv' /\ BatchInv'
      /\ \A q \in Procs : q # p => pc'[q] = pc[q]
      /\ pc'[p] \in {"node", "user", "fin", "spin"}
      /\ pc'[p] = "spin" => ctx[p] = "stop"
      /\ ctx[p] = "stop" => pc'[p] \in {"node", "spin"}
  BY <1>1, <1>2, NextTargetInv DEF RejectedDone, mailVars
<1>5. ThreadType'
  BY <1>1 DEF ThreadType, mailVars, lifeVars
<1>6. PoolType' /\ FreeCountExact'
  BY <1>1, <1>3 DEF PoolType, FreeCountExact, nodeVars, RejectedDone, FreeJobsAfter
<1>7. Done(j, p, jobEnd[p], IF jobEnd[p] THEN "freed" ELSE "live") \in History
  <2>1. hist[j] \in History
    BY <1>2 DEF HistoryType
  <2> HIDE DEF j
  <2>2. CASE jobEnd[p]
    BY <2>1, <2>2, <1>2 DEF Done, History, Procs
  <2>3. CASE ~jobEnd[p]
    BY <2>1, <2>3, <1>2 DEF Done, History, Procs
  <2> QED BY <2>2, <2>3, <1>3
<1>8. HistoryType'
  BY <1>1, <1>7 DEF RejectedDone, HistoryType
<1>9. LifeInv'
  BY <1>1, <1>2, <1>4 DEF LifeInv, ThreadType, ControlType, lifeVars, mailVars, Procs
<1>10. CountExact'
  BY <1>1 DEF CountExact, mailVars
<1> QED BY <1>4, <1>5, <1>6, <1>8, <1>9, <1>10

-----------------------------------------------------------------------------
(* The steps of exec().                                                    *)

LEMMA StartReturnsInv ==
  ASSUME IInv, NEW p \in Threads, StartReturns(p)
  PROVE  IInv'
<1> USE ThreadsAssumption DEF IInv, TypeOK, StartReturns, At
<1>1. ControlType' /\ CallInv'
  BY DEF ControlType, CallInv, Procs
<1>2. ThreadType' /\ CountExact'
  BY ThreadFrame
<1>3. PoolType' /\ FreeCountExact'
  BY PoolFrame
<1>4. HistoryType'
  BY HistoryFrame
<1>5. BatchInv'
  BY DEF ControlType, BatchInv, AtNode, NoBatch, Busy, Curr, Procs, mailVars
<1>6. LifeInv'
  BY DEF ControlType, LifeInv, Procs, mailVars, lifeVars
<1> QED BY <1>1, <1>2, <1>3, <1>4, <1>5, <1>6

LEMMA WorkReturnsInv ==
  ASSUME IInv, NEW p \in Threads, WorkReturns(p)
  PROVE  IInv'
<1> USE ThreadsAssumption DEF IInv, TypeOK, WorkReturns, At, ReplyTo
<1>1. Curr(p) \in Cell /\ Curr(p).kind = "work"
  BY DEF BatchInv, AtNode, Busy, ThreadType, Curr
<1>2. Curr(p).job \in JobIds /\ <<Curr(p).sender>> \in Seq(Threads)
  BY <1>1 DEF Cell
<1>3. [kind |-> "result", job |-> Curr(p).job, to |-> <<Curr(p).sender>>] \in Call
  BY <1>2 DEF Call
<1>4. ControlType' /\ CallInv'
  BY <1>2, <1>3 DEF ControlType, CallInv, Procs
<1>5. ThreadType' /\ CountExact'
  BY ThreadFrame
<1>6. PoolType' /\ FreeCountExact'
  BY PoolFrame
<1>7. HistoryType'
  BY HistoryFrame
<1>8. BatchInv'
  BY DEF ControlType, BatchInv, AtNode, NoBatch, Busy, Curr, Procs, mailVars
<1>9. LifeInv'
  BY DEF ControlType, LifeInv, Procs, mailVars, lifeVars
<1> QED BY <1>1, <1>2, <1>3, <1>4, <1>5, <1>6, <1>7, <1>8, <1>9

LEMMA DoneReturnsInv ==
  ASSUME IInv, NEW p \in Threads, DoneReturns(p)
  PROVE  IInv'
<1> USE ThreadsAssumption DEF IInv, TypeOK, DoneReturns, At
<1>1. ControlType' /\ CallInv'
  BY DEF ControlType, CallInv, Procs
<1>2. ThreadType' /\ CountExact'
  BY ThreadFrame
<1>3. jobEnd[p] \in BOOLEAN
  BY DEF ThreadType
<1>4. PoolType' /\ FreeCountExact'
  BY <1>3 DEF PoolType, FreeCountExact, FreeJobsAfter, nodeVars
<1>5. HistoryType'
  BY <1>3 DEF HistoryType, History
<1>6. BatchInv'
  BY DEF ControlType, BatchInv, AtNode, NoBatch, Busy, Curr, Procs, mailVars
<1>7. LifeInv'
  BY DEF ControlType, LifeInv, Procs, mailVars, lifeVars
<1> QED BY <1>1, <1>2, <1>3, <1>4, <1>5, <1>6, <1>7

LEMMA DrainInv ==
  ASSUME IInv, NEW p \in Threads, Drain(p)
  PROVE  IInv'
<1> USE ThreadsAssumption DEF IInv, TypeOK, Drain, At, Wakes, LoopEnds, lifeVars
<1>1. ControlType' /\ CallInv'
  BY DEF ControlType, CallInv, Procs
<1>2. ThreadType'
  BY DEF ThreadType
<1>3. PoolType' /\ FreeCountExact'
  BY PoolFrame
<1>4. HistoryType'
  BY HistoryFrame
<1>5. BatchInv'
  <2> SUFFICES ASSUME NEW t \in Threads
               PROVE  BatchInv!(t)'
    BY DEF BatchInv
  <2>1. CASE t = p
    <3>1. batch'[t] = queue[p] /\ pos'[t] = 1 /\ Len(queue[p]) \in Nat
      BY <2>1 DEF ThreadType
    <3>2. \/ pc'[t] = "next" /\ queue[p] # <<>>
          \/ pc'[t] = "exit" /\ queue[p] = <<>>
      BY <2>1 DEF ControlType, ThreadType, Procs
    <3> QED BY <3>1, <3>2 DEF AtNode, NoBatch, Busy
  <2>2. CASE t # p
    BY <2>2 DEF ControlType, ThreadType, BatchInv, AtNode, NoBatch, Busy, Curr, Procs
  <2> QED BY <2>1, <2>2
<1>6. LifeInv'
  BY DEF ControlType, ThreadType, LifeInv, Procs
<1>7. batch[p] = <<>> /\ Len(batch[p]) = 0 /\ pos[p] = 1
  BY DEF BatchInv, NoBatch
<1>8. Len(queue[p]) \in Nat
  BY DEF ThreadType
<1>9. jobCount[p] = Len(queue[p]) + Len(batch[p]) - pos[p] + 1
  BY DEF CountExact
<1>10. jobCount[p] = Len(queue[p])
  BY <1>7, <1>8, <1>9
<1>11. CountExact'
  <2> SUFFICES ASSUME NEW t \in Threads
               PROVE  /\ jobCount'[t] = Len(queue'[t]) + Len(batch'[t]) - pos'[t] + 1
                      /\ batch'[t] # <<>> => count'[t] = Len(batch'[t])
    BY DEF CountExact
  <2>1. CASE t = p
    BY <2>1, <1>8, <1>10 DEF ThreadType
  <2>2. CASE t # p
    BY <2>2 DEF ThreadType, CountExact
  <2> QED BY <2>1, <2>2
<1> QED BY <1>1, <1>2, <1>3, <1>4, <1>5, <1>6, <1>7, <1>8, <1>9, <1>10, <1>11

LEMMA RunWorkInv ==
  ASSUME IInv, NEW p \in Threads, RunWork(p)
  PROVE  IInv'
<1> USE ThreadsAssumption DEF IInv, TypeOK, RunWork, HasCurr, At
<1>1. ControlType' /\ CallInv'
  BY DEF ControlType, CallInv, Procs
<1>2. ThreadType' /\ CountExact'
  BY ThreadFrame
<1>3. PoolType' /\ FreeCountExact'
  BY PoolFrame
<1>4. Append(trace[p], Curr(p).job) \in Seq(JobIds)
  BY DEF HistoryType, Live
<1>5. HistoryType'
  BY <1>4 DEF HistoryType
<1>6. BatchInv'
  BY DEF ControlType, ThreadType, BatchInv, AtNode, NoBatch, Busy, Curr, Procs, mailVars
<1>7. LifeInv'
  BY DEF ControlType, LifeInv, Procs, mailVars, lifeVars
<1> QED BY <1>1, <1>2, <1>3, <1>4, <1>5, <1>6, <1>7

LEMMA RunDoneInv ==
  ASSUME IInv, NEW p \in Threads, RunDone(p)
  PROVE  IInv'
<1> USE ThreadsAssumption DEF IInv, TypeOK, RunDone, HasCurr, At
<1>1. ControlType' /\ CallInv'
  BY DEF ControlType, CallInv, Procs
<1>2. ThreadType' /\ CountExact'
  BY DEF ThreadType, CountExact, mailVars, lifeVars, IsEnd
<1>3. Curr(p).job \in JobIds /\ legs[Curr(p).job] - 1 \in Int
  BY DEF PoolType, Live
<1>4. PoolType' /\ FreeCountExact'
  BY <1>3 DEF PoolType, FreeCountExact, nodeVars
<1>5. Done(Curr(p).job, p, legs[Curr(p).job] - 1 = 0, "live") \in History
  <2>1. hist[Curr(p).job] \in History
    BY <1>3 DEF HistoryType
  <2>2. hist[Curr(p).job].at \cup {p} \in SUBSET Procs
    BY <2>1 DEF History, Procs
  <2> QED BY <2>1, <2>2 DEF History, Done
<1>6. HistoryType'
  BY <1>5 DEF HistoryType, IsEnd
<1>7. BatchInv'
  BY DEF ControlType, ThreadType, BatchInv, AtNode, NoBatch, Busy, Curr, Procs, mailVars
<1>8. LifeInv'
  BY DEF ControlType, LifeInv, Procs, mailVars, lifeVars
<1> QED BY <1>1, <1>2, <1>3, <1>4, <1>5, <1>6, <1>7, <1>8

LEMMA RunStopInv ==
  ASSUME IInv, NEW p \in Threads, RunStop(p)
  PROVE  IInv'
<1> USE ThreadsAssumption DEF IInv, TypeOK, RunStop, HasCurr, At
<1>1. ControlType' /\ CallInv'
  BY DEF ControlType, CallInv, Procs
<1>2. ThreadType' /\ CountExact'
  BY DEF ThreadType, CountExact, mailVars
<1>3. PoolType' /\ FreeCountExact'
  BY PoolFrame
<1>4. HistoryType'
  BY HistoryFrame
<1>5. BatchInv'
  BY DEF ControlType, BatchInv, AtNode, NoBatch, Busy, Curr, Procs, mailVars
<1>6. LifeInv'
  <2> SUFFICES ASSUME NEW t \in Threads
               PROVE  LifeInv!(t)'
    BY DEF LifeInv
  <2>1. CASE t = p
    BY <2>1 DEF ControlType, ThreadType, LifeInv, Procs, mailVars
  <2>2. CASE t # p
    BY <2>2 DEF ControlType, ThreadType, LifeInv, Procs, mailVars
  <2> QED BY <2>1, <2>2
<1> QED BY <1>1, <1>2, <1>3, <1>4, <1>5, <1>6

LEMMA FinishNodeInv ==
  ASSUME IInv, NEW p \in Threads, FinishNode(p)
  PROVE  IInv'
<1> USE ThreadsAssumption DEF IInv, TypeOK, FinishNode, At, CountDown
<1>1. ControlType' /\ CallInv'
  BY DEF ControlType, CallInv, Procs
<1>2. ThreadType'
  BY DEF ThreadType, lifeVars
<1>3. PoolType' /\ FreeCountExact'
  BY PoolFrame
<1>4. HistoryType'
  BY HistoryFrame
<1>5. batch[p] # <<>> /\ pos[p] <= Len(batch[p])
      /\ pos[p] \in Nat \ {0} /\ Len(batch[p]) \in Nat
  BY DEF BatchInv, AtNode, ThreadType
<1>6. BatchInv'
  <2> SUFFICES ASSUME NEW t \in Threads
               PROVE  BatchInv!(t)'
    BY DEF BatchInv
  <2>1. CASE t = p
    BY <2>1, <1>5 DEF ControlType, ThreadType, AtNode, NoBatch, Busy, Procs
  <2>2. CASE t # p
    BY <2>2 DEF ControlType, ThreadType, AtNode, NoBatch, Busy, BatchInv, Curr, Procs
  <2> QED BY <2>1, <2>2
<1>7. LifeInv'
  BY DEF ControlType, LifeInv, Procs, mailVars, lifeVars
<1>8. CountExact'
  <2> SUFFICES ASSUME NEW t \in Threads
               PROVE  CountExact!(t)'
    BY DEF CountExact
  <2>1. CASE t = p
    BY <2>1, <1>5 DEF ThreadType, CountExact
  <2>2. CASE t # p
    BY <2>2 DEF ThreadType, CountExact
  <2> QED BY <2>1, <2>2
<1> QED BY <1>1, <1>2, <1>3, <1>4, <1>5, <1>6, <1>7, <1>8

LEMMA FreesInv ==
  ASSUME IInv, NEW p \in Threads, Frees(p)
  PROVE  IInv'
<1> USE ThreadsAssumption DEF IInv, TypeOK, Frees, At
<1>1. ControlType' /\ CallInv'
  BY DEF ControlType, CallInv, Procs
<1>2. <<>> \in Seq(Cell) /\ 1 \in Nat \ {0}
  OBVIOUS
<1>3. ThreadType'
  BY <1>2 DEF ThreadType, lifeVars
<1>4. batch[p] # <<>> /\ count[p] = Len(batch[p]) /\ pos[p] = Len(batch[p]) + 1
  <2>1. batch[p] # <<>> /\ pos[p] <= Len(batch[p]) + 1
    BY DEF BatchInv
  <2>2. pos[p] \in Nat /\ Len(batch[p]) \in Nat
    BY DEF ThreadType
  <2> QED BY <2>1, <2>2 DEF CountExact
<1>5. PoolType' /\ FreeCountExact'
  BY <1>4 DEF PoolType, ThreadType, FreeCountExact, Spliced, FreesCount, jobVars
<1>6. HistoryType'
  BY HistoryFrame
<1>7. BatchInv'
  BY DEF ControlType, ThreadType, BatchInv, AtNode, NoBatch, Busy, Curr, Procs
<1>8. LifeInv'
  BY DEF ControlType, LifeInv, Procs, mailVars, lifeVars
<1>9. CountExact'
  <2> SUFFICES ASSUME NEW t \in Threads
               PROVE  CountExact!(t)'
    BY DEF CountExact
  <2>1. CASE t = p
    <3>1. batch'[t] = <<>> /\ pos'[t] = 1
      BY <2>1 DEF ThreadType
    <3>2. jobCount[t] = Len(queue[t]) + Len(batch[t]) - pos[t] + 1
      BY DEF CountExact
    <3>3. Len(batch[t]) \in Nat /\ Len(queue[t]) \in Nat /\ Len(<<>>) = 0
      BY EmptySeq DEF ThreadType
    <3>4. jobCount'[t] = jobCount[t] /\ queue'[t] = queue[t]
      OBVIOUS
    <3> QED BY <2>1, <3>1, <3>2, <3>3, <3>4, <1>4
  <2>2. CASE t # p
    BY <2>2 DEF ThreadType, CountExact
  <2> QED BY <2>1, <2>2
<1> QED BY <1>1, <1>2, <1>3, <1>4, <1>5, <1>6, <1>7, <1>8, <1>9

LEMMA ExitInv ==
  ASSUME IInv, NEW p \in Threads, Exit(p)
  PROVE  IInv'
<1> USE ThreadsAssumption DEF IInv, TypeOK, Exit, At
<1>1. ControlType' /\ CallInv'
  BY DEF ControlType, CallInv, Procs
<1>2. ThreadType' /\ CountExact'
  BY DEF ThreadType, CountExact, mailVars
<1>3. PoolType' /\ FreeCountExact'
  BY PoolFrame
<1>4. HistoryType'
  BY HistoryFrame
<1>5. BatchInv'
  BY DEF ControlType, BatchInv, AtNode, NoBatch, Busy, Curr, Procs, mailVars
<1>6. LifeInv'
  BY DEF ControlType, ThreadType, LifeInv, Procs, mailVars
<1> QED BY <1>1, <1>2, <1>3, <1>4, <1>5, <1>6

-----------------------------------------------------------------------------
(* athd_waitstops.                                                         *)

LEMMA CallWaitstopsInv ==
  ASSUME IInv, NEW p \in Procs, CallWaitstops(p)
  PROVE  IInv'
<1> USE ThreadsAssumption DEF IInv, TypeOK, CallWaitstops, At
<1>1. PThreads \in Seq(Threads) /\ PThreads # <<>>
  BY RegistriesAssumption
<1>2. [kind |-> "stop", job |-> NoJob, to |-> PThreads] \in Call
  BY <1>1 DEF Call, NoJob, JobIds
<1>3. ControlType' /\ CallInv'
  BY <1>1, <1>2 DEF ControlType, CallInv, StopTargets
<1>4. ThreadType' /\ CountExact'
  BY ThreadFrame
<1>5. PoolType' /\ FreeCountExact'
  BY PoolFrame
<1>6. HistoryType'
  BY HistoryFrame
<1>7. BatchInv'
  BY DEF ControlType, BatchInv, LifeInv, AtNode, NoBatch, Busy, Curr, Procs, mailVars
<1>8. LifeInv'
  BY DEF ControlType, LifeInv, Procs, mailVars, lifeVars
<1> QED BY <1>1, <1>2, <1>3, <1>4, <1>5, <1>6, <1>7, <1>8

LEMMA AllStoppedInv ==
  ASSUME IInv, NEW p \in Procs, AllStopped(p)
  PROVE  IInv'
<1> USE ThreadsAssumption DEF IInv, TypeOK, AllStopped, At
<1>1. ControlType' /\ CallInv'
  BY DEF ControlType, CallInv
<1>2. ThreadType' /\ CountExact'
  BY ThreadFrame
<1>3. PoolType' /\ FreeCountExact'
  BY PoolFrame
<1>4. HistoryType'
  BY HistoryFrame
<1>5. BatchInv'
  BY DEF ControlType, BatchInv, AtNode, NoBatch, Busy, Curr, Procs, mailVars
<1>6. LifeInv'
  BY DEF ControlType, LifeInv, Procs, mailVars, lifeVars
<1> QED BY <1>1, <1>2, <1>3, <1>4, <1>5, <1>6

-----------------------------------------------------------------------------
(* The inductive invariant and what follows from it.                       *)

LEMMA InitIInv == Init => IInv
<1> SUFFICES ASSUME Init PROVE IInv
  OBVIOUS
<1> USE ThreadsAssumption, BoundsAssumption DEF Init
<1>1. NoCall \in Call /\ NoCall.kind = "none" /\ Unused \in History
  BY DEF NoCall, Unused, Call, History, NoJob, JobIds, Procs
<1>2. ControlType
  BY <1>1 DEF ControlType
<1>3. ThreadType /\ PoolType
  BY DEF ThreadType, PoolType
<1>4. HistoryType
  BY <1>1 DEF HistoryType
<1>5. CallInv
  BY <1>1 DEF CallInv, Procs
<1>6. BatchInv /\ LifeInv
  BY DEF BatchInv, LifeInv, AtNode, NoBatch, Busy, Procs
<1>7. CountExact /\ FreeCountExact
  BY DEF CountExact, FreeCountExact
<1> QED BY <1>2, <1>3, <1>4, <1>5, <1>6, <1>7 DEF IInv, TypeOK

LEMMA StutterInv == IInv /\ UNCHANGED vars => IInv'
<1> SUFFICES ASSUME IInv, UNCHANGED vars PROVE IInv'
  OBVIOUS
<1>1. UNCHANGED <<pc, ctx, call, mtx, queue, batch, pos, lifeVars>> /\ fault' = fault
  BY DEF vars, mailVars
<1>2. UNCHANGED <<mailVars, lifeVars, jobEnd>> /\ UNCHANGED <<nodeVars, jobVars, index>>
      /\ UNCHANGED histVars
  BY DEF vars
<1> QED BY <1>1, <1>2, ThreadFrame, PoolFrame, HistoryFrame, ControlFrame
        DEF IInv, TypeOK, ControlType

LEMMA NextIInv == IInv /\ [Next]_vars => IInv'
<1> SUFFICES ASSUME IInv, [Next]_vars PROVE IInv'
  OBVIOUS
<1>1. ASSUME NEW p \in Procs, Push(p) PROVE IInv'
  BY <1>1, UserPushInv, PushKindsInv, LockMdInv, AllocNodeInv, EnqueueInv,
     RejectInv, RejectedDoneInv, CrashInv
     DEF Push, NullCall, RejectedStale
<1>2. ASSUME NEW t \in Threads, Exec(t) PROVE IInv'
  BY <1>2, StartReturnsInv, WorkReturnsInv, DoneReturnsInv, DrainInv, RunWorkInv,
     RunDoneInv, RunStopInv, FinishNodeInv, FreesInv, ExitInv, CrashInv
     DEF Exec, RunStale
<1>3. ASSUME NEW p \in Procs, Waitstops(p) PROVE IInv'
  BY <1>3, CallWaitstopsInv, AllStoppedInv, StutterInv DEF Waitstops, Poll
<1>4. CASE Rest \/ UNCHANGED vars
  BY <1>4, StutterInv DEF Rest
<1> QED BY <1>1, <1>2, <1>3, <1>4 DEF Next

\* IInv holds initially and every step of the scheduler keeps it.
THEOREM Inductive == Spec => []IInv
BY InitIInv, NextIInv, PTL DEF Spec

\* Every variable keeps its type: neither pool hands out an object it does not
\* have, and no thread is ever at a point of exec() with a list of the wrong kind.
THEOREM TypeCorrect == Spec => []TypeOK
<1>1. IInv => TypeOK
  BY DEF IInv
<1> QED BY <1>1, Inductive, PTL

\* job_count_, which is decremented outside the mutex, is always the number of
\* nodes in the mailbox and in the rest of the batch, the count that frees()
\* gets is the length of the list it gets, and free_count_ of the node pool is
\* the length of its free list.
THEOREM CountsAreExact == Spec => []CountsExact
<1>1. IInv => CountsExact
  BY DEF IInv, CountsExact
<1> QED BY <1>1, Inductive, PTL

\* When a thread reports is_stop_, it has handled every node it accepted.
THEOREM StoppedIsEmpty == Spec => []StopDrains
<1>1. ASSUME IInv, NEW t \in Threads, isStop[t]
      PROVE  Unhandled(t) = <<>> /\ jobCount[t] = 0
  <2>1. ctx[t] = "stop" /\ queue[t] = <<>>
    BY <1>1 DEF IInv, LifeInv
  <2>2. pc[t] \in {"idle", "node", "enq", "rej", "spin", "gone"}
    BY <1>1, <2>1 DEF IInv, LifeInv
  <2>3. batch[t] = <<>> /\ pos[t] = 1
    BY <1>1, <2>1, <2>2 DEF IInv, BatchInv, NoBatch, Busy
  <2>4. SubSeq(batch[t], pos[t], Len(batch[t])) = <<>>
    BY <2>3, SubSeqEmpty
  <2>5. Unhandled(t) = <<>>
    BY <2>1, <2>4, EmptySeq, ConcatEmptySeq DEF Unhandled
  <2>6. jobCount[t] = Len(queue[t]) + Len(batch[t]) - pos[t] + 1
    BY <1>1 DEF IInv, CountExact
  <2> QED BY <2>1, <2>3, <2>5, <2>6
<1>2. IInv => StopDrains
  BY <1>1 DEF StopDrains
<1> QED BY <1>2, Inductive, PTL

-----------------------------------------------------------------------------
(* Nodes: each is free, held by a thread, in the hand of a pusher, or dropped. *)

HeldInv == IsFiniteSet(InHand) /\ IsFiniteSet(Held) /\ NodesConserved

\* x is a pair.
IsPair(x) == x = <<x[1], x[2]>>

LEMMA Pairs ==
  ASSUME NEW S, NEW F
  PROVE  LET U == UNION {{s} \X F[s] : s \in S}
         IN  /\ \A t, i : <<t, i>> \in U <=> t \in S /\ i \in F[t]
             /\ \A x \in U : IsPair(x)
BY DEF IsPair

LEMMA SamePairs ==
  ASSUME NEW A, NEW B, \A x \in A : IsPair(x), \A x \in B : IsPair(x),
         \A t, i : <<t, i>> \in A <=> <<t, i>> \in B
  PROVE  A = B
<1>1. \A x : x \in A <=> x \in B
  BY DEF IsPair
<1> QED BY <1>1

LEMMA HeldMembers ==
  /\ \A t, i : <<t, i>> \in Held <=> t \in Threads /\ i \in 1 .. Len(batch[t]) + Len(queue[t])
  /\ \A x \in Held : IsPair(x)
  /\ \A t, i : <<t, i>> \in Held' <=> t \in Threads /\ i \in 1 .. Len(batch'[t]) + Len(queue'[t])
  /\ \A x \in Held' : IsPair(x)
<1> DEFINE F == [t \in Threads |-> 1 .. Len(batch[t]) + Len(queue[t])]
           G == [t \in Threads |-> 1 .. Len(batch'[t]) + Len(queue'[t])]
<1>1. Held = UNION {{t} \X F[t] : t \in Threads} /\ Held' = UNION {{t} \X G[t] : t \in Threads}
  BY DEF Held
<1>2. \A t \in Threads : F[t] = 1 .. Len(batch[t]) + Len(queue[t]) /\ G[t] = 1 .. Len(batch'[t]) + Len(queue'[t])
  OBVIOUS
<1> HIDE DEF F, G
<1>3. /\ \A t, i : <<t, i>> \in Held <=> t \in Threads /\ i \in F[t]
      /\ \A x \in Held : IsPair(x)
  BY <1>1, Pairs
<1>4. /\ \A t, i : <<t, i>> \in Held' <=> t \in Threads /\ i \in G[t]
      /\ \A x \in Held' : IsPair(x)
  BY <1>1, Pairs
<1> QED BY <1>2, <1>3, <1>4

LEMMA HandMembers ==
  /\ \A p : p \in InHand <=> p \in Procs /\ pc[p] = "enq"
  /\ \A p : p \in InHand' <=> p \in Procs /\ pc'[p] = "enq"
BY DEF InHand

\* The lists keep their lengths together and nobody takes or gives a node.
LEMMA HeldFrame ==
  ASSUME HeldInv,
         \A t \in Threads : Len(batch'[t]) + Len(queue'[t]) = Len(batch[t]) + Len(queue[t]),
         \A p \in Procs : pc'[p] = "enq" <=> pc[p] = "enq",
         UNCHANGED <<freeNodes, leaked>>
  PROVE  HeldInv'
<1>1. \A t, i : <<t, i>> \in Held' <=> <<t, i>> \in Held
  BY HeldMembers
<1>2. Held' = Held
  BY <1>1, HeldMembers, SamePairs
<1>3. InHand' = InHand
  BY HandMembers
<1> QED BY <1>2, <1>3 DEF HeldInv, NodesConserved

LEMMA PcDomain == IInv => DOMAIN pc = Procs /\ DOMAIN ctx = Procs /\ DOMAIN call = Procs
BY DEF IInv, TypeOK, ControlType

LEMMA AllocNodeHeld ==
  ASSUME IInv, HeldInv, IInv', NEW p \in Procs, AllocNode(p)
  PROVE  HeldInv'
<1> USE DEF AllocNode, At
<1>1. ThreadType /\ ThreadType' /\ freeNodes \in Nat /\ leaked \in Nat /\ DOMAIN pc = Procs
  BY PcDomain DEF IInv, TypeOK, PoolType
<1>2. Held' = Held
  BY DEF Held, mailVars
<1>3. InHand' = InHand \cup {p} /\ p \notin InHand
  BY <1>1 DEF InHand
<1>4. IsFiniteSet(InHand') /\ Cardinality(InHand') = Cardinality(InHand) + 1
      /\ Cardinality(InHand) \in Nat /\ Cardinality(Held) \in Nat
  BY <1>3, FS_AddElement, FS_CardinalityType DEF HeldInv
<1> QED BY <1>1, <1>2, <1>4 DEF HeldInv, NodesConserved, HasFreeNode

LEMMA EnqueueHeld ==
  ASSUME IInv, HeldInv, IInv', NEW p \in Procs, Enqueue(p)
  PROVE  HeldInv'
<1> DEFINE t == Target(p)
           n == Len(batch[t]) + Len(queue[t])
<1>1. ThreadType /\ ThreadType' /\ freeNodes \in Nat /\ leaked \in Nat
  BY DEF IInv, TypeOK, PoolType
<1>2. pc[p] = "enq" /\ call[p].to \in Seq(Threads) /\ call[p].to # <<>>
  BY DEF IInv, TypeOK, ControlType, Call, CallInv, Enqueue, At
<1>3. t \in Threads
  BY <1>2 DEF Target
<1>4. /\ queue' = [queue EXCEPT ![t] = Append(queue[t], [kind |-> call[p].kind, job |-> call[p].job, sender |-> p])]
      /\ UNCHANGED <<batch, freeNodes, leaked>>
  BY DEF Enqueue, Link, nodeVars
<1> HIDE DEF t
<1>5. /\ n \in Nat
      /\ Len(batch'[t]) + Len(queue'[t]) = n + 1
      /\ \A u \in Threads \ {t} : Len(batch'[u]) + Len(queue'[u]) = Len(batch[u]) + Len(queue[u])
  BY <1>1, <1>3, <1>4 DEF ThreadType
<1>6. Held' = Held \cup {<<t, n + 1>>} /\ <<t, n + 1>> \notin Held
  <2>1. \A i : /\ <<t, i>> \in Held <=> i \in 1 .. n
               /\ <<t, i>> \in Held' <=> i \in 1 .. n + 1
    BY <1>3, <1>5, HeldMembers
  <2>2. \A u : u # t => \A i : <<u, i>> \in Held' <=> <<u, i>> \in Held
    BY <1>5, HeldMembers
  <2>3. n \in Nat
    BY <1>5
  <2> HIDE DEF n
  <2>4. \A i : /\ i \in 1 .. n + 1 <=> i \in 1 .. n \/ i = n + 1
               /\ n + 1 \notin 1 .. n
    BY <2>3
  <2>5. <<t, n + 1>> \notin Held
    BY <2>1, <2>4
  <2>6. \A x \in Held \cup {<<t, n + 1>>} : IsPair(x)
    BY HeldMembers DEF IsPair
  <2>7. \A u, i : <<u, i>> \in Held' <=> <<u, i>> \in Held \cup {<<t, n + 1>>}
    BY <2>1, <2>2, <2>4
  <2> QED BY <2>5, <2>6, <2>7, HeldMembers, SamePairs
<1>7. InHand' = InHand \ {p} /\ p \in InHand
  <2>1. /\ \A q \in Procs \ {p} : pc'[q] = pc[q]
        /\ pc'[p] # "enq"
    BY <1>2, PcDomain DEF Enqueue, NextTarget
  <2> QED BY <1>2, <2>1, HandMembers
<1>8. /\ IsFiniteSet(InHand') /\ Cardinality(InHand') = Cardinality(InHand) - 1
      /\ IsFiniteSet(Held') /\ Cardinality(Held') = Cardinality(Held) + 1
      /\ Cardinality(InHand) \in Nat /\ Cardinality(Held) \in Nat
  BY <1>6, <1>7, FS_AddElement, FS_RemoveElement, FS_CardinalityType DEF HeldInv
<1> QED BY <1>1, <1>4, <1>8 DEF HeldInv, NodesConserved

LEMMA RejectHeld ==
  ASSUME IInv, HeldInv, IInv', NEW p \in Procs, Reject(p)
  PROVE  HeldInv'
<1> USE DEF Reject, At
<1>1. freeNodes \in Nat /\ leaked \in Nat /\ DOMAIN pc = Procs
  BY PcDomain DEF IInv, TypeOK, PoolType
<1>2. Held' = Held
  BY DEF Held, mailVars
<1>3. InHand' = InHand \ {p} /\ p \in InHand
  BY <1>1 DEF InHand
<1>4. IsFiniteSet(InHand') /\ Cardinality(InHand') = Cardinality(InHand) - 1
      /\ Cardinality(InHand) \in Nat /\ Cardinality(Held) \in Nat
  BY <1>3, FS_RemoveElement, FS_CardinalityType DEF HeldInv
<1> QED BY <1>1, <1>2, <1>4 DEF HeldInv, NodesConserved

LEMMA FreesHeld ==
  ASSUME IInv, HeldInv, IInv', NEW p \in Threads, Frees(p)
  PROVE  HeldInv'
<1> DEFINE b == Len(batch[p])
           q == Len(queue[p])
           back == {p} \X (q + 1 .. q + b)
<1>1. ThreadType /\ ThreadType' /\ freeNodes \in Nat /\ leaked \in Nat
  BY DEF IInv, TypeOK, PoolType
<1>2. b \in Nat /\ q \in Nat /\ p \in Procs
  BY <1>1 DEF ThreadType, Procs
<1>3. freeNodes' = freeNodes + b /\ leaked' = leaked /\ queue' = queue
      /\ batch' = [batch EXCEPT ![p] = <<>>]
  BY DEF Frees, Spliced
<1>4. /\ Len(batch'[p]) = 0 /\ Len(queue'[p]) = q
      /\ \A u \in Threads \ {p} : batch'[u] = batch[u] /\ queue'[u] = queue[u]
  BY <1>1, <1>3, EmptySeq DEF ThreadType
<1>5. /\ \A i : /\ <<p, i>> \in Held <=> i \in 1 .. b + q
                /\ <<p, i>> \in Held' <=> i \in 1 .. 0 + q
      /\ \A u : u # p => \A i : <<u, i>> \in Held' <=> <<u, i>> \in Held
  BY <1>4, HeldMembers
<1> HIDE DEF b, q
<1>6. Held' = Held \ back /\ back \subseteq Held
  <2>1. \A u, i : <<u, i>> \in back <=> u = p /\ i \in q + 1 .. q + b
    OBVIOUS
  <2>2. \A x \in back : IsPair(x)
    BY DEF IsPair
  <2> HIDE DEF back
  <2>3. \A i : /\ i \in 1 .. 0 + q <=> i \in 1 .. b + q /\ i \notin q + 1 .. q + b
               /\ i \in q + 1 .. q + b => i \in 1 .. b + q
    BY <1>2
  <2>4. \A u, i : <<u, i>> \in back => <<u, i>> \in Held
    BY <1>5, <2>1, <2>3
  <2>5. \A u, i : <<u, i>> \in Held' <=> <<u, i>> \in Held /\ <<u, i>> \notin back
    <3> SUFFICES ASSUME NEW u, NEW i
                 PROVE  <<u, i>> \in Held' <=> <<u, i>> \in Held /\ <<u, i>> \notin back
      OBVIOUS
    <3>1. CASE u = p
      BY <1>5, <2>1, <2>3, <3>1
    <3>2. CASE u # p
      BY <1>5, <2>1, <3>2
    <3> QED BY <3>1, <3>2
  <2>6. \A x \in back : x \in Held
    BY <2>2, <2>4 DEF IsPair
  <2>7. Held' = Held \ back
    BY <2>2, <2>5, HeldMembers, SamePairs
  <2> QED BY <2>6, <2>7
<1>7. IsFiniteSet(back) /\ Cardinality(back) = b
  <2>1. IsFiniteSet(q + 1 .. q + b) /\ Cardinality(q + 1 .. q + b) = b
    <3>1. q + 1 \in Int /\ q + b \in Int /\ (q + b) - (q + 1) + 1 = b
          /\ (q + 1 > q + b => b = 0)
      BY <1>2
    <3>2. /\ IsFiniteSet(q + 1 .. q + b)
          /\ Cardinality(q + 1 .. q + b) =
               IF q + 1 > q + b THEN 0 ELSE (q + b) - (q + 1) + 1
      BY <3>1, FS_Interval
    <3> QED BY <3>1, <3>2
  <2>2. IsFiniteSet({p}) /\ Cardinality({p}) = 1
    BY FS_Singleton
  <2>3. IsFiniteSet(back) /\ Cardinality(back) = Cardinality({p}) * Cardinality(q + 1 .. q + b)
    BY <2>1, <2>2, FS_Product
  <2> QED BY <1>2, <2>1, <2>2, <2>3
<1> HIDE DEF back
<1>8. Held \cap back = back
  BY <1>6
<1>9. IsFiniteSet(Held) /\ Cardinality(Held) \in Nat /\ Cardinality(InHand) \in Nat
  BY FS_CardinalityType DEF HeldInv
<1>10. IsFiniteSet(Held') /\ Cardinality(Held') = Cardinality(Held) - b
  BY <1>6, <1>7, <1>8, <1>9, FS_Difference
<1>11. InHand' = InHand
  BY PcDomain, HandMembers DEF Frees, At
<1> QED BY <1>1, <1>2, <1>3, <1>9, <1>10, <1>11 DEF HeldInv, NodesConserved

LEMMA DrainHeld ==
  ASSUME IInv, HeldInv, IInv', NEW p \in Threads, Drain(p)
  PROVE  HeldInv'
<1> USE DEF Drain, At
<1>1. ThreadType /\ ThreadType' /\ DOMAIN pc = Procs /\ p \in Procs
  BY PcDomain DEF IInv, TypeOK, Procs
<1>2. batch[p] = <<>> /\ Len(batch[p]) = 0
  BY EmptySeq DEF IInv, BatchInv, NoBatch
<1>3. \A t \in Threads : Len(batch'[t]) + Len(queue'[t]) = Len(batch[t]) + Len(queue[t])
  <2>1. Len(batch'[p]) = Len(queue[p]) /\ Len(queue'[p]) = 0 /\ Len(queue[p]) \in Nat
    BY <1>1, EmptySeq DEF ThreadType
  <2>2. \A t \in Threads \ {p} : batch'[t] = batch[t] /\ queue'[t] = queue[t]
    BY <1>1 DEF ThreadType
  <2>3. Len(queue[p]) + 0 = 0 + Len(queue[p])
    BY <2>1
  <2> QED BY <1>2, <2>1, <2>2, <2>3
<1>4. \A q \in Procs : pc'[q] = "enq" <=> pc[q] = "enq"
  BY <1>1
<1> QED BY <1>1, <1>3, <1>4, HeldFrame DEF nodeVars

\* What leaves the lists alone keeps the nodes, if it takes and gives none.
LEMMA OtherHeld ==
  ASSUME IInv, HeldInv, IInv', UNCHANGED <<batch, queue, freeNodes, leaked>>,
         \A p \in Procs : pc'[p] = "enq" <=> pc[p] = "enq"
  PROVE  HeldInv'
BY HeldFrame DEF IInv, TypeOK

LEMMA NextHeld == IInv /\ IInv' /\ HeldInv /\ [Next]_vars => HeldInv'
<1> SUFFICES ASSUME IInv, IInv', HeldInv, [Next]_vars PROVE HeldInv'
  OBVIOUS
<1> USE DEF At, mailVars, nodeVars
<1>0. DOMAIN pc = Procs
  BY PcDomain
<1>1. ASSUME NEW p \in Procs, Push(p) PROVE HeldInv'
  <2>1. ASSUME NEW to, NEW next \in {"node", "lock"}, StartPush(p, to, next) PROVE HeldInv'
    BY <1>0, <2>1, OtherHeld DEF StartPush
  <2>2. CASE UserPush(p) \/ LockMd(p)
    BY <1>0, <2>2, OtherHeld DEF UserPush, LockMd
  <2>3. CASE RejectedDone(p)
    <3>1. \A q \in Procs : pc'[q] = "enq" <=> pc[q] = "enq"
      BY <1>0, <2>3 DEF RejectedDone, NextTarget
    <3> QED BY <2>3, <3>1, OtherHeld DEF RejectedDone
  <2>4. CASE NullCall(p) \/ RejectedStale(p)
    BY <2>4, OtherHeld DEF NullCall, RejectedStale, Crash
  <2> QED
    BY <1>1, <2>1, <2>2, <2>3, <2>4, AllocNodeHeld, EnqueueHeld, RejectHeld
       DEF Push, PushThread, PushPool, PushLua, PushAll
<1>2. ASSUME NEW p \in Threads, Exec(p) PROVE HeldInv'
  <2>0. p \in Procs
    BY DEF Procs
  <2>1. CASE StartReturns(p) \/ WorkReturns(p) \/ DoneReturns(p)
    BY <1>0, <2>0, <2>1, OtherHeld DEF StartReturns, WorkReturns, DoneReturns
  <2>2. CASE RunWork(p) \/ RunDone(p) \/ RunStop(p) \/ RunStale(p)
    BY <1>0, <2>0, <2>2, OtherHeld DEF RunWork, RunDone, RunStop, RunStale, HasCurr, Crash
  <2>3. CASE FinishNode(p) \/ Exit(p)
    BY <1>0, <2>0, <2>3, OtherHeld DEF FinishNode, Exit
  <2> QED BY <1>2, <2>1, <2>2, <2>3, DrainHeld, FreesHeld DEF Exec
<1>3. ASSUME NEW p \in Procs, Waitstops(p) PROVE HeldInv'
  BY <1>0, <1>3, OtherHeld DEF Waitstops, CallWaitstops, AllStopped, Poll, vars
<1>4. CASE Rest \/ UNCHANGED vars
  BY <1>0, <1>4, OtherHeld DEF Rest, vars
<1> QED BY <1>1, <1>2, <1>3, <1>4 DEF Next

LEMMA InitHeld == Init => HeldInv
<1> SUFFICES ASSUME Init PROVE HeldInv
  OBVIOUS
<1>1. ThreadType
  BY InitIInv DEF IInv, TypeOK
<1>2. InHand = {}
  BY DEF Init, InHand
<1>3. Held = {}
  <2>1. \A t \in Threads : Len(batch[t]) = 0 /\ Len(queue[t]) = 0
    BY EmptySeq DEF Init
  <2>2. \A i : i \notin 1 .. 0 + 0
    OBVIOUS
  <2>3. \A t, i : <<t, i>> \notin Held
    BY <2>1, <2>2, HeldMembers
  <2> QED BY <2>3, HeldMembers DEF IsPair
<1> QED BY <1>2, <1>3, FS_EmptySet, BoundsAssumption DEF HeldInv, NodesConserved, Init

-----------------------------------------------------------------------------
(* What a node and a push call know about their job: it was pushed, and by *)
(* whom.  And who ends it: CellInv, PushInv, FreshInv, HomeInv and EndInv. *)

\* A node and the job it refers to: the job has been pushed, by the thread that
\* gets the result.
CellOk(h, t, c) ==
    /\ c.kind # "stop" => h[c.job].state # "unused"
    /\ c.kind = "work" => h[c.job].by = c.sender
    /\ c.kind = "result" => h[c.job].by = t

CellInv ==
    \A t \in Threads :
       /\ \A i \in DOMAIN batch[t] : CellOk(hist, t, batch[t][i])
       /\ \A i \in DOMAIN queue[t] : CellOk(hist, t, queue[t][i])

WorkCallOk(p) ==
    /\ call[p].job <= pushes
    /\ IF pc[p] = "job"
       THEN hist[call[p].job].state = "unused" /\ call[p].to = <<>>
       ELSE hist[call[p].job].state # "unused" /\ hist[call[p].job].by = p
    /\ \A q \in Procs \ {p} : call[q].kind = "work" => call[q].job # call[p].job

ResultCallOk(p) ==
    /\ hist[call[p].job].state # "unused"
    /\ call[p].to = <<hist[call[p].job].by>>

PushInv ==
    \A p \in Procs :
       /\ call[p].kind = "work" => WorkCallOk(p)
       /\ call[p].kind = "result" => ResultCallOk(p)
       /\ pc[p] = "rej" => leaked > 0
       /\ pc[p] \notin {"job", "lock", "node", "enq", "rej"} => call[p].to = <<>>

FreshInv == \A j \in JobIds : j > pushes => hist[j].state = "unused"

\* What comes back as a result, and is not rejected, is called back at home.
HomeInv == \A j \in JobIds : Counted(j) => hist[j].at \subseteq {hist[j].by}

\* What the counter of job j says, with and without rejected pushes: a target is waited
\* for or was called back, a rejected push leaves the counter too high, and no object
\* goes back that was counted down properly and not to zero.
JobLegs(j) ==
    /\ IsFiniteSet(InBatch(j)) /\ IsFiniteSet(InQueue(j)) /\ IsFiniteSet(ToPush(j))
    /\ Outstanding(j) + hist[j].dones = Len(hist[j].to)
    /\ Len(hist[j].to) <= legs[j] + hist[j].dones
    /\ Counted(j) /\ ~Live(j) => legs[j] = 0
    /\ leaked = 0 => Counted(j)

LegsInv == \A j \in JobIds : JobLegs(j)

\* The done callback that thread p runs is the last one of its job.
Ending(p) == pc[p] \in Busy /\ ctx[p] = "done" /\ jobEnd[p]

EndInv ==
    \A p \in Threads :
       Ending(p) =>
          /\ Live(Curr(p).job)
          /\ legs[Curr(p).job] = 0
          /\ \A q \in Threads \ {p} : Ending(q) => Curr(q).job # Curr(p).job

\* A job that is counted down to zero is given back by somebody.
LastInv ==
    \A j \in JobIds : Live(j) /\ legs[j] = 0 => \E t \in Threads : InLastDone(t, j)

KnownInv == CellInv /\ PushInv /\ FreshInv /\ HomeInv

\* A pushed job stays pushed, by the same thread.
HistKept ==
    \A j \in JobIds :
       hist[j].state # "unused" => hist'[j].state # "unused" /\ hist'[j].by = hist[j].by

-----------------------------------------------------------------------------
LEMMA CellTypes ==
  ASSUME IInv, CellInv, HistKept, NEW t \in Threads, NEW c \in Cell, CellOk(hist, t, c)
  PROVE  CellOk(hist', t, c)
BY DEF Cell, CellOk, HistKept

LEMMA CellFrame ==
  ASSUME IInv, CellInv, HistKept, UNCHANGED <<batch, queue>>
  PROVE  CellInv'
<1> SUFFICES ASSUME NEW t \in Threads
             PROVE  /\ \A i \in DOMAIN batch[t] : CellOk(hist', t, batch[t][i])
                    /\ \A i \in DOMAIN queue[t] : CellOk(hist', t, queue[t][i])
  BY DEF CellInv
<1>1. batch[t] \in Seq(Cell) /\ queue[t] \in Seq(Cell)
  BY DEF IInv, TypeOK, ThreadType
<1>2. \A i \in DOMAIN batch[t] : batch[t][i] \in Cell /\ CellOk(hist, t, batch[t][i])
  BY <1>1 DEF CellInv
<1>3. \A i \in DOMAIN queue[t] : queue[t][i] \in Cell /\ CellOk(hist, t, queue[t][i])
  BY <1>1 DEF CellInv
<1> QED BY <1>2, <1>3, CellTypes

\* What a step of p keeps of PushInv, if it keeps it for p itself.
LEMMA PushStep ==
  ASSUME IInv, IInv', PushInv, HistKept, NEW p \in Procs,
         \A q \in Procs \ {p} : call'[q] = call[q] /\ pc'[q] = pc[q],
         pushes' >= pushes, leaked' >= leaked,
         \A j \in JobIds : /\ hist[j].state = "unused"
                           /\ ~(call[p].kind = "work" /\ call[p].job = j)
                           => hist'[j].state = "unused",
         PushInv!(p)'
  PROVE  PushInv'
<1> SUFFICES ASSUME NEW q \in Procs \ {p} PROVE PushInv!(q)'
  BY DEF PushInv
<1>1. /\ call[q] \in Call /\ leaked \in Nat /\ leaked' \in Nat
      /\ pushes \in Nat /\ pushes' \in Nat
  <2>1. call[q] \in Call
    BY DEF IInv, TypeOK, ControlType
  <2> QED BY <2>1 DEF IInv, TypeOK, PoolType
<1>2. call[q].kind \in {"work", "result"} => call[q].job \in JobIds /\ call[q].job \in Nat
  BY <1>1 DEF Call, JobIds
<1>3. call'[q] = call[q] /\ pc'[q] = pc[q]
  OBVIOUS
<1>4. ASSUME call[q].kind = "work" PROVE WorkCallOk(q)'
  <2>1. WorkCallOk(q)
    BY <1>4 DEF PushInv
  <2>2. call'[q].job <= pushes'
    BY <1>1, <1>2, <1>3, <1>4, <2>1 DEF WorkCallOk
  <2>3. ~(call[p].kind = "work" /\ call[p].job = call[q].job)
    BY <2>1 DEF WorkCallOk
  <2>4. \A r \in Procs \ {q} : call'[r].kind = "work" => call'[r].job # call'[q].job
    <3> SUFFICES ASSUME NEW r \in Procs \ {q}, call'[r].kind = "work"
                 PROVE  call'[r].job # call'[q].job
      OBVIOUS
    <3>1. CASE r = p
      BY <1>3, <1>4, <3>1 DEF WorkCallOk
    <3>2. CASE r # p
      BY <1>3, <2>1, <3>2 DEF WorkCallOk
    <3> QED BY <3>1, <3>2
  <2>5. /\ hist[call[q].job].state = "unused" => hist'[call[q].job].state = "unused"
        /\ hist[call[q].job].state # "unused" =>
              /\ hist'[call[q].job].state # "unused"
              /\ hist'[call[q].job].by = hist[call[q].job].by
    BY <1>2, <1>4, <2>3 DEF HistKept
  <2> QED BY <1>3, <2>1, <2>2, <2>4, <2>5 DEF WorkCallOk
<1>5. call[q].kind = "result" => ResultCallOk(q)'
  BY <1>2, <1>3 DEF PushInv, ResultCallOk, HistKept
<1>6. pc'[q] = "rej" => leaked' > 0
  BY <1>1, <1>3 DEF PushInv
<1> QED BY <1>3, <1>4, <1>5, <1>6 DEF PushInv

\* p keeps its call and does not come from user code.
LEMMA PushFrame ==
  ASSUME IInv, IInv', PushInv, HistKept, NEW p \in Procs,
         \A q \in Procs \ {p} : pc'[q] = pc[q],
         UNCHANGED <<call, pushes>>, leaked' >= leaked,
         pc'[p] = "job" <=> pc[p] = "job",
         pc'[p] = "rej" => leaked' > 0,
         pc'[p] \notin {"job", "lock", "node", "enq", "rej"} =>
            pc[p] \notin {"job", "lock", "node", "enq", "rej"},
         \A j \in JobIds : hist[j].state = "unused" => hist'[j].state = "unused"
  PROVE  PushInv'
<1>1. call[p] \in Call
  BY DEF IInv, TypeOK, ControlType
<1>2. call[p].kind \in {"work", "result"} => call[p].job \in JobIds
  BY <1>1 DEF Call
<1>3. call[p].kind = "work" => WorkCallOk(p)'
  BY <1>2 DEF PushInv, WorkCallOk, HistKept
<1>4. call[p].kind = "result" => ResultCallOk(p)'
  BY <1>2 DEF PushInv, ResultCallOk, HistKept
<1>5. PushInv!(p)'
  BY <1>3, <1>4 DEF PushInv
<1>6. pushes' >= pushes
  BY DEF IInv, TypeOK, PoolType
<1> QED BY <1>5, <1>6, PushStep

LEMMA JobTypes ==
  ASSUME IInv, NEW j \in JobIds
  PROVE  /\ Len(hist[j].to) \in Nat /\ hist[j].dones \in Nat /\ legs[j] \in Int
         /\ leaked \in Nat /\ hist[j] \in History
<1>1. hist[j] \in History /\ legs[j] \in Int /\ leaked \in Nat
  BY DEF IInv, TypeOK, PoolType, HistoryType
<1>2. hist[j].to \in Seq(Threads) /\ hist[j].dones \in Nat
  BY <1>1 DEF History
<1> QED BY <1>1, <1>2

\* The history does not change.
LEMMA SameHist ==
  ASSUME FreshInv, HomeInv, hist' = hist, legs' = legs, pushes' >= pushes, IInv, IInv'
  PROVE  FreshInv' /\ HomeInv' /\ HistKept
<1>1. pushes \in Nat /\ pushes' \in Nat
  BY DEF IInv, TypeOK, PoolType
<1>2. FreshInv'
  BY <1>1 DEF FreshInv, JobIds
<1>3. HomeInv'
  BY DEF HomeInv, Counted
<1> QED BY <1>2, <1>3 DEF HistKept

-----------------------------------------------------------------------------
LEMMA UserPushKnown ==
  ASSUME IInv, IInv', KnownInv, NEW p \in Procs, UserPush(p)
  PROVE  KnownInv'
<1> USE DEF KnownInv, UserPush, At
<1>1. pushes \in Nat /\ leaked \in Nat /\ pushes + 1 \in JobIds
  BY BoundsAssumption DEF IInv, TypeOK, PoolType, JobIds
<1>2. hist' = hist /\ leaked' = leaked /\ pushes' = pushes + 1 /\ UNCHANGED <<batch, queue, legs>>
  BY DEF histVars, nodeVars, mailVars
<1>3. pushes' >= pushes /\ leaked' >= leaked
  BY <1>1, <1>2
<1>4. FreshInv' /\ HomeInv' /\ HistKept
  BY <1>2, <1>3, SameHist
<1>5. CellInv'
  BY <1>2, <1>4, CellFrame
<1>6. /\ pc'[p] = "job"
      /\ call'[p] = [kind |-> "work", job |-> pushes + 1, to |-> <<>>]
      /\ \A q \in Procs \ {p} : call'[q] = call[q] /\ pc'[q] = pc[q]
  BY PcDomain
<1>7. WorkCallOk(p)'
  <2>1. hist[pushes + 1].state = "unused"
    BY <1>1 DEF FreshInv
  <2>2. \A q \in Procs : call[q].kind = "work" => call[q].job \in Nat /\ call[q].job <= pushes
    BY DEF PushInv, WorkCallOk, IInv, TypeOK, ControlType, Call, JobIds
  <2>3. \A q \in Procs \ {p} : call'[q].kind = "work" => call'[q].job # pushes + 1
    BY <1>1, <1>6, <2>2
  <2> QED BY <1>1, <1>2, <1>6, <2>1, <2>3 DEF WorkCallOk
<1>8. PushInv!(p)'
  BY <1>6, <1>7
<1>9. PushInv'
  BY <1>2, <1>3, <1>4, <1>6, <1>8, PushStep
<1> QED BY <1>4, <1>5, <1>9

\* A step that leaves lists, calls and the history alone.
LEMMA OtherKnown ==
  ASSUME IInv, IInv', KnownInv, NEW p \in Procs,
         UNCHANGED <<batch, queue, call, pushes, hist, legs>>, leaked' >= leaked,
         \A q \in Procs \ {p} : pc'[q] = pc[q],
         pc'[p] = "job" <=> pc[p] = "job",
         pc'[p] = "rej" => leaked' > 0,
         pc'[p] \notin {"job", "lock", "node", "enq", "rej"} =>
            pc[p] \notin {"job", "lock", "node", "enq", "rej"}
  PROVE  KnownInv'
<1>1. pushes' >= pushes
  BY DEF IInv, TypeOK, PoolType
<1>2. FreshInv' /\ HomeInv' /\ HistKept
  BY <1>1, SameHist DEF KnownInv
<1>3. CellInv'
  BY <1>2, CellFrame DEF KnownInv
<1>4. PushInv'
  BY <1>2, PushFrame DEF KnownInv
<1> QED BY <1>2, <1>3, <1>4 DEF KnownInv

LEMMA StutterKnown ==
  ASSUME IInv, IInv', KnownInv, UNCHANGED <<batch, queue, call, pushes, hist, legs, leaked, pc>>
  PROVE  KnownInv'
<1>1. leaked' >= leaked
  BY DEF IInv, TypeOK, PoolType
<1>2. \A p \in Procs : pc'[p] = "rej" => leaked' > 0
  BY DEF KnownInv, PushInv
<1>3. \E p : p \in Procs
  BY ThreadsAssumption DEF Procs
<1> QED BY <1>1, <1>2, <1>3, OtherKnown

LEMMA QuietKnown ==
  ASSUME IInv, IInv', KnownInv, NEW p \in Procs,
         \/ LockMd(p) \/ AllocNode(p) \/ AllStopped(p) \/ NullCall(p) \/ RejectedStale(p) \/ Poll(p)
         \/ StartReturns(p) \/ RunWork(p) \/ RunStop(p) \/ RunStale(p)
         \/ FinishNode(p) \/ Exit(p)
  PROVE  KnownInv'
<1> USE PcDomain DEF At, mailVars, nodeVars, jobVars, histVars
<1>0. leaked \in Nat
  BY DEF IInv, TypeOK, PoolType
<1>1. CASE LockMd(p) \/ AllocNode(p)
  BY <1>0, <1>1, OtherKnown DEF LockMd, AllocNode
<1>2. CASE AllStopped(p) \/ StartReturns(p)
  BY <1>0, <1>2, OtherKnown DEF AllStopped, StartReturns
<1>3. CASE RunWork(p) \/ RunStop(p) \/ FinishNode(p) \/ Exit(p)
  BY <1>0, <1>3, OtherKnown DEF RunWork, RunStop, FinishNode, Exit, HasCurr
<1>4. CASE NullCall(p) \/ RejectedStale(p) \/ RunStale(p) \/ Poll(p)
  BY <1>4, StutterKnown DEF NullCall, RejectedStale, RunStale, Crash, Poll, vars
<1> QED BY <1>1, <1>2, <1>3, <1>4

LEMMA RejectKnown ==
  ASSUME IInv, IInv', KnownInv, NEW p \in Procs, Reject(p)
  PROVE  KnownInv'
<1>1. leaked \in Nat /\ leaked' = leaked + 1
  BY DEF IInv, TypeOK, PoolType, Reject
<1>2. leaked' >= leaked /\ leaked' > 0
  BY <1>1
<1> QED BY <1>2, PcDomain, OtherKnown DEF Reject, At, mailVars, jobVars, histVars

\* The threads that a push goes to, and whether it takes md->mtx_ for that.
PoolThreads == {Pool[i] : i \in DOMAIN Pool}
GoesTo(to, next) ==
    \/ "thread" \in Ops /\ next = "node" /\ \E t \in Threads : to = <<t>>
    \/ "pool" \in Ops /\ next = "node" /\ \E t \in PoolThreads : to = <<t>>
    \/ "lua" \in Ops /\ next = "lock" /\ to = LuaThreads
    \/ "all" \in Ops /\ next = "lock" /\ to = AllThreads

\* Every kind of push is a StartPush with the threads that it goes to.
LEMMA PushesOne ==
  ASSUME IInv, NEW p \in Procs,
         PushThread(p) \/ PushPool(p) \/ PushLua(p) \/ PushAll(p)
  PROVE  \E to \in Seq(Threads) \ {<<>>}, next \in {"node", "lock"} :
            StartPush(p, to, next) /\ GoesTo(to, next)
<1>1. CASE PushThread(p)
  <2>1. PICK t \in Threads : StartPush(p, <<t>>, "node") /\ "thread" \in Ops
    BY <1>1 DEF PushThread
  <2>2. <<t>> \in Seq(Threads) \ {<<>>}
    OBVIOUS
  <2> QED BY <2>1, <2>2 DEF GoesTo
<1>2. CASE PushPool(p)
  <2> DEFINE slot(cid) == ((IF cid # 0 THEN cid ELSE index + 1) % Len(Pool)) + 1
  <2>1. PICK cid \in Cids : StartPush(p, <<Pool[slot(cid)]>>, "node") /\ "pool" \in Ops
    BY <1>2 DEF PushPool
  <2>2. Pool \in Seq(Threads) /\ Len(Pool) \in Nat \ {0}
    BY RegistriesAssumption
  <2>3. (IF cid # 0 THEN cid ELSE index + 1) \in Nat
    BY BoundsAssumption DEF IInv, TypeOK, PoolType
  <2>4. slot(cid) \in 1 .. Len(Pool)
    BY <2>2, <2>3
  <2> HIDE DEF slot
  <2>5. <<Pool[slot(cid)]>> \in Seq(Threads) \ {<<>>} /\ Pool[slot(cid)] \in PoolThreads
    BY <2>2, <2>4 DEF PoolThreads
  <2> QED BY <2>1, <2>5 DEF GoesTo
<1>3. CASE PushLua(p) \/ PushAll(p)
  <2>1. LuaThreads \in Seq(Threads) \ {<<>>} /\ AllThreads \in Seq(Threads) \ {<<>>}
    BY RegistriesAssumption
  <2> QED BY <1>3, <2>1 DEF PushLua, PushAll, GoesTo
<1> QED BY <1>1, <1>2, <1>3

LEMMA StartPushKnown ==
  ASSUME IInv, IInv', KnownInv, NEW p \in Procs, NEW to \in Seq(Threads), to # <<>>,
         NEW next \in {"node", "lock"}, StartPush(p, to, next)
  PROVE  KnownInv'
<1> USE DEF KnownInv
<1> DEFINE j == call[p].job
<1>1. pc[p] = "job" /\ call[p].kind = "work" /\ j \in JobIds
  BY DEF StartPush, At, IInv, CallInv
<1>2. WorkCallOk(p)
  BY <1>1 DEF PushInv
<1>3. hist[j].state = "unused" /\ j <= pushes /\ j \in Nat /\ pushes \in Nat
  BY <1>1, <1>2 DEF WorkCallOk, JobIds, IInv, TypeOK, PoolType
<1>4. /\ hist' = [hist EXCEPT ![j] = Pushed(p, to)]
      /\ call' = [call EXCEPT ![p] = [kind |-> "work", job |-> j, to |-> to]]
      /\ pc' = [pc EXCEPT ![p] = next]
      /\ legs' = [legs EXCEPT ![j] = Len(to)]
      /\ leaked' = leaked /\ pushes' = pushes /\ UNCHANGED <<batch, queue>>
  BY DEF StartPush, nodeVars, mailVars, JobCountOf
<1>5. DOMAIN hist = JobIds /\ DOMAIN legs = JobIds /\ leaked \in Nat
  BY DEF IInv, TypeOK, HistoryType, PoolType
<1>6. /\ hist'[j] = Pushed(p, to)
      /\ \A i \in JobIds \ {j} : hist'[i] = hist[i] /\ legs'[i] = legs[i]
      /\ call'[p] = [kind |-> "work", job |-> j, to |-> to]
      /\ pc'[p] = next
      /\ \A q \in Procs \ {p} : call'[q] = call[q] /\ pc'[q] = pc[q]
  BY <1>1, <1>4, <1>5, PcDomain
<1> HIDE DEF j
<1>7. HistKept
  BY <1>3, <1>6 DEF HistKept
<1>8. CellInv'
  BY <1>4, <1>7, CellFrame
<1>9. FreshInv'
  BY <1>3, <1>4, <1>6 DEF FreshInv, JobIds
<1>10. HomeInv'
  BY <1>6 DEF HomeInv, Counted, Pushed
<1>11. PushInv!(p)'
  <2>1. \A q \in Procs \ {p} : call'[q].kind = "work" => call'[q].job # j
    BY <1>2, <1>6 DEF WorkCallOk, j
  <2>2. WorkCallOk(p)'
    BY <1>3, <1>4, <1>6, <2>1 DEF WorkCallOk, Pushed
  <2> QED BY <1>6, <2>2
<1>12. PushInv'
  <2>1. pushes' >= pushes /\ leaked' >= leaked
    BY <1>3, <1>4, <1>5
  <2>2. \A i \in JobIds : hist[i].state = "unused" /\ ~(call[p].kind = "work" /\ call[p].job = i) =>
           hist'[i].state = "unused"
    BY <1>1, <1>6 DEF j
  <2> QED BY <1>6, <1>7, <1>11, <2>1, <2>2, PushStep
<1> QED BY <1>8, <1>9, <1>10, <1>12

LEMMA NextTargetPush ==
  ASSUME IInv, IInv', PushInv, HistKept, NEW p \in Procs, pc[p] \in {"enq", "rej"},
         NextTarget(p), UNCHANGED <<pushes, leaked>>,
         \A j \in JobIds : hist[j].state = "unused" => hist'[j].state = "unused"
  PROVE  PushInv'
<1>1. \A q \in Procs \ {p} : call'[q] = call[q] /\ pc'[q] = pc[q]
  BY PcDomain DEF NextTarget
<1>2. pushes' >= pushes /\ leaked' >= leaked
  BY DEF IInv, TypeOK, PoolType
<1>3. PushInv!(p)'
  <2>1. CASE Len(call[p].to) > 1
    <3>1. /\ call'[p].kind = call[p].kind /\ call'[p].job = call[p].job
          /\ pc'[p] = "node"
      BY <2>1, PcDomain DEF NextTarget
    <3>2. ASSUME call[p].kind = "result" PROVE FALSE
      <4>1. call[p].to = <<hist[call[p].job].by>>
        BY <3>2 DEF PushInv, ResultCallOk
      <4>2. Len(call[p].to) = 1
        BY <4>1
      <4> QED BY <2>1, <4>2
    <3>3. call[p].kind = "work" => call[p].job \in JobIds
      BY DEF IInv, CallInv
    <3>4. call[p].kind = "work" => WorkCallOk(p)'
      BY <1>1, <3>1, <3>3 DEF PushInv, WorkCallOk, HistKept
    <3> QED BY <3>1, <3>2, <3>4
  <2>2. CASE ~(Len(call[p].to) > 1)
    BY <2>2, PcDomain DEF NextTarget, NoCall
  <2> QED BY <2>1, <2>2
<1> QED BY <1>1, <1>2, <1>3, PushStep

LEMMA EnqueueKnown ==
  ASSUME IInv, IInv', KnownInv, NEW p \in Procs, Enqueue(p)
  PROVE  KnownInv'
<1> USE DEF KnownInv
<1> DEFINE t == Target(p)
           c == [kind |-> call[p].kind, job |-> call[p].job, sender |-> p]
<1>1. pc[p] = "enq" /\ call[p] \in Call /\ call[p].to # <<>>
  BY DEF IInv, TypeOK, ControlType, CallInv, Enqueue, At
<1>2. t \in Threads
  BY <1>1 DEF Target, Call
<1>3. /\ queue' = [queue EXCEPT ![t] = Append(queue[t], c)]
      /\ UNCHANGED <<batch, hist, legs, leaked, pushes>>
  BY DEF Enqueue, Link, nodeVars, jobVars, histVars
<1>4. pushes' >= pushes /\ leaked' >= leaked
  BY <1>3 DEF IInv, TypeOK, PoolType
<1>5. FreshInv' /\ HomeInv' /\ HistKept
  BY <1>3, <1>4, SameHist
<1>6. PushInv'
  BY <1>1, <1>3, <1>5, NextTargetPush DEF Enqueue
<1>7. CellOk(hist', t, c)
  <2>1. CASE call[p].kind = "work"
    <3>1. WorkCallOk(p) /\ pc[p] # "job"
      BY <1>1, <2>1 DEF PushInv
    <3> QED BY <1>3, <2>1, <3>1 DEF WorkCallOk, CellOk
  <2>2. CASE call[p].kind = "result"
    <3>1. ResultCallOk(p)
      BY <2>2 DEF PushInv
    <3>2. t = hist[call[p].job].by
      BY <3>1 DEF ResultCallOk, Target
    <3> HIDE DEF t
    <3> QED BY <1>3, <2>2, <3>1, <3>2 DEF ResultCallOk, CellOk
  <2>3. CASE call[p].kind \in {"none", "stop"}
    <3>1. call[p].kind = "stop"
      BY <1>1, <2>3 DEF IInv, CallInv
    <3> HIDE DEF t
    <3> QED BY <3>1 DEF CellOk
  <2> QED BY <1>1, <2>1, <2>2, <2>3 DEF Call
<1> HIDE DEF t, c
<1>8. CellInv'
  <2> SUFFICES ASSUME NEW u \in Threads
               PROVE  /\ \A i \in DOMAIN batch[u] : CellOk(hist', u, batch[u][i])
                      /\ \A i \in DOMAIN queue'[u] : CellOk(hist', u, queue'[u][i])
    BY <1>3 DEF CellInv
  <2>1. hist' = hist
    BY <1>3
  <2>2. queue \in [Threads -> Seq(Cell)]
    BY DEF IInv, TypeOK, ThreadType
  <2>3. CASE u = t
    <3>1. queue'[t] = Append(queue[t], c) /\ queue[t] \in Seq(Cell)
      BY <1>2, <1>3, <2>2
    <3>2. \A i \in DOMAIN queue'[t] : (i \in DOMAIN queue[t] /\ queue'[t][i] = queue[t][i]) \/ queue'[t][i] = c
      BY <3>1
    <3> QED BY <1>3, <1>7, <2>1, <2>3, <3>2 DEF CellInv
  <2>4. CASE u # t
    BY <1>3, <2>1, <2>2, <2>4 DEF CellInv
  <2> QED BY <2>3, <2>4
<1> QED BY <1>5, <1>6, <1>8

\* The history of one live job changes, and it stays pushed by the same thread.
LEMMA LiveStep ==
  ASSUME IInv, IInv', CellInv, FreshInv, NEW j \in JobIds, Live(j),
         \A i \in JobIds \ {j} : hist'[i] = hist[i],
         hist'[j].state # "unused", hist'[j].by = hist[j].by,
         UNCHANGED <<batch, queue, pushes>>
  PROVE  /\ CellInv' /\ FreshInv' /\ HistKept
         /\ \A i \in JobIds : hist[i].state = "unused" => hist'[i].state = "unused"
<1>1. hist[j].state # "unused"
  BY DEF Live
<1>2. HistKept
  BY DEF HistKept
<1>3. CellInv'
  BY <1>2, CellFrame
<1>4. FreshInv'
  BY <1>1 DEF FreshInv
<1> QED BY <1>1, <1>2, <1>3, <1>4

LEMMA RejectedDoneKnown ==
  ASSUME IInv, IInv', KnownInv, LegsInv, NEW p \in Procs, RejectedDone(p)
  PROVE  KnownInv'
<1> USE DEF KnownInv
<1> DEFINE j == call[p].job
           state == IF jobEnd[p] THEN "freed" ELSE "live"
<1>1. pc[p] = "rej" /\ Live(j) /\ j \in JobIds /\ state # "unused"
  BY DEF RejectedDone, At, Live
<1>2. /\ hist' = [hist EXCEPT ![j] = Done(j, p, jobEnd[p], state)]
      /\ leaked' = leaked /\ UNCHANGED <<batch, queue, pushes, legs>>
  BY DEF RejectedDone, mailVars, nodeVars
<1> HIDE DEF j, state
<1>3. DOMAIN hist = JobIds
  BY DEF IInv, TypeOK, HistoryType
<1>4. /\ \A i \in JobIds \ {j} : hist'[i] = hist[i]
      /\ hist'[j].state = state /\ hist'[j].by = hist[j].by
      /\ hist'[j].dones = hist[j].dones + 1 /\ hist'[j].to = hist[j].to
  BY <1>1, <1>2, <1>3 DEF Done
<1>5. CellInv' /\ FreshInv' /\ HistKept
      /\ \A i \in JobIds : hist[i].state = "unused" => hist'[i].state = "unused"
  BY <1>1, <1>2, <1>4, LiveStep
<1>6. PushInv'
  BY <1>1, <1>2, <1>5, NextTargetPush DEF RejectedDone
<1>7. HomeInv'
  <2>0. PICK k \in JobIds : k = j
    BY <1>1
  <2>1. /\ Len(hist[k].to) \in Nat /\ hist[k].dones \in Nat /\ legs[k] \in Int
        /\ Len(hist[k].to) <= legs[k] + hist[k].dones
    BY JobTypes DEF LegsInv, JobLegs
  <2>2. ~Counted(k)'
    BY <1>2, <1>4, <2>0, <2>1 DEF Counted
  <2>3. \A i \in JobIds \ {k} : (Counted(i)' => Counted(i)) /\ hist'[i] = hist[i]
    BY <1>2, <1>4, <2>0 DEF Counted
  <2> QED BY <2>2, <2>3 DEF HomeInv
<1> QED BY <1>5, <1>6, <1>7

LEMMA WorkReturnsKnown ==
  ASSUME IInv, IInv', KnownInv, NEW p \in Threads, WorkReturns(p)
  PROVE  KnownInv'
<1> USE DEF KnownInv, WorkReturns, At
<1>0. p \in Procs
  BY DEF Procs
<1>1. hist' = hist /\ leaked' = leaked /\ pushes' = pushes /\ UNCHANGED <<batch, queue, legs>>
  BY DEF histVars, nodeVars, mailVars, jobVars
<1>2. pushes' >= pushes /\ leaked' >= leaked
  BY <1>1 DEF IInv, TypeOK, PoolType
<1>3. FreshInv' /\ HomeInv' /\ HistKept
  BY <1>1, <1>2, SameHist
<1>4. CellInv'
  BY <1>1, <1>3, CellFrame
<1>5. /\ pc'[p] = "node"
      /\ call'[p] = [kind |-> "result", job |-> Curr(p).job, to |-> <<Curr(p).sender>>]
      /\ \A q \in Procs \ {p} : call'[q] = call[q] /\ pc'[q] = pc[q]
  BY <1>0, PcDomain DEF ReplyTo
<1>6. Curr(p).kind = "work" /\ pos[p] \in DOMAIN batch[p]
  <2>1. AtNode(p) /\ ctx[p] = "work" /\ pc[p] # "fin"
    BY DEF AtNode, Busy
  <2>2. Curr(p).kind = "work" /\ pos[p] <= Len(batch[p])
    BY <2>1 DEF IInv, BatchInv
  <2>3. batch[p] \in Seq(Cell) /\ pos[p] \in Nat \ {0}
    BY DEF IInv, TypeOK, ThreadType
  <2> QED BY <2>2, <2>3
<1>7. CellOk(hist, p, Curr(p))
  BY <1>6 DEF CellInv, Curr
<1>8. ResultCallOk(p)'
  BY <1>1, <1>5, <1>6, <1>7 DEF ResultCallOk, CellOk
<1>9. PushInv!(p)'
  BY <1>5, <1>8
<1>10. PushInv'
  BY <1>0, <1>1, <1>2, <1>3, <1>5, <1>9, PushStep
<1> QED BY <1>3, <1>4, <1>10

LEMMA DoneReturnsKnown ==
  ASSUME IInv, IInv', KnownInv, EndInv, NEW p \in Threads, DoneReturns(p)
  PROVE  KnownInv'
<1> USE DEF KnownInv
<1>0. p \in Procs
  BY DEF Procs
<1>1. /\ UNCHANGED <<batch, queue, call, pushes, leaked, legs>>
      /\ pc[p] = "user" /\ ctx[p] = "done" /\ pc' = [pc EXCEPT ![p] = "fin"]
  BY DEF DoneReturns, At, mailVars, nodeVars
<1>2. CASE ~jobEnd[p]
  <2>1. hist' = hist
    BY <1>2 DEF DoneReturns
  <2>2. leaked' >= leaked
    BY <1>1 DEF IInv, TypeOK, PoolType
  <2> QED BY <1>0, <1>1, <2>1, <2>2, PcDomain, OtherKnown
<1>3. CASE jobEnd[p]
  <2> DEFINE j == Curr(p).job
  <2>1. Live(j) /\ j \in JobIds
    BY <1>1, <1>3 DEF EndInv, Ending, Busy, Live
  <2>2. hist' = [hist EXCEPT ![j].state = "freed"]
    BY <1>3 DEF DoneReturns
  <2> HIDE DEF j
  <2>3. hist \in [JobIds -> History]
    BY DEF IInv, TypeOK, HistoryType
  <2>4. hist'[j] = [hist[j] EXCEPT !.state = "freed"] /\ hist[j] \in History
        /\ \A i \in JobIds \ {j} : hist'[i] = hist[i]
    BY <2>1, <2>2, <2>3
  <2>5. /\ hist'[j].state = "freed" /\ hist'[j].by = hist[j].by /\ hist'[j].at = hist[j].at
        /\ hist'[j].to = hist[j].to /\ hist'[j].dones = hist[j].dones
    BY <2>4 DEF History
  <2>6. CellInv' /\ FreshInv' /\ HistKept
        /\ \A i \in JobIds : hist[i].state = "unused" => hist'[i].state = "unused"
    BY <1>1, <2>1, <2>4, <2>5, LiveStep
  <2>7. HomeInv'
    <3>1. \A i \in JobIds : /\ hist'[i].by = hist[i].by /\ hist'[i].at = hist[i].at
                            /\ hist'[i].to = hist[i].to /\ hist'[i].dones = hist[i].dones
      BY <2>4, <2>5
    <3>2. \A i \in JobIds : Counted(i)' <=> Counted(i)
      BY <1>1, <3>1 DEF Counted
    <3> QED BY <3>1, <3>2 DEF HomeInv
  <2>8. leaked' >= leaked
    BY <1>1 DEF IInv, TypeOK, PoolType
  <2>9. PushInv'
    BY <1>0, <1>1, <2>6, <2>8, PcDomain, PushFrame
  <2> QED BY <2>6, <2>7, <2>9
<1>4. jobEnd[p] \in BOOLEAN
  BY DEF IInv, TypeOK, ThreadType
<1> QED BY <1>2, <1>3, <1>4

LEMMA RunDoneKnown ==
  ASSUME IInv, IInv', KnownInv, NEW p \in Threads, RunDone(p)
  PROVE  KnownInv'
<1> USE DEF KnownInv
<1> DEFINE j == Curr(p).job
           end == IsEnd(legs[j] - 1)
<1>0. p \in Procs
  BY DEF Procs
<1>1. /\ Live(j) /\ j \in JobIds /\ Curr(p).kind = "result"
      /\ pc[p] = "next" /\ pos[p] <= Len(batch[p])
      /\ pc' = [pc EXCEPT ![p] = "user"]
      /\ hist' = [hist EXCEPT ![j] = Done(j, p, end, "live")]
      /\ legs' = [legs EXCEPT ![j] = legs[j] - 1]
      /\ UNCHANGED <<batch, queue, call, pushes, leaked>>
  BY DEF RunDone, HasCurr, At, Live, mailVars, nodeVars
<1>2. hist[j].by = p
  <2>1. batch[p] \in Seq(Cell) /\ pos[p] \in Nat \ {0}
    BY DEF IInv, TypeOK, ThreadType
  <2>2. pos[p] \in DOMAIN batch[p]
    BY <1>1, <2>1
  <2>3. CellOk(hist, p, Curr(p))
    BY <2>2 DEF CellInv, Curr
  <2> QED BY <1>1, <2>3 DEF CellOk
<1> HIDE DEF j, end
<1>3. DOMAIN hist = JobIds /\ DOMAIN legs = JobIds
  BY DEF IInv, TypeOK, HistoryType, PoolType
<1>4. /\ \A i \in JobIds \ {j} : hist'[i] = hist[i] /\ legs'[i] = legs[i]
      /\ hist'[j].state = "live" /\ hist'[j].by = hist[j].by
      /\ hist'[j].at = hist[j].at \cup {p}
      /\ hist'[j].dones = hist[j].dones + 1 /\ hist'[j].to = hist[j].to
      /\ legs'[j] = legs[j] - 1
  BY <1>1, <1>3 DEF Done
<1>5. CellInv' /\ FreshInv' /\ HistKept
      /\ \A i \in JobIds : hist[i].state = "unused" => hist'[i].state = "unused"
  BY <1>1, <1>4, LiveStep
<1>6. leaked' >= leaked
  BY <1>1 DEF IInv, TypeOK, PoolType
<1>7. PushInv'
  BY <1>0, <1>1, <1>5, <1>6, PcDomain, PushFrame
<1>8. HomeInv'
  <2>0. PICK k \in JobIds : k = j
    BY <1>1
  <2>1. hist[k].dones \in Nat /\ legs[k] \in Int /\ Len(hist[k].to) \in Nat
    BY JobTypes
  <2>2. Counted(k)' => Counted(k)
    BY <1>4, <2>0, <2>1 DEF Counted
  <2>3. \A i \in JobIds \ {k} : (Counted(i)' => Counted(i)) /\ hist'[i] = hist[i]
    BY <1>4, <2>0 DEF Counted
  <2>4. Counted(k) => hist[k].at \subseteq {hist[k].by}
    BY DEF HomeInv
  <2>5. Counted(k)' => hist'[k].at \subseteq {hist'[k].by}
    BY <1>2, <1>4, <2>0, <2>2, <2>4
  <2> QED BY <2>3, <2>5 DEF HomeInv
<1> QED BY <1>5, <1>7, <1>8

LEMMA ListsKnown ==
  ASSUME IInv, IInv', KnownInv, NEW p \in Threads, Drain(p) \/ Frees(p)
  PROVE  KnownInv'
<1> USE DEF KnownInv
<1>0. p \in Procs
  BY DEF Procs
<1>1. /\ UNCHANGED <<call, pushes, leaked, hist, legs>>
      /\ \A q \in Procs \ {p} : pc'[q] = pc[q]
      /\ pc[p] \in {"loop", "next"} /\ pc'[p] \in {"exit", "next", "loop"}
      /\ \A t \in Threads \ {p} : batch'[t] = batch[t] /\ queue'[t] = queue[t]
      /\ batch'[p] = queue[p] \/ batch'[p] = <<>>
      /\ queue'[p] = queue[p] \/ queue'[p] = <<>>
  <2>1. CASE Drain(p)
    BY <1>0, <2>1, PcDomain DEF Drain, At, IInv, TypeOK, ThreadType, jobVars, nodeVars, histVars
  <2>2. CASE Frees(p)
    BY <1>0, <2>2, PcDomain DEF Frees, At, IInv, TypeOK, ThreadType, jobVars, histVars
  <2> QED BY <2>1, <2>2
<1>2. pushes' >= pushes /\ leaked' >= leaked
  BY <1>1 DEF IInv, TypeOK, PoolType
<1>3. FreshInv' /\ HomeInv' /\ HistKept
  BY <1>1, <1>2, SameHist
<1>4. CellInv'
  <2>1. \A i : i \notin DOMAIN <<>>
    OBVIOUS
  <2> QED BY <1>1, <2>1 DEF CellInv
<1>5. PushInv'
  BY <1>0, <1>1, <1>2, <1>3, PushFrame
<1> QED BY <1>3, <1>4, <1>5

LEMMA CallWaitstopsKnown ==
  ASSUME IInv, IInv', KnownInv, NEW p \in Procs, CallWaitstops(p)
  PROVE  KnownInv'
<1> USE DEF KnownInv, CallWaitstops, At
<1>1. hist' = hist /\ leaked' = leaked /\ pushes' = pushes /\ UNCHANGED <<batch, queue, legs>>
  BY DEF histVars, nodeVars, mailVars, jobVars
<1>2. pushes' >= pushes /\ leaked' >= leaked
  BY <1>1 DEF IInv, TypeOK, PoolType
<1>3. FreshInv' /\ HomeInv' /\ HistKept
  BY <1>1, <1>2, SameHist
<1>4. CellInv'
  BY <1>1, <1>3, CellFrame
<1>5. /\ pc'[p] = "node" /\ call'[p].kind = "stop"
      /\ \A q \in Procs \ {p} : call'[q] = call[q] /\ pc'[q] = pc[q]
  BY PcDomain
<1>6. PushInv!(p)'
  BY <1>5
<1>7. PushInv'
  BY <1>1, <1>2, <1>3, <1>5, <1>6, PushStep
<1> QED BY <1>3, <1>4, <1>7

LEMMA NextKnown ==
  ASSUME IInv, IInv', KnownInv, LegsInv, EndInv, [Next]_vars
  PROVE  KnownInv'
<1>1. ASSUME NEW p \in Procs, Push(p) PROVE KnownInv'
  <2>1. CASE PushThread(p) \/ PushPool(p) \/ PushLua(p) \/ PushAll(p)
    <3>1. \E to \in Seq(Threads) \ {<<>>}, next \in {"node", "lock"} : StartPush(p, to, next)
      BY <2>1, PushesOne
    <3> QED BY <3>1, StartPushKnown
  <2> QED
    BY <1>1, <2>1, UserPushKnown, QuietKnown, EnqueueKnown, RejectKnown,
       RejectedDoneKnown DEF Push
<1>2. ASSUME NEW p \in Threads, Exec(p) PROVE KnownInv'
  <2>1. p \in Procs
    BY DEF Procs
  <2> QED
    BY <1>2, <2>1, QuietKnown, WorkReturnsKnown, DoneReturnsKnown, RunDoneKnown, ListsKnown
       DEF Exec
<1>3. ASSUME NEW p \in Procs, Waitstops(p) PROVE KnownInv'
  BY <1>3, QuietKnown, CallWaitstopsKnown DEF Waitstops
<1>4. CASE Rest \/ UNCHANGED vars
  BY <1>4, StutterKnown DEF Rest, vars, mailVars, jobVars, histVars, nodeVars
<1> QED BY <1>1, <1>2, <1>3, <1>4 DEF Next

-----------------------------------------------------------------------------
(* job_count_ of a job counts the nodes and pushes that refer to it.  Three *)
(* sets of places, and what each step does to them.                        *)

\* The places that refer to job j: in a batch, in a mailbox, in a push call.
PendingAt(t, i, j) ==
    /\ i \in pos[t] .. Len(batch[t])
    /\ batch[t][i].job = j
    /\ i = pos[t] => CurrPending(t)
QueuedAt(t, i, j) == i \in DOMAIN queue[t] /\ queue[t][i].job = j
PushedAt(p, i, j) == i \in DOMAIN call[p].to /\ call[p].job = j

LEMMA BatchMembers ==
  ASSUME NEW j
  PROVE  /\ \A t, i : <<t, i>> \in InBatch(j) <=> t \in Threads /\ PendingAt(t, i, j)
         /\ \A x \in InBatch(j) : IsPair(x)
         /\ \A t, i : <<t, i>> \in InBatch(j)' <=> t \in Threads /\ PendingAt(t, i, j)'
         /\ \A x \in InBatch(j)' : IsPair(x)
<1> DEFINE F == [t \in Threads |-> pos[t] .. Len(batch[t])]
           G == [t \in Threads |-> pos'[t] .. Len(batch'[t])]
           U == UNION {{t} \X F[t] : t \in Threads}
           V == UNION {{t} \X G[t] : t \in Threads}
<1>1. /\ InBatch(j) = {c \in U : batch[c[1]][c[2]].job = j /\ (c[2] = pos[c[1]] => CurrPending(c[1]))}
      /\ InBatch(j)' = {c \in V : batch'[c[1]][c[2]].job = j /\ (c[2] = pos'[c[1]] => CurrPending(c[1])')}
  BY DEF InBatch
<1>2. \A t \in Threads : F[t] = pos[t] .. Len(batch[t]) /\ G[t] = pos'[t] .. Len(batch'[t])
  OBVIOUS
<1> HIDE DEF F, G
<1>3. /\ \A t, i : <<t, i>> \in U <=> t \in Threads /\ i \in F[t]
      /\ \A t, i : <<t, i>> \in V <=> t \in Threads /\ i \in G[t]
      /\ \A x \in U : IsPair(x)
      /\ \A x \in V : IsPair(x)
  BY Pairs
<1> HIDE DEF U, V
<1>4. \A t, i : <<t, i>>[1] = t /\ <<t, i>>[2] = i
  OBVIOUS
<1>5. /\ \A t, i : <<t, i>> \in InBatch(j) <=> t \in Threads /\ PendingAt(t, i, j)
      /\ \A x \in InBatch(j) : IsPair(x)
  BY <1>1, <1>2, <1>3, <1>4 DEF PendingAt
<1>6. /\ \A t, i : <<t, i>> \in InBatch(j)' <=> t \in Threads /\ PendingAt(t, i, j)'
      /\ \A x \in InBatch(j)' : IsPair(x)
  BY <1>1, <1>2, <1>3, <1>4 DEF PendingAt
<1> QED BY <1>5, <1>6

LEMMA QueueMembers ==
  ASSUME NEW j
  PROVE  /\ \A t, i : <<t, i>> \in InQueue(j) <=> t \in Threads /\ QueuedAt(t, i, j)
         /\ \A x \in InQueue(j) : IsPair(x)
         /\ \A t, i : <<t, i>> \in InQueue(j)' <=> t \in Threads /\ QueuedAt(t, i, j)'
         /\ \A x \in InQueue(j)' : IsPair(x)
<1> DEFINE F == [t \in Threads |-> DOMAIN queue[t]]
           G == [t \in Threads |-> DOMAIN queue'[t]]
           U == UNION {{t} \X F[t] : t \in Threads}
           V == UNION {{t} \X G[t] : t \in Threads}
<1>1. /\ InQueue(j) = {c \in U : queue[c[1]][c[2]].job = j}
      /\ InQueue(j)' = {c \in V : queue'[c[1]][c[2]].job = j}
  BY DEF InQueue
<1>2. \A t \in Threads : F[t] = DOMAIN queue[t] /\ G[t] = DOMAIN queue'[t]
  OBVIOUS
<1> HIDE DEF F, G
<1>3. /\ \A t, i : <<t, i>> \in U <=> t \in Threads /\ i \in F[t]
      /\ \A t, i : <<t, i>> \in V <=> t \in Threads /\ i \in G[t]
      /\ \A x \in U : IsPair(x)
      /\ \A x \in V : IsPair(x)
  BY Pairs
<1> HIDE DEF U, V
<1>4. \A t, i : <<t, i>>[1] = t /\ <<t, i>>[2] = i
  OBVIOUS
<1> QED BY <1>1, <1>2, <1>3, <1>4 DEF QueuedAt

LEMMA PushMembers ==
  ASSUME NEW j
  PROVE  /\ \A p, i : <<p, i>> \in ToPush(j) <=> p \in Procs /\ PushedAt(p, i, j)
         /\ \A x \in ToPush(j) : IsPair(x)
         /\ \A p, i : <<p, i>> \in ToPush(j)' <=> p \in Procs /\ PushedAt(p, i, j)'
         /\ \A x \in ToPush(j)' : IsPair(x)
<1> DEFINE F == [p \in Procs |-> DOMAIN call[p].to]
           G == [p \in Procs |-> DOMAIN call'[p].to]
           U == UNION {{p} \X F[p] : p \in Procs}
           V == UNION {{p} \X G[p] : p \in Procs}
<1>1. /\ ToPush(j) = {c \in U : call[c[1]].job = j}
      /\ ToPush(j)' = {c \in V : call'[c[1]].job = j}
  BY DEF ToPush
<1>2. \A p \in Procs : F[p] = DOMAIN call[p].to /\ G[p] = DOMAIN call'[p].to
  OBVIOUS
<1> HIDE DEF F, G
<1>3. /\ \A t, i : <<t, i>> \in U <=> t \in Procs /\ i \in F[t]
      /\ \A t, i : <<t, i>> \in V <=> t \in Procs /\ i \in G[t]
      /\ \A x \in U : IsPair(x)
      /\ \A x \in V : IsPair(x)
  BY Pairs
<1> HIDE DEF U, V
<1>4. \A t, i : <<t, i>>[1] = t /\ <<t, i>>[2] = i
  OBVIOUS
<1> QED BY <1>1, <1>2, <1>3, <1>4 DEF PushedAt

LEMMA BatchSame ==
  ASSUME NEW j, \A t \in Threads : \A i : PendingAt(t, i, j)' <=> PendingAt(t, i, j)
  PROVE  InBatch(j)' = InBatch(j)
<1>1. \A t, i : <<t, i>> \in InBatch(j)' <=> <<t, i>> \in InBatch(j)
  BY BatchMembers
<1> QED BY <1>1, BatchMembers, SamePairs

LEMMA QueueSame ==
  ASSUME NEW j, \A t \in Threads : \A i : QueuedAt(t, i, j)' <=> QueuedAt(t, i, j)
  PROVE  InQueue(j)' = InQueue(j)
<1>1. \A t, i : <<t, i>> \in InQueue(j)' <=> <<t, i>> \in InQueue(j)
  BY QueueMembers
<1> QED BY <1>1, QueueMembers, SamePairs

LEMMA PushSame ==
  ASSUME NEW j, \A p \in Procs : \A i : PushedAt(p, i, j)' <=> PushedAt(p, i, j)
  PROVE  ToPush(j)' = ToPush(j)
<1>1. \A t, i : <<t, i>> \in ToPush(j)' <=> <<t, i>> \in ToPush(j)
  BY PushMembers
<1> QED BY <1>1, PushMembers, SamePairs

\* The three sets of job j do not change.
SameRefs(j) == InBatch(j)' = InBatch(j) /\ InQueue(j)' = InQueue(j) /\ ToPush(j)' = ToPush(j)

LEMMA LegsTypes ==
  ASSUME IInv, NEW j \in JobIds, JobLegs(j)
  PROVE  /\ Cardinality(InBatch(j)) \in Nat
         /\ Cardinality(InQueue(j)) \in Nat
         /\ Cardinality(ToPush(j)) \in Nat
         /\ legs[j] \in Int /\ leaked \in Nat
         /\ hist[j].dones \in Nat /\ Len(hist[j].to) \in Nat
         /\ Outstanding(j) \in Nat /\ Outstanding(j) <= legs[j]
<1>1. /\ Cardinality(InBatch(j)) \in Nat
      /\ Cardinality(InQueue(j)) \in Nat
      /\ Cardinality(ToPush(j)) \in Nat
  BY FS_CardinalityType DEF JobLegs
<1>2. /\ legs[j] \in Int /\ leaked \in Nat
      /\ hist[j].dones \in Nat /\ Len(hist[j].to) \in Nat
  BY JobTypes
<1>3. Outstanding(j) \in Nat
  BY <1>1 DEF Outstanding
<1>4. Outstanding(j) <= legs[j]
  BY <1>2, <1>3 DEF JobLegs
<1> QED BY <1>1, <1>2, <1>3, <1>4

\* The counter of a job whose pushes were all counted is exact.
LEMMA CountedLegs ==
  ASSUME IInv, NEW j \in JobIds, JobLegs(j), Counted(j)
  PROVE  legs[j] = Outstanding(j) /\ (~Live(j) => Outstanding(j) = 0)
BY LegsTypes DEF JobLegs, Counted

\* The counter of job j, and what the history of j counts.
SameLegs(j) ==
    legs'[j] = legs[j] /\ hist'[j].dones = hist[j].dones /\ hist'[j].to = hist[j].to

\* A job that is given back has nothing left that refers to it.
LEMMA LegsFrame ==
  ASSUME IInv, NEW j \in JobIds, JobLegs(j), SameRefs(j), SameLegs(j),
         leaked' = 0 => leaked = 0,
         (Live(j)' <=> Live(j)) \/ (~Live(j)' /\ legs[j] = 0)
  PROVE  JobLegs(j)'
<1>1. Outstanding(j)' = Outstanding(j) /\ (Counted(j)' <=> Counted(j))
  BY DEF SameRefs, SameLegs, Outstanding, Counted
<1>2. IsFiniteSet(InBatch(j)') /\ IsFiniteSet(InQueue(j)') /\ IsFiniteSet(ToPush(j)')
  BY DEF JobLegs, SameRefs
<1>3. /\ Outstanding(j)' + hist'[j].dones = Len(hist'[j].to)
      /\ Len(hist'[j].to) <= legs'[j] + hist'[j].dones
  BY <1>1 DEF JobLegs, SameLegs
<1>4. Counted(j)' /\ ~Live(j)' => legs'[j] = 0
  BY <1>1 DEF JobLegs, SameLegs
<1> QED BY <1>1, <1>2, <1>3, <1>4 DEF JobLegs

\* The lists and their positions stay, and every thread is as far with curr as before.
LEMMA RefsFrame ==
  ASSUME NEW j \in JobIds, UNCHANGED <<batch, pos, queue>>,
         \A t \in Threads : pos[t] <= Len(batch[t]) /\ Curr(t).job = j =>
                               (CurrPending(t)' <=> CurrPending(t)),
         \A p \in Procs : \A i : PushedAt(p, i, j)' <=> PushedAt(p, i, j),
         IInv
  PROVE  SameRefs(j)
<1>1. InBatch(j)' = InBatch(j)
  <2> SUFFICES ASSUME NEW t \in Threads, NEW i
               PROVE  PendingAt(t, i, j)' <=> PendingAt(t, i, j)
    BY BatchSame
  <2>1. /\ i \in pos'[t] .. Len(batch'[t]) <=> i \in pos[t] .. Len(batch[t])
        /\ batch'[t][i].job = batch[t][i].job
    OBVIOUS
  <2>2. CASE i = pos[t] /\ i \in pos[t] .. Len(batch[t]) /\ batch[t][i].job = j
    <3>1. pos[t] <= Len(batch[t]) /\ Curr(t).job = j
      BY <2>2 DEF Curr
    <3> QED BY <2>1, <3>1 DEF PendingAt
  <2>3. CASE ~(i = pos[t] /\ i \in pos[t] .. Len(batch[t]) /\ batch[t][i].job = j)
    BY <2>1, <2>3 DEF PendingAt
  <2> QED BY <2>2, <2>3
<1>2. InQueue(j)' = InQueue(j)
  BY DEF InQueue
<1>3. ToPush(j)' = ToPush(j)
  BY PushSame
<1> QED BY <1>1, <1>2, <1>3 DEF SameRefs

\* p stays as far with curr as it is, or has no node.
Quiet(p) ==
    \/ pc' = pc /\ ctx' = ctx
    \/ pc'[p] \in Busy /\ pc[p] \in Busy /\ ctx'[p] = ctx[p]
    \/ pc[p] = "next" /\ pc'[p] \in Busy /\ ctx'[p] = "work"
    \/ pc[p] \in Busy /\ pc'[p] = "fin" /\ ctx[p] # "work"
    \/ p \in Threads => pos[p] > Len(batch[p])

\* Only p moves, between points where it is as far with curr as before.
LEMMA QuietRefs ==
  ASSUME IInv, IInv', PushInv, NEW j \in JobIds, NEW p \in Procs,
         UNCHANGED <<batch, pos, queue>>,
         \A q \in Procs \ {p} : pc'[q] = pc[q] /\ ctx'[q] = ctx[q],
         Quiet(p),
         \/ call' = call
         \/ /\ \A q \in Procs \ {p} : call'[q] = call[q]
            /\ call[p].to = <<>> \/ call[p].job # j
            /\ call'[p].to = <<>> \/ call'[p].job # j
  PROVE  SameRefs(j)
<1>1. \A t \in Threads \ {p} : CurrPending(t)' <=> CurrPending(t)
  BY DEF CurrPending, Procs
<1>2. p \in Threads /\ pos[p] <= Len(batch[p]) => (CurrPending(p)' <=> CurrPending(p))
  <2>1. ASSUME p \in Threads PROVE ~(pos[p] > Len(batch[p]) /\ pos[p] <= Len(batch[p]))
    <3>1. pos[p] \in Nat /\ Len(batch[p]) \in Nat
      BY <2>1 DEF IInv, TypeOK, ThreadType
    <3> QED BY <3>1
  <2> QED BY <2>1 DEF CurrPending, Busy, Quiet
<1>3. \A i : i \notin DOMAIN <<>>
  OBVIOUS
<1>4. \A q \in Procs : \A i : PushedAt(q, i, j)' <=> PushedAt(q, i, j)
  BY <1>3 DEF PushedAt
<1> QED BY <1>1, <1>2, <1>4, RefsFrame

-----------------------------------------------------------------------------
LEMMA QuietLegs ==
  ASSUME IInv, IInv', PushInv, EndInv, LegsInv, NEW p \in Procs,
         \/ UserPush(p) \/ LockMd(p) \/ AllocNode(p) \/ Reject(p)
         \/ CallWaitstops(p) \/ AllStopped(p)
         \/ p \in Threads /\ (StartReturns(p) \/ RunWork(p) \/ Exit(p) \/ DoneReturns(p))
  PROVE  LegsInv'
<1> SUFFICES ASSUME NEW j \in JobIds PROVE JobLegs(j)'
  BY DEF LegsInv
<1> USE PcDomain
<1>0. JobLegs(j) /\ j # NoJob
  BY DEF LegsInv, JobIds, NoJob
<1>1. UNCHANGED <<batch, pos, queue, legs>> /\ \A q \in Procs \ {p} : pc'[q] = pc[q] /\ ctx'[q] = ctx[q]
  <2>1. CASE UserPush(p) \/ LockMd(p) \/ AllocNode(p) \/ Reject(p)
    BY <2>1 DEF UserPush, LockMd, AllocNode, Reject, mailVars, jobVars
  <2>2. CASE CallWaitstops(p) \/ AllStopped(p) \/ StartReturns(p) \/ RunWork(p) \/ Exit(p) \/ DoneReturns(p)
    BY <2>2 DEF CallWaitstops, AllStopped, StartReturns, RunWork, Exit, DoneReturns, mailVars, jobVars
  <2> QED BY <2>1, <2>2
<1>2. Quiet(p)
  <2>1. CASE UserPush(p) \/ LockMd(p) \/ AllocNode(p) \/ Reject(p)
    BY <2>1 DEF UserPush, LockMd, AllocNode, Reject, Busy, At, Quiet
  <2>2. CASE RunWork(p) \/ DoneReturns(p)
    BY <2>2 DEF RunWork, DoneReturns, Busy, At, HasCurr, Quiet
  <2>3. CASE CallWaitstops(p) \/ AllStopped(p) \/ (p \in Threads /\ (StartReturns(p) \/ Exit(p)))
    <3>1. ASSUME p \in Threads PROVE pos[p] > Len(batch[p])
      <4>1. NoBatch(p)
        BY <2>3, <3>1 DEF NoBatch, CallWaitstops, AllStopped, StartReturns, Exit, At, Busy
      <4>2. batch[p] = <<>> /\ pos[p] = 1
        BY <3>1, <4>1 DEF IInv, BatchInv
      <4> QED BY <4>2, EmptySeq
    <3> QED BY <3>1 DEF Quiet
  <2>4. \/ UserPush(p) \/ LockMd(p) \/ AllocNode(p) \/ Reject(p)
        \/ RunWork(p) \/ DoneReturns(p)
        \/ CallWaitstops(p) \/ AllStopped(p) \/ (p \in Threads /\ (StartReturns(p) \/ Exit(p)))
    BY Zenon
  <2> QED BY <2>1, <2>2, <2>3, <2>4, Zenon
<1>3. \/ call' = call
      \/ /\ \A q \in Procs \ {p} : call'[q] = call[q]
         /\ call[p].to = <<>> \/ call[p].job # j
         /\ call'[p].to = <<>> \/ call'[p].job # j
  <2>1. CASE UserPush(p)
    BY <2>1 DEF UserPush, At, PushInv
  <2>2. CASE CallWaitstops(p)
    BY <2>2, <1>0 DEF CallWaitstops, At, PushInv
  <2>3. CASE LockMd(p) \/ AllocNode(p) \/ Reject(p)
             \/ AllStopped(p) \/ StartReturns(p) \/ RunWork(p) \/ Exit(p) \/ DoneReturns(p)
    BY <2>3 DEF LockMd, AllocNode, Reject, AllStopped, StartReturns, RunWork, Exit, DoneReturns
  <2> QED BY <2>1, <2>2, <2>3
<1>4. SameRefs(j)
  BY <1>1, <1>2, <1>3, QuietRefs
<1>5. leaked \in Nat /\ (leaked' = leaked \/ leaked' = leaked + 1)
  <2>1. CASE UserPush(p) \/ LockMd(p) \/ AllocNode(p) \/ CallWaitstops(p) \/ AllStopped(p)
             \/ StartReturns(p) \/ RunWork(p) \/ Exit(p) \/ DoneReturns(p)
    BY <2>1 DEF IInv, TypeOK, PoolType, UserPush, LockMd, AllocNode, CallWaitstops, AllStopped,
                StartReturns, RunWork, Exit, DoneReturns, nodeVars
  <2>2. CASE Reject(p)
    BY <2>2 DEF IInv, TypeOK, PoolType, Reject
  <2> QED BY <2>1, <2>2
<1>6. leaked' = 0 => leaked = 0
  BY <1>5
<1>7. /\ (Live(j)' <=> Live(j)) \/ (~Live(j)' /\ legs[j] = 0)
      /\ hist'[j].dones = hist[j].dones /\ hist'[j].to = hist[j].to
  <2>1. CASE hist' = hist
    BY <2>1 DEF Live
  <2>2. CASE p \in Threads /\ DoneReturns(p) /\ jobEnd[p]
    <3> DEFINE k == Curr(p).job
    <3>1. Live(k) /\ k \in JobIds /\ legs[k] = 0
      BY <2>2 DEF EndInv, Ending, DoneReturns, At, Busy, Live
    <3>2. hist' = [hist EXCEPT ![k].state = "freed"]
      BY <2>2 DEF DoneReturns
    <3> HIDE DEF k
    <3>3. hist \in [JobIds -> History]
      BY DEF IInv, TypeOK, HistoryType
    <3>4. /\ hist'[k].state = "freed" /\ \A i \in JobIds \ {k} : hist'[i] = hist[i]
          /\ hist'[k].dones = hist[k].dones /\ hist'[k].to = hist[k].to
      BY <3>1, <3>2, <3>3 DEF History
    <3>5. (Live(j)' <=> Live(j)) \/ (~Live(j)' /\ legs[j] = 0)
      BY <3>1, <3>4 DEF Live
    <3>6. hist'[j].dones = hist[j].dones /\ hist'[j].to = hist[j].to
      BY <3>4
    <3> QED BY <3>5, <3>6
  <2>3. hist' = hist \/ (p \in Threads /\ DoneReturns(p) /\ jobEnd[p])
    BY DEF UserPush, LockMd, AllocNode, CallWaitstops, AllStopped, Reject,
           StartReturns, RunWork, Exit, DoneReturns, histVars
  <2> QED BY <2>1, <2>2, <2>3
<1>8. SameLegs(j)
  BY <1>1, <1>7 DEF SameLegs
<1> QED BY <1>0, <1>4, <1>6, <1>7, <1>8, LegsFrame

LEMMA StutterLegs ==
  ASSUME IInv, IInv', PushInv, LegsInv,
         UNCHANGED <<batch, pos, queue, legs, pc, ctx, call, leaked, hist>>
  PROVE  LegsInv'
<1> SUFFICES ASSUME NEW j \in JobIds PROVE JobLegs(j)'
  BY DEF LegsInv
<1>1. SameRefs(j)
  BY RefsFrame DEF PushedAt, CurrPending
<1>2. Live(j)' <=> Live(j)
  BY DEF Live
<1> QED BY <1>1, <1>2, LegsFrame DEF LegsInv, SameLegs

LEMMA StartPushLegs ==
  ASSUME IInv, IInv', CellInv, PushInv, LegsInv, NEW p \in Procs,
         NEW to \in Seq(Threads), to # <<>>, NEW next \in {"node", "lock"},
         StartPush(p, to, next)
  PROVE  LegsInv'
<1>0. PICK j \in JobIds : j = call[p].job
  BY DEF StartPush, At, IInv, CallInv
<1>1. pc[p] = "job" /\ call[p].kind = "work" /\ j = call[p].job
  BY <1>0 DEF StartPush, At, IInv, CallInv
<1>2. WorkCallOk(p)
  BY <1>1 DEF PushInv
<1>3. /\ hist' = [hist EXCEPT ![j] = Pushed(p, to)]
      /\ legs' = [legs EXCEPT ![j] = Len(to)]
      /\ call' = [call EXCEPT ![p] = [kind |-> "work", job |-> j, to |-> to]]
      /\ pc' = [pc EXCEPT ![p] = next]
      /\ leaked' = leaked /\ UNCHANGED <<batch, queue, pos, ctx>>
  BY <1>1 DEF StartPush, nodeVars, mailVars, JobCountOf
<1>4. DOMAIN hist = JobIds /\ DOMAIN legs = JobIds
  BY DEF IInv, TypeOK, HistoryType, PoolType
<1>5. /\ hist'[j] = Pushed(p, to) /\ legs'[j] = Len(to)
      /\ \A i \in JobIds \ {j} : hist'[i] = hist[i] /\ legs'[i] = legs[i]
      /\ call'[p] = [kind |-> "work", job |-> j, to |-> to]
      /\ pc'[p] = next /\ ctx'[p] = ctx[p]
      /\ \A q \in Procs \ {p} : call'[q] = call[q] /\ pc'[q] = pc[q] /\ ctx'[q] = ctx[q]
  BY <1>1, <1>3, <1>4, PcDomain
<1>6. hist[j].state = "unused" /\ call[p].to = <<>>
  BY <1>1, <1>2 DEF WorkCallOk
<1>7. ASSUME NEW i \in JobIds, i # j PROVE JobLegs(i)'
  <2>1. Quiet(p)
    BY <1>1, <1>5 DEF Busy, Quiet
  <2>2. call[p].job # i /\ call'[p].job # i
    BY <1>1, <1>5, <1>7
  <2>3. SameRefs(i)
    BY <1>3, <1>5, <2>1, <2>2, QuietRefs
  <2>4. Live(i)' <=> Live(i)
    BY <1>5, <1>7 DEF Live
  <2> QED BY <1>3, <1>5, <1>7, <2>3, <2>4, LegsFrame DEF LegsInv, SameLegs
<1>8. InBatch(j)' = {}
  <2>1. \A t \in Threads : \A i \in DOMAIN batch[t] : batch[t][i].job # j
    <3> SUFFICES ASSUME NEW t \in Threads, NEW i \in DOMAIN batch[t] PROVE batch[t][i].job # j
      OBVIOUS
    <3>1. batch[t][i] \in Cell
      BY DEF IInv, TypeOK, ThreadType
    <3>2. CellOk(hist, t, batch[t][i])
      BY DEF CellInv
    <3> QED BY <1>1, <1>6, <3>1, <3>2 DEF Cell, CellOk, NoJob, JobIds
  <2>2. \A t \in Threads : pos[t] \in Nat \ {0} /\ batch[t] \in Seq(Cell)
    BY DEF IInv, TypeOK, ThreadType
  <2>3. \A t \in Threads : \A i \in pos[t] .. Len(batch[t]) : i \in DOMAIN batch[t]
    BY <2>2
  <2>4. \A t \in Threads : \A i : ~PendingAt(t, i, j)
    BY <2>1, <2>3 DEF PendingAt
  <2>5. InBatch(j) = {}
    BY <2>4, BatchMembers DEF IsPair
  <2>6. CurrPending(p)' <=> CurrPending(p)
    BY <1>1, <1>5 DEF CurrPending
  <2>7. \A t \in Threads : CurrPending(t)' <=> CurrPending(t)
    BY <1>5, <2>6 DEF CurrPending, Procs
  <2>8. InBatch(j)' = InBatch(j)
    BY <1>3, <2>7, BatchSame DEF PendingAt
  <2> QED BY <2>5, <2>8
<1>9. InQueue(j)' = {}
  <2>1. \A t \in Threads : \A i \in DOMAIN queue[t] : queue[t][i].job # j
    <3> SUFFICES ASSUME NEW t \in Threads, NEW i \in DOMAIN queue[t] PROVE queue[t][i].job # j
      OBVIOUS
    <3>1. queue[t][i] \in Cell
      BY DEF IInv, TypeOK, ThreadType
    <3>2. CellOk(hist, t, queue[t][i])
      BY DEF CellInv
    <3> QED BY <1>1, <1>6, <3>1, <3>2 DEF Cell, CellOk, NoJob, JobIds
  <2>2. \A t \in Threads : \A i : ~QueuedAt(t, i, j)'
    BY <1>3, <2>1 DEF QueuedAt
  <2> QED BY <2>2, QueueMembers DEF IsPair
<1>10. ToPush(j)' = {p} \X (1 .. Len(to))
  <2>1. \A q \in Procs \ {p} : call[q].job # j
    <3> SUFFICES ASSUME NEW q \in Procs \ {p} PROVE call[q].job # j
      OBVIOUS
    <3>1. call[q] \in Call
      BY DEF IInv, TypeOK, ControlType
    <3>2. CASE call[q].kind = "work"
      BY <1>1, <1>2, <3>2 DEF WorkCallOk
    <3>3. CASE call[q].kind = "result"
      BY <1>6, <3>3 DEF PushInv, ResultCallOk
    <3>4. CASE call[q].kind \notin {"work", "result"}
      BY <1>1, <3>1, <3>4 DEF Call
    <3> QED BY <3>2, <3>3, <3>4
  <2>2. \A q \in Procs : \A i : PushedAt(q, i, j)' <=> q = p /\ i \in 1 .. Len(to)
    <3>1. DOMAIN to = 1 .. Len(to)
      OBVIOUS
    <3> QED BY <1>5, <2>1, <3>1 DEF PushedAt
  <2> DEFINE S == {p} \X (1 .. Len(to))
  <2>3. /\ \A x \in S : IsPair(x)
        /\ \A q, i : <<q, i>> \in S <=> q = p /\ i \in 1 .. Len(to)
    BY DEF IsPair
  <2> HIDE DEF S
  <2>4. \A q, i : <<q, i>> \in ToPush(j)' <=> <<q, i>> \in S
    BY <2>2, <2>3, PushMembers
  <2>5. ToPush(j)' = S
    BY <2>3, <2>4, PushMembers, SamePairs
  <2> QED BY <2>5 DEF S
<1>11. IsFiniteSet(ToPush(j)') /\ Cardinality(ToPush(j)') = Len(to)
  <2> DEFINE n == Len(to)
  <2>1. n \in Nat
    OBVIOUS
  <2>2. ToPush(j)' = {p} \X (1 .. n)
    BY <1>10
  <2> HIDE DEF n
  <2>3. IsFiniteSet(1 .. n) /\ Cardinality(1 .. n) = n
    BY <2>1, FS_Interval
  <2>4. IsFiniteSet({p}) /\ Cardinality({p}) = 1
    BY FS_Singleton
  <2>5. IsFiniteSet({p} \X (1 .. n)) /\ Cardinality({p} \X (1 .. n)) = 1 * n
    BY <2>3, <2>4, FS_Product
  <2> QED BY <2>1, <2>2, <2>5 DEF n
<1>12. JobLegs(j)'
  <2> DEFINE n == Len(to)
  <2>1. n \in Nat
    OBVIOUS
  <2>2. Outstanding(j)' = n /\ legs'[j] = n
    BY <1>5, <1>8, <1>9, <1>11, <2>1, FS_EmptySet DEF Outstanding
  <2>3. Live(j)' /\ hist'[j].dones = 0 /\ Len(hist'[j].to) = n
    BY <1>5 DEF Live, Pushed
  <2> HIDE DEF n
  <2>4. IsFiniteSet(InBatch(j)') /\ IsFiniteSet(InQueue(j)') /\ IsFiniteSet(ToPush(j)')
    BY <1>8, <1>9, <1>11, FS_EmptySet
  <2>5. Counted(j)'
    BY <2>1, <2>2, <2>3 DEF Counted
  <2> QED BY <2>1, <2>2, <2>3, <2>4, <2>5 DEF JobLegs
<1> QED BY <1>7, <1>12 DEF LegsInv

LEMMA LegsShift ==
  ASSUME IInv, NEW j \in JobIds, JobLegs(j), NEW d \in Int,
         IsFiniteSet(InBatch(j)'), IsFiniteSet(InQueue(j)'), IsFiniteSet(ToPush(j)'),
         Outstanding(j)' = Outstanding(j) + d, legs'[j] = legs[j] + d,
         hist'[j].dones = hist[j].dones - d, hist'[j].to = hist[j].to,
         leaked' = leaked, Live(j)' <=> Live(j), d # 0 => Live(j)
  PROVE  JobLegs(j)'
<1> DEFINE n == Outstanding(j)
           k == hist[j].dones
           m == Len(hist[j].to)
<1>1. n \in Nat /\ legs[j] \in Int /\ k \in Nat /\ m \in Nat
  BY LegsTypes
<1>2. n + k = m /\ m <= legs[j] + k
  BY DEF JobLegs
<1>3. n' = n + d /\ k' = k - d /\ m' = m
  OBVIOUS
<1> HIDE DEF n, k, m
<1>4. n' + k' = m' /\ m' <= legs'[j] + k' /\ (legs'[j] + k' = m' <=> legs[j] + k = m)
  BY <1>1, <1>2, <1>3
<1>5. Counted(j)' <=> Counted(j)
  BY <1>4 DEF Counted, k, m
<1>6. Counted(j)' /\ ~Live(j)' => legs'[j] = 0
  <2>1. Counted(j) /\ ~Live(j) => legs[j] = 0
    BY DEF JobLegs
  <2>2. ~Live(j) => d = 0 /\ legs'[j] = legs[j]
    BY <1>1
  <2> QED BY <1>5, <2>1, <2>2
<1>7. leaked' = 0 => Counted(j)'
  BY <1>5 DEF JobLegs
<1>8. Outstanding(j)' + hist'[j].dones = Len(hist'[j].to)
      /\ Len(hist'[j].to) <= legs'[j] + hist'[j].dones
  BY <1>4 DEF n, k, m
<1> QED BY <1>6, <1>7, <1>8 DEF JobLegs

\* One push of p's call is over.
LEMMA NextTargetRefs ==
  ASSUME IInv, IInv', NEW p \in Procs, pc[p] \in {"enq", "rej"}, NextTarget(p),
         UNCHANGED <<ctx, batch, pos>>, NEW j \in JobIds, IsFiniteSet(ToPush(j))
  PROVE  /\ InBatch(j)' = InBatch(j)
         /\ call[p].job # j => ToPush(j)' = ToPush(j)
         /\ call[p].job = j =>
               /\ IsFiniteSet(ToPush(j)')
               /\ Cardinality(ToPush(j)') = Cardinality(ToPush(j)) - 1
               /\ Cardinality(ToPush(j)) \in Nat \ {0}
<1>1. call[p].to \in Seq(Threads) /\ call[p].to # <<>> /\ Len(call[p].to) \in Nat \ {0}
  <2>1. call[p] \in Call /\ call[p].to # <<>>
    BY DEF IInv, TypeOK, ControlType, CallInv
  <2> QED BY <2>1 DEF Call
<1>2. \A q \in Procs \ {p} : call'[q] = call[q] /\ pc'[q] = pc[q]
  BY PcDomain DEF NextTarget
<1>3. /\ ~(pc'[p] = "next") /\ ctx'[p] = ctx[p]
      /\ pc'[p] = "fin" => ctx[p] = "result"
  <2>1. ctx[p] \in {"start", "work", "done", "result", "stop"}
    BY DEF IInv, TypeOK, ControlType
  <2> QED BY <2>1, PcDomain DEF NextTarget
<1>4. InBatch(j)' = InBatch(j)
  <2>1. CurrPending(p)' <=> CurrPending(p)
    BY <1>3 DEF CurrPending
  <2>2. \A t \in Threads : CurrPending(t)' <=> CurrPending(t)
    BY <1>2, <2>1 DEF CurrPending, Procs
  <2> QED BY <2>2, BatchSame DEF PendingAt
<1> DEFINE n == Len(call[p].to)
<1>5. \/ call'[p].job = call[p].job /\ \A i : i \in DOMAIN call'[p].to <=> i \in DOMAIN call[p].to /\ i # n
      \/ call'[p].job # j /\ \A i \in DOMAIN call[p].to : i = n
  <2>1. CASE n > 1
    <3>0. call' = [call EXCEPT ![p] = [kind |-> call[p].kind, job |-> call[p].job,
                                       to |-> Tail(call[p].to)]]
      BY <2>1 DEF NextTarget
    <3>1. call'[p].job = call[p].job /\ call'[p].to = Tail(call[p].to)
      BY <3>0, PcDomain
    <3>2. DOMAIN Tail(call[p].to) = 1 .. n - 1 /\ DOMAIN call[p].to = 1 .. n
      BY <1>1, HeadTailProperties
    <3> HIDE DEF n
    <3>3. n \in Nat
      BY <1>1 DEF n
    <3> QED BY <3>1, <3>2, <3>3
  <2>2. CASE ~(n > 1)
    <3>1. call'[p] = NoCall
      BY <2>2, PcDomain DEF NextTarget
    <3>2. DOMAIN call[p].to = 1 .. n /\ n \in Nat \ {0}
      BY <1>1
    <3> HIDE DEF n
    <3>3. \A i \in 1 .. n : i = n
      BY <2>2, <3>2
    <3> QED BY <3>1, <3>2, <3>3 DEF NoCall, NoJob, JobIds
  <2> QED BY <2>1, <2>2
<1>6. n \in DOMAIN call[p].to
  BY <1>1
<1> HIDE DEF n
<1>7. ASSUME call[p].job # j PROVE ToPush(j)' = ToPush(j)
  BY <1>2, <1>5, <1>7, PushSame DEF PushedAt
<1>8. ASSUME call[p].job = j
      PROVE  <<p, n>> \in ToPush(j) /\ ToPush(j)' = ToPush(j) \ {<<p, n>>}
  <2>1. <<p, n>> \in ToPush(j)
    BY <1>6, <1>8, PushMembers DEF PushedAt
  <2>2. \A i : PushedAt(p, i, j)' <=> PushedAt(p, i, j) /\ i # n
    BY <1>5, <1>8 DEF PushedAt
  <2>3. \A q \in Procs \ {p} : \A i : PushedAt(q, i, j)' <=> PushedAt(q, i, j)
    BY <1>2 DEF PushedAt
  <2>4. \A q, i : <<q, i>> \in ToPush(j)' <=> <<q, i>> \in ToPush(j) \ {<<p, n>>}
    BY <2>2, <2>3, PushMembers
  <2>5. \A x \in ToPush(j) \ {<<p, n>>} : IsPair(x)
    BY PushMembers
  <2>6. \A x \in ToPush(j)' : IsPair(x)
    BY PushMembers
  <2>7. ToPush(j)' = ToPush(j) \ {<<p, n>>}
    BY <2>4, <2>5, <2>6, SamePairs
  <2> QED BY <2>1, <2>7
<1>9. ASSUME call[p].job = j
      PROVE  /\ IsFiniteSet(ToPush(j)')
             /\ Cardinality(ToPush(j)') = Cardinality(ToPush(j)) - 1
             /\ Cardinality(ToPush(j)) \in Nat \ {0}
  <2>1. /\ IsFiniteSet(ToPush(j)') /\ Cardinality(ToPush(j)') = Cardinality(ToPush(j)) - 1
    BY <1>8, <1>9, FS_RemoveElement
  <2>2. Cardinality(ToPush(j)) \in Nat /\ Cardinality(ToPush(j)') \in Nat
    BY <2>1, FS_CardinalityType
  <2> QED BY <2>1, <2>2
<1> QED BY <1>4, <1>7, <1>9

LEMMA EnqueueLegs ==
  ASSUME IInv, IInv', LegsInv, NEW p \in Procs, Enqueue(p)
  PROVE  LegsInv'
<1> SUFFICES ASSUME NEW j \in JobIds PROVE JobLegs(j)'
  BY DEF LegsInv
<1>1. PICK t : t = Target(p)
  OBVIOUS
<1>2. PICK c : c = [kind |-> call[p].kind, job |-> call[p].job, sender |-> p]
  OBVIOUS
<1>3. JobLegs(j) /\ IsFiniteSet(InQueue(j)) /\ IsFiniteSet(ToPush(j)) /\ IsFiniteSet(InBatch(j))
  BY DEF LegsInv, JobLegs
<1>4. /\ pc[p] = "enq" /\ NextTarget(p)
      /\ UNCHANGED <<ctx, batch, pos, legs, leaked, hist>>
      /\ queue' = [queue EXCEPT ![t] = Append(queue[t], c)]
  BY <1>1, <1>2 DEF Enqueue, At, Link, jobVars, nodeVars, histVars
<1>5. t \in Threads /\ queue[t] \in Seq(Cell) /\ queue'[t] = Append(queue[t], c)
      /\ \A u \in Threads \ {t} : queue'[u] = queue[u]
  <2>1. call[p] \in Call /\ call[p].to # <<>>
    BY <1>4 DEF IInv, TypeOK, ControlType, CallInv
  <2>2. t \in Threads
    BY <1>1, <2>1 DEF Target, Call
  <2> QED BY <1>4, <2>2 DEF IInv, TypeOK, ThreadType
<1>6. PICK n \in Nat : n = Len(queue[t])
  BY <1>5
<1>7. \A i : i \in DOMAIN queue'[t] <=> i \in DOMAIN queue[t] \/ i = n + 1
  BY <1>5, <1>6
<1>8. queue'[t][n + 1] = c /\ n + 1 \notin DOMAIN queue[t]
      /\ \A i \in DOMAIN queue[t] : queue'[t][i] = queue[t][i]
  BY <1>5, <1>6
<1>9. /\ InBatch(j)' = InBatch(j)
      /\ call[p].job # j => ToPush(j)' = ToPush(j)
      /\ call[p].job = j => /\ IsFiniteSet(ToPush(j)')
                            /\ Cardinality(ToPush(j)') = Cardinality(ToPush(j)) - 1
                            /\ Cardinality(ToPush(j)) \in Nat \ {0}
  BY <1>3, <1>4, NextTargetRefs
<1>10. Live(j)' <=> Live(j)
  BY <1>4 DEF Live
<1>11. CASE call[p].job # j
  <2>1. \A u \in Threads : \A i : QueuedAt(u, i, j)' <=> QueuedAt(u, i, j)
    <3>1. \A i : QueuedAt(t, i, j)' <=> QueuedAt(t, i, j)
      BY <1>2, <1>7, <1>8, <1>11 DEF QueuedAt
    <3>2. \A u \in Threads \ {t} : \A i : QueuedAt(u, i, j)' <=> QueuedAt(u, i, j)
      BY <1>5 DEF QueuedAt
    <3> QED BY <3>1, <3>2
  <2>2. InQueue(j)' = InQueue(j)
    BY <2>1, QueueSame
  <2> QED BY <1>3, <1>4, <1>9, <1>10, <1>11, <2>2, LegsFrame DEF SameRefs, SameLegs
<1>12. CASE call[p].job = j
  <2>1. \A i : QueuedAt(t, i, j)' <=> QueuedAt(t, i, j) \/ i = n + 1
    BY <1>2, <1>7, <1>8, <1>12 DEF QueuedAt
  <2>2. \A u \in Threads \ {t} : \A i : QueuedAt(u, i, j)' <=> QueuedAt(u, i, j)
    BY <1>5 DEF QueuedAt
  <2>3. <<t, n + 1>> \notin InQueue(j)
    BY <1>8, QueueMembers DEF QueuedAt
  <2>4. \A u, i : <<u, i>> \in InQueue(j)' <=> <<u, i>> \in InQueue(j) \cup {<<t, n + 1>>}
    BY <1>5, <2>1, <2>2, QueueMembers
  <2>5. \A x \in InQueue(j) \cup {<<t, n + 1>>} : IsPair(x)
    BY QueueMembers DEF IsPair
  <2>6. \A x \in InQueue(j)' : IsPair(x)
    BY QueueMembers
  <2>7. InQueue(j)' = InQueue(j) \cup {<<t, n + 1>>}
    BY <2>4, <2>5, <2>6, SamePairs
  <2>8. IsFiniteSet(InQueue(j)') /\ Cardinality(InQueue(j)') = Cardinality(InQueue(j)) + 1
    BY <1>3, <2>3, <2>7, FS_AddElement
  <2>9. Cardinality(InBatch(j)) \in Nat /\ Cardinality(InQueue(j)) \in Nat
        /\ legs[j] \in Int
    BY <1>3, LegsTypes
  <2>10. Outstanding(j)' = Outstanding(j) + 0 /\ legs'[j] = legs[j] + 0
    BY <1>4, <1>9, <1>12, <2>8, <2>9 DEF Outstanding
  <2>11. IsFiniteSet(InBatch(j)') /\ IsFiniteSet(InQueue(j)') /\ IsFiniteSet(ToPush(j)')
    BY <1>3, <1>9, <1>12, <2>8
  <2>12. /\ leaked' = leaked /\ 0 \in Int
         /\ hist'[j].dones = hist[j].dones - 0 /\ hist'[j].to = hist[j].to
    BY <1>4, JobTypes
  <2> QED BY <1>3, <1>10, <2>10, <2>11, <2>12, LegsShift
<1> QED BY <1>11, <1>12

LEMMA RejectedDoneLegs ==
  ASSUME IInv, IInv', PushInv, LegsInv, NEW p \in Procs, RejectedDone(p)
  PROVE  LegsInv'
<1> SUFFICES ASSUME NEW j \in JobIds PROVE JobLegs(j)'
  BY DEF LegsInv
<1>1. JobLegs(j) /\ IsFiniteSet(InQueue(j)) /\ IsFiniteSet(ToPush(j)) /\ IsFiniteSet(InBatch(j))
  BY DEF LegsInv, JobLegs
<1>2. /\ pc[p] = "rej" /\ NextTarget(p)
      /\ UNCHANGED <<ctx, batch, pos, queue, legs, leaked>>
  BY DEF RejectedDone, At, mailVars, nodeVars
<1>3. /\ InBatch(j)' = InBatch(j)
      /\ call[p].job # j => ToPush(j)' = ToPush(j)
      /\ call[p].job = j => /\ IsFiniteSet(ToPush(j)')
                            /\ Cardinality(ToPush(j)') = Cardinality(ToPush(j)) - 1
                            /\ Cardinality(ToPush(j)) \in Nat \ {0}
  BY <1>1, <1>2, NextTargetRefs
<1>4. InQueue(j)' = InQueue(j)
  BY <1>2 DEF InQueue
<1>5. leaked' # 0
  <2>1. leaked > 0 /\ leaked \in Nat
    BY <1>2 DEF PushInv, IInv, TypeOK, PoolType
  <2> QED BY <1>2, <2>1
<1>6. IsFiniteSet(InBatch(j)') /\ IsFiniteSet(InQueue(j)') /\ IsFiniteSet(ToPush(j)')
  BY <1>1, <1>3, <1>4
<1>7. PICK k : k = call[p].job
  OBVIOUS
<1>8. k \in JobIds /\ hist' = [hist EXCEPT ![k] = Done(k, p, jobEnd[p], IF jobEnd[p] THEN "freed" ELSE "live")]
  BY <1>7 DEF RejectedDone, Live
<1>9. /\ \A i \in JobIds \ {k} : hist'[i] = hist[i]
      /\ hist'[k].dones = hist[k].dones + 1 /\ hist'[k].to = hist[k].to
  BY <1>8 DEF IInv, TypeOK, HistoryType, Done
<1>10. CASE k # j
  <2>1. SameRefs(j) /\ SameLegs(j) /\ (Live(j)' <=> Live(j))
    BY <1>2, <1>3, <1>4, <1>7, <1>9, <1>10 DEF SameRefs, SameLegs, Live
  <2> QED BY <1>1, <1>5, <2>1, LegsFrame
<1>11. CASE k = j
  <2>1. /\ Cardinality(InBatch(j)) \in Nat /\ Cardinality(InQueue(j)) \in Nat
        /\ Cardinality(ToPush(j)) \in Nat /\ legs[j] \in Int
        /\ hist[j].dones \in Nat /\ Len(hist[j].to) \in Nat
    BY <1>1, LegsTypes
  <2>2. Outstanding(j)' = Outstanding(j) - 1 /\ Outstanding(j) \in Int
    <3> DEFINE b == Cardinality(InBatch(j))
               q == Cardinality(InQueue(j))
               u == Cardinality(ToPush(j))
    <3>1. b' = b /\ q' = q /\ u' = u - 1
      BY <1>3, <1>4, <1>7, <1>11
    <3>2. b \in Nat /\ q \in Nat /\ u \in Nat
      BY <2>1
    <3>3. Outstanding(j) = b + q + u /\ Outstanding(j)' = b' + q' + u'
      BY DEF Outstanding
    <3> HIDE DEF b, q, u
    <3> QED BY <3>1, <3>2, <3>3
  <2>3. hist'[j].dones = hist[j].dones + 1 /\ hist'[j].to = hist[j].to /\ legs'[j] = legs[j]
    BY <1>2, <1>9, <1>11
  <2> DEFINE n == Outstanding(j)
             d == hist[j].dones
             m == Len(hist[j].to)
  <2>4. n \in Int /\ d \in Nat /\ m \in Nat /\ legs[j] \in Int
    BY <2>1, <2>2
  <2>5. n + d = m /\ m <= legs[j] + d
    BY <1>1 DEF JobLegs
  <2>6. n' = n - 1 /\ d' = d + 1 /\ m' = m /\ legs'[j] = legs[j]
    BY <2>2, <2>3
  <2> HIDE DEF n, d, m
  <2>7. n' + d' = m' /\ m' <= legs'[j] + d' /\ legs'[j] + d' # m'
    BY <2>4, <2>5, <2>6
  <2> USE DEF n, d, m
  <2>8. ~Counted(j)'
    BY <2>7 DEF Counted
  <2> QED BY <1>5, <1>6, <2>7, <2>8 DEF JobLegs
<1> QED BY <1>10, <1>11

\* Thread p is done with curr as far as its job is concerned.
LEMMA LeaveCurr ==
  ASSUME IInv, NEW p \in Threads, NEW j \in JobIds, IsFiniteSet(InBatch(j)),
         UNCHANGED <<batch, pos>>, pos[p] <= Len(batch[p]), CurrPending(p), ~CurrPending(p)',
         \A t \in Threads \ {p} : pc'[t] = pc[t] /\ ctx'[t] = ctx[t]
  PROVE  /\ Curr(p).job # j => InBatch(j)' = InBatch(j)
         /\ Curr(p).job = j =>
               /\ IsFiniteSet(InBatch(j)')
               /\ Cardinality(InBatch(j)') = Cardinality(InBatch(j)) - 1
               /\ Cardinality(InBatch(j)) \in Nat \ {0}
<1>1. PICK n : n = pos[p]
  OBVIOUS
<1>2. n \in n .. Len(batch[p]) /\ Curr(p) = batch[p][n]
  <2>1. pos[p] \in Nat /\ Len(batch[p]) \in Nat
    BY DEF IInv, TypeOK, ThreadType
  <2> QED BY <1>1, <2>1 DEF Curr
<1>3. \A i : PendingAt(p, i, j)' <=> PendingAt(p, i, j) /\ i # n
  BY <1>1 DEF PendingAt
<1>4. \A t \in Threads \ {p} : \A i : PendingAt(t, i, j)' <=> PendingAt(t, i, j)
  BY DEF PendingAt, CurrPending
<1>5. PendingAt(p, n, j) <=> Curr(p).job = j
  BY <1>1, <1>2 DEF PendingAt
<1>6. ASSUME Curr(p).job # j PROVE InBatch(j)' = InBatch(j)
  <2>1. \A t \in Threads : \A i : PendingAt(t, i, j)' <=> PendingAt(t, i, j)
    BY <1>3, <1>4, <1>5, <1>6
  <2> QED BY <2>1, BatchSame
<1>7. ASSUME Curr(p).job = j
      PROVE  /\ IsFiniteSet(InBatch(j)')
             /\ Cardinality(InBatch(j)') = Cardinality(InBatch(j)) - 1
             /\ Cardinality(InBatch(j)) \in Nat \ {0}
  <2>1. <<p, n>> \in InBatch(j)
    BY <1>5, <1>7, BatchMembers
  <2>2. \A t, i : <<t, i>> \in InBatch(j)' <=> <<t, i>> \in InBatch(j) \ {<<p, n>>}
    BY <1>3, <1>4, BatchMembers
  <2>3. \A x \in InBatch(j) \ {<<p, n>>} : IsPair(x)
    BY BatchMembers
  <2>4. \A x \in InBatch(j)' : IsPair(x)
    BY BatchMembers
  <2>5. InBatch(j)' = InBatch(j) \ {<<p, n>>}
    BY <2>2, <2>3, <2>4, SamePairs
  <2>6. IsFiniteSet(InBatch(j)') /\ Cardinality(InBatch(j)') = Cardinality(InBatch(j)) - 1
    BY <2>1, <2>5, FS_RemoveElement
  <2>7. Cardinality(InBatch(j)) \in Nat /\ Cardinality(InBatch(j)') \in Nat
    BY <2>6, FS_CardinalityType
  <2> QED BY <2>6, <2>7
<1> QED BY <1>6, <1>7

LEMMA WorkReturnsLegs ==
  ASSUME IInv, IInv', PushInv, LegsInv, NEW p \in Threads, WorkReturns(p)
  PROVE  LegsInv'
<1> SUFFICES ASSUME NEW j \in JobIds PROVE JobLegs(j)'
  BY DEF LegsInv
<1>0. p \in Procs
  BY DEF Procs
<1>1. JobLegs(j) /\ IsFiniteSet(InQueue(j)) /\ IsFiniteSet(ToPush(j)) /\ IsFiniteSet(InBatch(j))
  BY DEF LegsInv, JobLegs
<1>2. /\ pc[p] = "user" /\ ctx[p] = "work"
      /\ pc' = [pc EXCEPT ![p] = "node"] /\ ctx' = [ctx EXCEPT ![p] = "result"]
      /\ call' = [call EXCEPT ![p] = [kind |-> "result", job |-> Curr(p).job, to |-> <<Curr(p).sender>>]]
      /\ UNCHANGED <<batch, pos, queue, legs, leaked, hist>>
  BY DEF WorkReturns, At, ReplyTo, mailVars, jobVars, nodeVars, histVars
<1>3. /\ pc'[p] = "node" /\ ctx'[p] = "result"
      /\ call'[p].job = Curr(p).job /\ call'[p].to = <<Curr(p).sender>>
      /\ \A q \in Procs \ {p} : pc'[q] = pc[q] /\ ctx'[q] = ctx[q] /\ call'[q] = call[q]
  BY <1>0, <1>2, PcDomain
<1>4. pos[p] <= Len(batch[p])
  BY <1>2 DEF IInv, BatchInv, AtNode, Busy
<1>5. CurrPending(p) /\ ~CurrPending(p)'
  BY <1>2, <1>3 DEF CurrPending
<1>6. /\ Curr(p).job # j => InBatch(j)' = InBatch(j)
      /\ Curr(p).job = j =>
            /\ IsFiniteSet(InBatch(j)')
            /\ Cardinality(InBatch(j)') = Cardinality(InBatch(j)) - 1
            /\ Cardinality(InBatch(j)) \in Nat \ {0}
  BY <1>1, <1>2, <1>3, <1>4, <1>5, LeaveCurr DEF Procs
<1>7. InQueue(j)' = InQueue(j)
  BY <1>2 DEF InQueue
<1>8. \A i : ~PushedAt(p, i, j)
  <2>1. call[p].to = <<>>
    BY <1>0, <1>2 DEF PushInv
  <2> QED BY <2>1 DEF PushedAt
<1>9. \A q \in Procs \ {p} : \A i : PushedAt(q, i, j)' <=> PushedAt(q, i, j)
  BY <1>3 DEF PushedAt
<1>10. \A i : PushedAt(p, i, j)' <=> Curr(p).job = j /\ i = 1
  BY <1>3 DEF PushedAt
<1>11. Live(j)' <=> Live(j)
  BY <1>2 DEF Live
<1>12. CASE Curr(p).job # j
  <2>1. ToPush(j)' = ToPush(j)
    BY <1>8, <1>9, <1>10, <1>12, PushSame
  <2> QED BY <1>1, <1>2, <1>6, <1>7, <1>11, <1>12, <2>1, LegsFrame DEF SameRefs, SameLegs
<1>13. CASE Curr(p).job = j
  <2>1. <<p, 1>> \notin ToPush(j)
    BY <1>8, PushMembers
  <2>2. \A q, i : <<q, i>> \in ToPush(j)' <=> <<q, i>> \in ToPush(j) \cup {<<p, 1>>}
    BY <1>0, <1>8, <1>9, <1>10, <1>13, PushMembers
  <2>3. \A x \in ToPush(j) \cup {<<p, 1>>} : IsPair(x)
    BY PushMembers DEF IsPair
  <2>4. \A x \in ToPush(j)' : IsPair(x)
    BY PushMembers
  <2>5. ToPush(j)' = ToPush(j) \cup {<<p, 1>>}
    BY <2>2, <2>3, <2>4, SamePairs
  <2>6. IsFiniteSet(ToPush(j)') /\ Cardinality(ToPush(j)') = Cardinality(ToPush(j)) + 1
    BY <1>1, <2>1, <2>5, FS_AddElement
  <2>7. Cardinality(InQueue(j)) \in Nat /\ Cardinality(ToPush(j)) \in Nat /\ legs[j] \in Int
    BY <1>1, LegsTypes
  <2>8. Outstanding(j)' = Outstanding(j) + 0 /\ legs'[j] = legs[j] + 0
    BY <1>2, <1>6, <1>7, <1>13, <2>6, <2>7 DEF Outstanding
  <2>9. IsFiniteSet(InBatch(j)') /\ IsFiniteSet(InQueue(j)') /\ IsFiniteSet(ToPush(j)')
    BY <1>1, <1>6, <1>7, <1>13, <2>6
  <2>10. /\ leaked' = leaked /\ 0 \in Int
         /\ hist'[j].dones = hist[j].dones - 0 /\ hist'[j].to = hist[j].to
    BY <1>2, JobTypes
  <2> QED BY <1>1, <1>11, <2>8, <2>9, <2>10, LegsShift
<1> QED BY <1>12, <1>13

LEMMA RunDoneLegs ==
  ASSUME IInv, IInv', LegsInv, NEW p \in Threads, RunDone(p)
  PROVE  LegsInv'
<1> SUFFICES ASSUME NEW j \in JobIds PROVE JobLegs(j)'
  BY DEF LegsInv
<1>0. p \in Procs
  BY DEF Procs
<1>1. JobLegs(j) /\ IsFiniteSet(InQueue(j)) /\ IsFiniteSet(ToPush(j)) /\ IsFiniteSet(InBatch(j))
  BY DEF LegsInv, JobLegs
<1>2. PICK k : k = Curr(p).job
  OBVIOUS
<1>3. /\ pc[p] = "next" /\ pos[p] <= Len(batch[p]) /\ Live(k) /\ k \in JobIds
      /\ pc' = [pc EXCEPT ![p] = "user"] /\ ctx' = [ctx EXCEPT ![p] = "done"]
      /\ legs' = [legs EXCEPT ![k] = legs[k] - 1]
      /\ hist' = [hist EXCEPT ![k] = Done(k, p, IsEnd(legs[k] - 1), "live")]
      /\ UNCHANGED <<batch, pos, queue, call, leaked>>
  BY <1>2 DEF RunDone, HasCurr, At, Live, mailVars, nodeVars
<1>4. /\ pc'[p] = "user" /\ ctx'[p] = "done"
      /\ \A q \in Procs \ {p} : pc'[q] = pc[q] /\ ctx'[q] = ctx[q]
      /\ legs'[k] = legs[k] - 1 /\ \A i \in JobIds \ {k} : legs'[i] = legs[i] /\ hist'[i] = hist[i]
      /\ hist'[k].state = "live" /\ hist'[k].to = hist[k].to
      /\ hist'[k].dones = hist[k].dones + 1
  BY <1>0, <1>3, PcDomain DEF IInv, TypeOK, PoolType, HistoryType, Done
<1>5. CurrPending(p) /\ ~CurrPending(p)'
  BY <1>3, <1>4 DEF CurrPending
<1>6. /\ k # j => InBatch(j)' = InBatch(j)
      /\ k = j =>
            /\ IsFiniteSet(InBatch(j)')
            /\ Cardinality(InBatch(j)') = Cardinality(InBatch(j)) - 1
            /\ Cardinality(InBatch(j)) \in Nat \ {0}
  BY <1>1, <1>2, <1>3, <1>4, <1>5, LeaveCurr DEF Procs
<1>7. InQueue(j)' = InQueue(j) /\ ToPush(j)' = ToPush(j)
  BY <1>3 DEF InQueue, ToPush
<1>8. Live(j)' <=> Live(j)
  BY <1>3, <1>4 DEF Live
<1>9. CASE k # j
  BY <1>1, <1>3, <1>4, <1>6, <1>7, <1>8, <1>9, LegsFrame DEF SameRefs, SameLegs
<1>10. CASE k = j
  <2>1. Cardinality(InQueue(j)) \in Nat /\ Cardinality(ToPush(j)) \in Nat /\ legs[j] \in Int
    BY <1>1, LegsTypes
  <2>2. Outstanding(j)' = Outstanding(j) + (-1) /\ legs'[j] = legs[j] + (-1)
    BY <1>4, <1>6, <1>7, <1>10, <2>1 DEF Outstanding
  <2>3. IsFiniteSet(InBatch(j)') /\ IsFiniteSet(InQueue(j)') /\ IsFiniteSet(ToPush(j)')
    BY <1>1, <1>6, <1>7, <1>10
  <2>4. leaked' = leaked /\ -1 \in Int /\ Live(j)
    BY <1>3, <1>10
  <2>5. hist'[j].dones = hist[j].dones - (-1) /\ hist'[j].to = hist[j].to
    BY <1>4, <1>10, JobTypes
  <2> QED BY <1>1, <1>8, <2>2, <2>3, <2>4, <2>5, LegsShift
<1> QED BY <1>9, <1>10

LEMMA RunStopLegs ==
  ASSUME IInv, IInv', LegsInv, NEW p \in Threads, RunStop(p)
  PROVE  LegsInv'
<1> SUFFICES ASSUME NEW j \in JobIds PROVE JobLegs(j)'
  BY DEF LegsInv
<1>1. /\ pc[p] = "next" /\ pos[p] <= Len(batch[p]) /\ Curr(p).kind = "stop"
      /\ pc' = [pc EXCEPT ![p] = "fin"]
      /\ UNCHANGED <<batch, pos, queue, call, leaked, ctx, legs, hist>>
  BY DEF RunStop, HasCurr, At, mailVars, nodeVars, jobVars, histVars
<1>2. JobLegs(j) /\ IsFiniteSet(InBatch(j))
  BY DEF LegsInv, JobLegs
<1>3. pc'[p] = "fin" /\ \A q \in Procs \ {p} : pc'[q] = pc[q] /\ ctx'[q] = ctx[q]
  BY <1>1, PcDomain DEF Procs
<1>4. CurrPending(p) /\ ~CurrPending(p)'
  BY <1>1, <1>3 DEF CurrPending
<1>5. Curr(p).job # j
  <2>1. batch[p] \in Seq(Cell) /\ pos[p] \in Nat \ {0}
    BY DEF IInv, TypeOK, ThreadType
  <2>2. Curr(p) \in Cell
    BY <1>1, <2>1 DEF Curr
  <2> QED BY <1>1, <2>2 DEF Cell, NoJob, JobIds
<1>6. InBatch(j)' = InBatch(j)
  BY <1>1, <1>2, <1>3, <1>4, <1>5, LeaveCurr DEF Procs
<1>7. InQueue(j)' = InQueue(j) /\ ToPush(j)' = ToPush(j) /\ (Live(j)' <=> Live(j))
  BY <1>1 DEF InQueue, ToPush, Live
<1> QED BY <1>1, <1>2, <1>6, <1>7, LegsFrame DEF SameRefs, SameLegs

LEMMA FinishNodeLegs ==
  ASSUME IInv, IInv', LegsInv, NEW p \in Threads, FinishNode(p)
  PROVE  LegsInv'
<1> SUFFICES ASSUME NEW j \in JobIds PROVE JobLegs(j)'
  BY DEF LegsInv
<1>1. /\ pc[p] = "fin" /\ pc' = [pc EXCEPT ![p] = "next"] /\ pos' = [pos EXCEPT ![p] = pos[p] + 1]
      /\ UNCHANGED <<batch, queue, call, leaked, ctx, legs, hist>>
  BY DEF FinishNode, At, nodeVars, jobVars, histVars
<1>2. JobLegs(j)
  BY DEF LegsInv
<1>3. /\ pc'[p] = "next" /\ \A q \in Procs \ {p} : pc'[q] = pc[q] /\ ctx'[q] = ctx[q]
      /\ pos'[p] = pos[p] + 1 /\ \A t \in Threads \ {p} : pos'[t] = pos[t]
  BY <1>1, PcDomain DEF Procs, IInv, TypeOK, ThreadType
<1>4. pos[p] \in Nat /\ Len(batch[p]) \in Nat
  BY DEF IInv, TypeOK, ThreadType
<1>5. \A i : i \in pos'[p] .. Len(batch[p]) <=> i \in pos[p] .. Len(batch[p]) /\ i # pos[p]
  BY <1>3, <1>4
<1>6. CurrPending(p)' /\ ~CurrPending(p)
  BY <1>1, <1>3 DEF CurrPending
<1>7. \A i : PendingAt(p, i, j)' <=> PendingAt(p, i, j)
  BY <1>1, <1>5, <1>6 DEF PendingAt
<1>8. \A t \in Threads \ {p} : \A i : PendingAt(t, i, j)' <=> PendingAt(t, i, j)
  BY <1>1, <1>3 DEF PendingAt, CurrPending, Procs
<1>9. InBatch(j)' = InBatch(j)
  BY <1>7, <1>8, BatchSame
<1>10. InQueue(j)' = InQueue(j) /\ ToPush(j)' = ToPush(j) /\ (Live(j)' <=> Live(j))
  BY <1>1 DEF InQueue, ToPush, Live
<1> QED BY <1>1, <1>2, <1>9, <1>10, LegsFrame DEF SameRefs, SameLegs

LEMMA FreesLegs ==
  ASSUME IInv, IInv', LegsInv, NEW p \in Threads, Frees(p)
  PROVE  LegsInv'
<1> SUFFICES ASSUME NEW j \in JobIds PROVE JobLegs(j)'
  BY DEF LegsInv
<1>1. /\ pos[p] > Len(batch[p]) /\ pc' = [pc EXCEPT ![p] = "loop"]
      /\ batch' = [batch EXCEPT ![p] = <<>>] /\ pos' = [pos EXCEPT ![p] = 1]
      /\ UNCHANGED <<queue, call, leaked, ctx, legs, hist>>
  BY DEF Frees, At, jobVars, histVars
<1>2. JobLegs(j)
  BY DEF LegsInv
<1>3. /\ batch'[p] = <<>> /\ pos'[p] = 1
      /\ \A t \in Threads \ {p} : pos'[t] = pos[t] /\ batch'[t] = batch[t]
      /\ \A q \in Procs \ {p} : pc'[q] = pc[q] /\ ctx'[q] = ctx[q]
  BY <1>1, PcDomain DEF Procs, IInv, TypeOK, ThreadType
<1>4. pos[p] \in Nat /\ Len(batch[p]) \in Nat /\ Len(batch'[p]) = 0
  BY <1>3, EmptySeq DEF IInv, TypeOK, ThreadType
<1>5. \A i : i \notin pos'[p] .. Len(batch'[p]) /\ i \notin pos[p] .. Len(batch[p])
  BY <1>1, <1>3, <1>4
<1>6. \A i : ~PendingAt(p, i, j)' /\ ~PendingAt(p, i, j)
  BY <1>5 DEF PendingAt
<1>7. \A t \in Threads \ {p} : \A i : PendingAt(t, i, j)' <=> PendingAt(t, i, j)
  BY <1>3 DEF PendingAt, CurrPending, Procs
<1>8. InBatch(j)' = InBatch(j)
  BY <1>6, <1>7, BatchSame
<1>9. InQueue(j)' = InQueue(j) /\ ToPush(j)' = ToPush(j) /\ (Live(j)' <=> Live(j))
  BY <1>1 DEF InQueue, ToPush, Live
<1> QED BY <1>1, <1>2, <1>8, <1>9, LegsFrame DEF SameRefs, SameLegs

LEMMA DrainLegs ==
  ASSUME IInv, IInv', LegsInv, NEW p \in Threads, Drain(p)
  PROVE  LegsInv'
<1> SUFFICES ASSUME NEW j \in JobIds PROVE JobLegs(j)'
  BY DEF LegsInv
<1>1. /\ pc[p] = "loop" /\ pc' = [pc EXCEPT ![p] = IF LoopEnds(p) THEN "exit" ELSE "next"]
      /\ batch' = [batch EXCEPT ![p] = queue[p]] /\ pos' = [pos EXCEPT ![p] = 1]
      /\ queue' = [queue EXCEPT ![p] = <<>>]
      /\ UNCHANGED <<call, leaked, ctx, legs, hist>>
  BY DEF Drain, At, jobVars, histVars, nodeVars
<1>2. JobLegs(j) /\ IsFiniteSet(InQueue(j)) /\ IsFiniteSet(InBatch(j))
  BY DEF LegsInv, JobLegs
<1>3. /\ batch'[p] = queue[p] /\ pos'[p] = 1 /\ queue'[p] = <<>>
      /\ \A t \in Threads \ {p} : pos'[t] = pos[t] /\ batch'[t] = batch[t] /\ queue'[t] = queue[t]
      /\ \A q \in Procs \ {p} : pc'[q] = pc[q] /\ ctx'[q] = ctx[q]
      /\ queue[p] # <<>> => pc'[p] = "next"
  BY <1>1, PcDomain DEF Procs, IInv, TypeOK, ThreadType, LoopEnds
<1>4. batch[p] = <<>> /\ pos[p] = 1
  BY <1>1 DEF IInv, BatchInv, NoBatch
<1>5. queue[p] \in Seq(Cell) /\ DOMAIN queue[p] = 1 .. Len(queue[p])
  BY DEF IInv, TypeOK, ThreadType
<1>6. \A i : ~PendingAt(p, i, j)
  <2>1. Len(batch[p]) = 0
    BY <1>4, EmptySeq
  <2>2. \A i : i \notin pos[p] .. Len(batch[p])
    BY <1>4, <2>1
  <2> QED BY <2>2 DEF PendingAt
<1>7. \A i : PendingAt(p, i, j)' <=> QueuedAt(p, i, j)
  <2>1. queue[p] # <<>> => CurrPending(p)'
    BY <1>3 DEF CurrPending
  <2>2. \A i : i \in DOMAIN queue[p] => queue[p] # <<>>
    BY <1>5
  <2> QED BY <1>3, <1>5, <2>1, <2>2 DEF PendingAt, QueuedAt
<1>8. \A i : ~QueuedAt(p, i, j)'
  BY <1>3 DEF QueuedAt
<1>9. \A t \in Threads \ {p} : \A i : /\ PendingAt(t, i, j)' <=> PendingAt(t, i, j)
                                      /\ QueuedAt(t, i, j)' <=> QueuedAt(t, i, j)
  BY <1>3 DEF PendingAt, QueuedAt, CurrPending, Procs
<1>10. PICK M : M = {x \in InQueue(j) : x[1] = p}
  OBVIOUS
<1>11. /\ \A t, i : <<t, i>> \in M <=> t = p /\ QueuedAt(p, i, j)
       /\ \A x \in M : IsPair(x)
       /\ M \subseteq InQueue(j)
  <2>1. \A t, i : <<t, i>>[1] = t
    OBVIOUS
  <2> QED BY <1>10, <2>1, QueueMembers
<1>12. InBatch(j)' = InBatch(j) \cup M
  <2>1. \A t, i : <<t, i>> \in InBatch(j)' <=> <<t, i>> \in InBatch(j) \cup M
    BY <1>6, <1>7, <1>9, <1>11, BatchMembers
  <2>2. \A x \in InBatch(j)' : IsPair(x)
    BY BatchMembers
  <2>3. \A x \in InBatch(j) \cup M : IsPair(x)
    BY <1>11, BatchMembers
  <2> QED BY <2>1, <2>2, <2>3, SamePairs
<1>13. InQueue(j)' = InQueue(j) \ M
  <2>1. \A t, i : <<t, i>> \in InQueue(j)' <=> <<t, i>> \in InQueue(j) \ M
    BY <1>8, <1>9, <1>11, QueueMembers
  <2>2. \A x \in InQueue(j)' : IsPair(x)
    BY QueueMembers
  <2>3. \A x \in InQueue(j) \ M : IsPair(x)
    BY QueueMembers
  <2> QED BY <2>1, <2>2, <2>3, SamePairs
<1>14. InBatch(j) \cap M = {} /\ InQueue(j) \cap M = M
  <2>1. \A x \in M : x \notin InBatch(j)
    BY <1>6, <1>11, BatchMembers DEF IsPair
  <2> QED BY <1>11, <2>1
<1>15. IsFiniteSet(M) /\ Cardinality(M) \in Nat
  BY <1>2, <1>11, FS_Subset, FS_CardinalityType
<1>16. IsFiniteSet(InBatch(j)') /\ Cardinality(InBatch(j)') = Cardinality(InBatch(j)) + Cardinality(M)
  <2>1. Cardinality({}) = 0 /\ Cardinality(InBatch(j)) \in Nat
    BY <1>2, FS_EmptySet, FS_CardinalityType
  <2>2. /\ IsFiniteSet(InBatch(j)')
        /\ Cardinality(InBatch(j)') = Cardinality(InBatch(j)) + Cardinality(M) - Cardinality({})
    BY <1>2, <1>12, <1>14, <1>15, FS_Union
  <2> QED BY <1>15, <2>1, <2>2
<1>17. IsFiniteSet(InQueue(j)') /\ Cardinality(InQueue(j)') = Cardinality(InQueue(j)) - Cardinality(M)
  BY <1>2, <1>13, <1>14, FS_Difference
<1>18. ToPush(j)' = ToPush(j) /\ (Live(j)' <=> Live(j))
  BY <1>1 DEF ToPush, Live
<1>19. Cardinality(InBatch(j)) \in Nat /\ Cardinality(InQueue(j)) \in Nat
       /\ Cardinality(ToPush(j)) \in Nat /\ legs[j] \in Int
  BY <1>2, LegsTypes
<1>20. Outstanding(j)' = Outstanding(j) + 0 /\ legs'[j] = legs[j] + 0
  BY <1>1, <1>15, <1>16, <1>17, <1>18, <1>19 DEF Outstanding
<1>21. IsFiniteSet(ToPush(j)') /\ leaked' = leaked /\ 0 \in Int
  BY <1>1, <1>2, <1>18 DEF JobLegs
<1>22. hist'[j].dones = hist[j].dones - 0 /\ hist'[j].to = hist[j].to
  BY <1>1, JobTypes
<1> QED BY <1>2, <1>16, <1>17, <1>18, <1>20, <1>21, <1>22, LegsShift

LEMMA NextLegs ==
  ASSUME IInv, IInv', CellInv, PushInv, EndInv, LegsInv, [Next]_vars
  PROVE  LegsInv'
<1>1. ASSUME NEW p \in Procs, Push(p) PROVE LegsInv'
  <2>1. CASE PushThread(p) \/ PushPool(p) \/ PushLua(p) \/ PushAll(p)
    <3>1. \E to \in Seq(Threads) \ {<<>>}, next \in {"node", "lock"} : StartPush(p, to, next)
      BY <2>1, PushesOne
    <3> QED BY <3>1, StartPushLegs
  <2>2. CASE NullCall(p) \/ RejectedStale(p)
    BY <2>2, StutterLegs DEF NullCall, RejectedStale, Crash, mailVars, nodeVars, jobVars, histVars
  <2> QED BY <1>1, <2>1, <2>2, QuietLegs, EnqueueLegs, RejectedDoneLegs DEF Push
<1>2. ASSUME NEW p \in Threads, Exec(p) PROVE LegsInv'
  <2>1. p \in Procs
    BY DEF Procs
  <2>2. CASE RunStale(p)
    BY <2>2, StutterLegs DEF RunStale, Crash, mailVars, nodeVars, jobVars, histVars
  <2> QED BY <1>2, <2>1, <2>2, QuietLegs, WorkReturnsLegs, DrainLegs, RunDoneLegs, RunStopLegs,
             FinishNodeLegs, FreesLegs DEF Exec
<1>3. ASSUME NEW p \in Procs, Waitstops(p) PROVE LegsInv'
  <2>1. CASE Poll(p)
    BY <2>1, StutterLegs DEF Poll, vars, mailVars, nodeVars, jobVars, histVars
  <2> QED BY <1>3, <2>1, QuietLegs DEF Waitstops
<1>4. CASE Rest \/ UNCHANGED vars
  BY <1>4, StutterLegs DEF Rest, vars, mailVars, nodeVars, jobVars, histVars
<1> QED BY <1>1, <1>2, <1>3, <1>4 DEF Next

-----------------------------------------------------------------------------
\* What a pending node or a push to be made says about the counter of its job.
LEMMA PendingLegs ==
  ASSUME IInv, LegsInv, NEW j \in JobIds
  PROVE  /\ \A p \in Threads : pos[p] <= Len(batch[p]) /\ CurrPending(p) /\ Curr(p).job = j => legs[j] > 0
         /\ \A p \in Procs : call[p].to # <<>> /\ call[p].job = j => legs[j] > 0
<1>1. /\ IsFiniteSet(InBatch(j)) /\ IsFiniteSet(ToPush(j))
      /\ Cardinality(InBatch(j)) \in Nat /\ Cardinality(InQueue(j)) \in Nat
      /\ Cardinality(ToPush(j)) \in Nat /\ legs[j] \in Int /\ Outstanding(j) <= legs[j]
  BY LegsTypes DEF LegsInv, JobLegs
<1>2. InBatch(j) # {} \/ ToPush(j) # {} => legs[j] > 0
  <2>1. Cardinality(InBatch(j)) # 0 \/ Cardinality(ToPush(j)) # 0 => legs[j] > 0
    BY <1>1 DEF Outstanding
  <2> QED BY <1>1, <2>1, FS_EmptySet
<1>3. ASSUME NEW p \in Threads, pos[p] <= Len(batch[p]), CurrPending(p), Curr(p).job = j
      PROVE  legs[j] > 0
  <2>1. pos[p] \in pos[p] .. Len(batch[p])
    BY <1>3 DEF IInv, TypeOK, ThreadType
  <2>2. <<p, pos[p]>> \in InBatch(j)
    BY <1>3, <2>1, BatchMembers DEF PendingAt, Curr
  <2> QED BY <1>2, <2>2
<1>4. ASSUME NEW p \in Procs, call[p].to # <<>>, call[p].job = j
      PROVE  legs[j] > 0
  <2>1. call[p] \in Call
    BY DEF IInv, TypeOK, ControlType
  <2>2. 1 \in DOMAIN call[p].to
    BY <1>4, <2>1 DEF Call
  <2>3. <<p, 1>> \in ToPush(j)
    BY <1>4, <2>2, PushMembers DEF PushedAt
  <2> QED BY <1>2, <2>3
<1> QED BY <1>3, <1>4

\* No done callback becomes the last one, and those that are keep their job.
LEMMA EndFrame ==
  ASSUME IInv, EndInv,
         \A q \in Threads : Ending(q)' => Ending(q) /\ Curr(q)' = Curr(q),
         \A q \in Threads : Ending(q)' =>
            hist'[Curr(q).job].state = "live" /\ legs'[Curr(q).job] = 0
  PROVE  EndInv'
<1> SUFFICES ASSUME NEW p \in Threads, Ending(p)'
             PROVE  /\ Live(Curr(p).job)'
                    /\ legs'[Curr(p)'.job] = 0
                    /\ \A q \in Threads \ {p} : Ending(q)' => Curr(q)'.job # Curr(p)'.job
  BY DEF EndInv
<1>1. Ending(p) /\ Curr(p)' = Curr(p)
  OBVIOUS
<1>2. Live(Curr(p).job)'
  BY <1>1 DEF EndInv, Live
<1> QED BY <1>1, <1>2 DEF EndInv

LEMMA EndQuiet ==
  ASSUME IInv, EndInv, UNCHANGED <<hist, legs, jobEnd>>, NEW p \in Procs,
         \A q \in Threads \ {p} : /\ pc'[q] = pc[q] /\ ctx'[q] = ctx[q]
                                  /\ batch'[q] = batch[q] /\ pos'[q] = pos[q],
         \/ UNCHANGED <<pc, ctx, batch, pos>>
         \/ pc[p] \in Busy /\ ctx'[p] = ctx[p] /\ UNCHANGED <<batch, pos>>
         \/ pc'[p] \notin Busy
         \/ ctx'[p] # "done"
  PROVE  EndInv'
<1>1. \A q \in Threads : Ending(q)' => Ending(q) /\ Curr(q)' = Curr(q)
  BY DEF Ending, Curr
<1>2. \A q \in Threads : Ending(q)' =>
            hist'[Curr(q).job].state = "live" /\ legs'[Curr(q).job] = 0
  BY <1>1 DEF EndInv, Live
<1> QED BY <1>1, <1>2, EndFrame

-----------------------------------------------------------------------------
(* At most one thread runs the last done callback of a job.                *)

LEMMA QuietEnd ==
  ASSUME IInv, IInv', EndInv, NEW p \in Procs,
         \/ UserPush(p) \/ LockMd(p) \/ AllocNode(p) \/ Reject(p) \/ Enqueue(p)
         \/ CallWaitstops(p) \/ AllStopped(p) \/ NullCall(p) \/ RejectedStale(p)
         \/ /\ p \in Threads
            /\ \/ StartReturns(p) \/ WorkReturns(p) \/ Drain(p) \/ RunWork(p) \/ RunStop(p)
               \/ RunStale(p) \/ FinishNode(p) \/ Frees(p) \/ Exit(p)
  PROVE  EndInv'
<1> USE PcDomain DEF At, jobVars, histVars
<1>1. CASE UserPush(p) \/ LockMd(p) \/ AllocNode(p) \/ Reject(p) \/ Enqueue(p)
  <2>1. /\ UNCHANGED <<hist, legs, jobEnd, batch, pos, ctx>> /\ pc[p] \in Busy
        /\ \A q \in Procs \ {p} : pc'[q] = pc[q]
    BY <1>1 DEF UserPush, LockMd, AllocNode, Reject, Enqueue, NextTarget, mailVars, Busy
  <2> QED BY <2>1, EndQuiet DEF Procs
<1>2. CASE CallWaitstops(p) \/ AllStopped(p) \/ NullCall(p) \/ RejectedStale(p)
  <2>1. /\ UNCHANGED <<hist, legs, jobEnd, batch, pos, ctx>>
        /\ \A q \in Procs \ {p} : pc'[q] = pc[q]
        /\ UNCHANGED pc \/ pc'[p] \notin Busy \/ ctx'[p] # "done"
    <3>1. CASE CallWaitstops(p)
      <4>1. ctx[p] = "stop"
        BY <3>1 DEF CallWaitstops, IInv, LifeInv, CallInv
      <4> QED BY <3>1, <4>1 DEF CallWaitstops, mailVars
    <3>2. CASE AllStopped(p) \/ NullCall(p) \/ RejectedStale(p)
      BY <3>2 DEF AllStopped, NullCall, RejectedStale, Crash, mailVars, Busy
    <3> QED BY <1>2, <3>1, <3>2
  <2> QED BY <2>1, EndQuiet DEF Procs
<1>3. CASE p \in Threads /\ (StartReturns(p) \/ WorkReturns(p) \/ RunWork(p) \/ RunStop(p)
             \/ RunStale(p) \/ Exit(p))
  <2>1. /\ UNCHANGED <<hist, legs, jobEnd, batch, pos>>
        /\ \A q \in Procs \ {p} : pc'[q] = pc[q] /\ ctx'[q] = ctx[q]
        /\ UNCHANGED <<pc, ctx>> \/ pc'[p] \notin Busy \/ ctx'[p] # "done"
    BY <1>3 DEF StartReturns, WorkReturns, RunWork, RunStop, RunStale, Exit, Crash, HasCurr,
                mailVars, Busy
  <2> QED BY <2>1, EndQuiet DEF Procs
<1>4. CASE p \in Threads /\ (Drain(p) \/ FinishNode(p) \/ Frees(p))
  <2>1. /\ UNCHANGED <<hist, legs, jobEnd>>
        /\ \A q \in Threads \ {p} : /\ pc'[q] = pc[q] /\ ctx'[q] = ctx[q]
                                    /\ batch'[q] = batch[q] /\ pos'[q] = pos[q]
        /\ pc'[p] \notin Busy
    BY <1>4 DEF Drain, FinishNode, Frees, Busy, Procs, IInv, TypeOK, ThreadType
  <2> QED BY <2>1, EndQuiet
<1> QED BY <1>1, <1>2, <1>3, <1>4

LEMMA StutterEnd ==
  ASSUME IInv, EndInv, UNCHANGED <<hist, legs, jobEnd, pc, ctx, batch, pos>>
  PROVE  EndInv'
<1>1. PICK p : p \in Procs
  BY ThreadsAssumption DEF Procs
<1> QED BY <1>1, EndQuiet

\* A job that starts was not live before.
LEMMA StartPushEnd ==
  ASSUME IInv, IInv', PushInv, EndInv, NEW p \in Procs, NEW to \in Seq(Threads),
         NEW next \in {"node", "lock"}, StartPush(p, to, next)
  PROVE  EndInv'
<1>1. PICK j \in JobIds : j = call[p].job
  BY DEF StartPush, At, IInv, CallInv
<1>2. /\ pc[p] = "job" /\ call[p].kind = "work" /\ pc' = [pc EXCEPT ![p] = next]
      /\ hist' = [hist EXCEPT ![j] = Pushed(p, to)] /\ legs' = [legs EXCEPT ![j] = Len(to)]
      /\ UNCHANGED <<ctx, batch, pos, jobEnd>>
  BY <1>1 DEF StartPush, At, IInv, CallInv, mailVars, JobCountOf
<1>3. hist[j].state = "unused"
  BY <1>1, <1>2 DEF PushInv, WorkCallOk
<1>4. \A k \in JobIds \ {j} : hist'[k] = hist[k] /\ legs'[k] = legs[k]
  BY <1>2 DEF IInv, TypeOK, HistoryType, PoolType
<1>5. \A q \in Threads : Ending(q)' => Ending(q) /\ Curr(q)' = Curr(q)
  BY <1>2, PcDomain DEF Ending, Curr, Busy, Procs
<1>6. \A q \in Threads : Ending(q)' =>
            hist'[Curr(q).job].state = "live" /\ legs'[Curr(q).job] = 0
  BY <1>3, <1>4, <1>5 DEF EndInv, Live
<1> QED BY <1>5, <1>6, EndFrame

\* The job of a rejected push is not at its end: its counter still has this push.
LEMMA RejectedDoneEnd ==
  ASSUME IInv, IInv', PushInv, LegsInv, EndInv, NEW p \in Procs, RejectedDone(p)
  PROVE  EndInv'
<1>1. PICK j : j = call[p].job
  OBVIOUS
<1>2. /\ pc[p] = "rej" /\ j \in JobIds
      /\ hist' = [hist EXCEPT ![j] = Done(j, p, jobEnd[p], IF jobEnd[p] THEN "freed" ELSE "live")]
      /\ UNCHANGED <<ctx, batch, pos, jobEnd, legs>>
  BY <1>1 DEF RejectedDone, At, mailVars, Live
<1>3. legs[j] > 0
  <2>1. call[p].to # <<>>
    BY <1>2 DEF IInv, CallInv
  <2> QED BY <1>1, <1>2, <2>1, PendingLegs
<1>4. \A k \in JobIds \ {j} : hist'[k] = hist[k]
  BY <1>2 DEF IInv, TypeOK, HistoryType
<1>5. \A q \in Threads : Ending(q)' => Ending(q) /\ Curr(q)' = Curr(q)
  BY <1>2, PcDomain DEF Ending, Curr, Busy, Procs, RejectedDone, NextTarget
<1>6. \A q \in Threads : Ending(q)' =>
            hist'[Curr(q).job].state = "live" /\ legs'[Curr(q).job] = 0
  BY <1>2, <1>3, <1>4, <1>5 DEF EndInv, Live
<1> QED BY <1>5, <1>6, EndFrame

LEMMA DoneReturnsEnd ==
  ASSUME IInv, IInv', EndInv, NEW p \in Threads, DoneReturns(p)
  PROVE  EndInv'
<1>1. PICK j : j = Curr(p).job
  OBVIOUS
<1>2. /\ pc[p] = "user" /\ ctx[p] = "done" /\ pc' = [pc EXCEPT ![p] = "fin"]
      /\ hist' = IF jobEnd[p] THEN [hist EXCEPT ![j].state = "freed"] ELSE hist
      /\ UNCHANGED <<ctx, batch, pos, jobEnd, legs>>
  BY <1>1 DEF DoneReturns, At, mailVars, Live
<1>3. \A k \in JobIds : k # j => hist'[k] = hist[k]
  BY <1>2 DEF IInv, TypeOK, HistoryType
<1>4. jobEnd[p] => Ending(p)
  BY <1>2 DEF Ending, Busy
<1>5. \A q \in Threads : Ending(q)' => Ending(q) /\ Curr(q)' = Curr(q) /\ q # p
  BY <1>2, PcDomain DEF Ending, Curr, Busy, Procs
<1>6. ASSUME NEW q \in Threads, Ending(q)'
      PROVE  hist'[Curr(q).job].state = "live" /\ legs'[Curr(q).job] = 0
  <2>1. Ending(q) /\ q # p
    BY <1>5, <1>6
  <2>2. Live(Curr(q).job) /\ legs[Curr(q).job] = 0
    BY <2>1 DEF EndInv
  <2>3. CASE jobEnd[p]
    <3>1. Curr(q).job # j
      BY <1>1, <1>4, <2>1, <2>3 DEF EndInv
    <3> QED BY <1>2, <1>3, <2>2, <3>1 DEF Live
  <2>4. CASE ~jobEnd[p]
    BY <1>2, <2>2, <2>4 DEF Live
  <2> QED BY <2>3, <2>4
<1> QED BY <1>5, <1>6, EndFrame

LEMMA RunDoneEnd ==
  ASSUME IInv, IInv', LegsInv, EndInv, NEW p \in Threads, RunDone(p)
  PROVE  EndInv'
<1>1. PICK j : j = Curr(p).job
  OBVIOUS
<1>2. PICK left : left = legs[j] - 1
  OBVIOUS
<1>3. /\ pc[p] = "next" /\ pos[p] <= Len(batch[p]) /\ Live(j) /\ j \in JobIds
      /\ pc' = [pc EXCEPT ![p] = "user"] /\ ctx' = [ctx EXCEPT ![p] = "done"]
      /\ jobEnd' = [jobEnd EXCEPT ![p] = (left = 0)]
      /\ legs' = [legs EXCEPT ![j] = left]
      /\ hist' = [hist EXCEPT ![j] = Done(j, p, left = 0, "live")]
      /\ UNCHANGED <<batch, pos>>
  BY <1>1, <1>2 DEF RunDone, HasCurr, At, Live, mailVars, IsEnd
<1>4. /\ \A q \in Procs \ {p} : pc'[q] = pc[q] /\ ctx'[q] = ctx[q]
      /\ \A q \in Threads \ {p} : jobEnd'[q] = jobEnd[q]
      /\ jobEnd'[p] => left = 0
      /\ legs'[j] = left /\ hist'[j].state = "live"
      /\ \A i \in JobIds \ {j} : legs'[i] = legs[i] /\ hist'[i] = hist[i]
  BY <1>3, PcDomain DEF Procs, IInv, TypeOK, ThreadType, PoolType, HistoryType, Done
<1>5. legs[j] > 0
  BY <1>1, <1>3, PendingLegs DEF CurrPending
<1>6. \A q \in Threads : Curr(q)' = Curr(q)
  BY <1>3 DEF Curr
<1>7. \A q \in Threads \ {p} : Ending(q)' => Ending(q)
  BY <1>4 DEF Ending, Procs
<1>8. \A q \in Threads \ {p} : Ending(q) => Curr(q).job # j
  BY <1>5 DEF EndInv
<1>9. ASSUME NEW q \in Threads, Ending(q)'
      PROVE  /\ Live(Curr(q).job)'
             /\ legs'[Curr(q)'.job] = 0
             /\ \A r \in Threads \ {q} : Ending(r)' => Curr(r)'.job # Curr(q)'.job
  <2>1. CASE q = p
    <3>1. jobEnd'[p]
      BY <1>9, <2>1 DEF Ending
    <3>2. legs'[Curr(q)'.job] = 0
      BY <1>1, <1>4, <1>6, <2>1, <3>1
    <3>3. Live(Curr(q).job)'
      BY <1>1, <1>3, <1>4, <1>6, <2>1 DEF Live
    <3> QED BY <1>1, <1>6, <1>7, <1>8, <2>1, <3>2, <3>3
  <2>2. CASE q # p
    <3>1. Ending(q) /\ Curr(q).job # j
      BY <1>7, <1>8, <1>9, <2>2
    <3>2. Live(Curr(q).job) /\ legs[Curr(q).job] = 0
      BY <3>1 DEF EndInv
    <3>3. Live(Curr(q).job)' /\ legs'[Curr(q)'.job] = 0
      BY <1>4, <1>6, <3>1, <3>2 DEF Live
    <3>4. ASSUME NEW r \in Threads \ {q}, Ending(r)' PROVE Curr(r)'.job # Curr(q)'.job
      <4>1. CASE r = p
        BY <1>1, <1>6, <3>1, <4>1
      <4>2. CASE r # p
        BY <1>6, <1>7, <3>1, <3>4, <4>2 DEF EndInv
      <4> QED BY <4>1, <4>2
    <3> QED BY <3>3, <3>4
  <2> QED BY <2>1, <2>2
<1> QED BY <1>9 DEF EndInv

LEMMA NextEnd ==
  ASSUME IInv, IInv', PushInv, LegsInv, EndInv, [Next]_vars
  PROVE  EndInv'
<1>1. ASSUME NEW p \in Procs, Push(p) PROVE EndInv'
  <2>1. CASE PushThread(p) \/ PushPool(p) \/ PushLua(p) \/ PushAll(p)
    <3>1. \E to \in Seq(Threads) \ {<<>>}, next \in {"node", "lock"} : StartPush(p, to, next)
      BY <2>1, PushesOne
    <3> QED BY <3>1, StartPushEnd
  <2> QED BY <1>1, <2>1, QuietEnd, RejectedDoneEnd DEF Push
<1>2. ASSUME NEW p \in Threads, Exec(p) PROVE EndInv'
  <2>1. p \in Procs
    BY DEF Procs
  <2> QED BY <1>2, <2>1, QuietEnd, DoneReturnsEnd, RunDoneEnd DEF Exec
<1>3. ASSUME NEW p \in Procs, Waitstops(p) PROVE EndInv'
  <2>1. CASE Poll(p)
    BY <2>1, StutterEnd DEF Poll, vars, mailVars, jobVars, histVars
  <2> QED BY <1>3, <2>1, QuietEnd DEF Waitstops
<1>4. CASE Rest \/ UNCHANGED vars
  BY <1>4, StutterEnd DEF Rest, vars, mailVars, jobVars, histVars
<1> QED BY <1>1, <1>2, <1>3, <1>4 DEF Next

-----------------------------------------------------------------------------
(* A job at its end has its last done callback under way.                  *)

LEMMA LastFrame ==
  ASSUME LastInv,
         \A j \in JobIds : Live(j)' /\ legs'[j] = 0 => Live(j) /\ legs[j] = 0,
         \A j \in JobIds : Live(j)' /\ legs'[j] = 0 =>
            \A t \in Threads : InLastDone(t, j) => InLastDone(t, j)'
  PROVE  LastInv'
BY DEF LastInv

LEMMA LastQuiet ==
  ASSUME LastInv, UNCHANGED <<hist, legs, jobEnd>>, NEW p \in Procs,
         \A q \in Threads \ {p} : /\ pc'[q] = pc[q] /\ ctx'[q] = ctx[q]
                                  /\ batch'[q] = batch[q] /\ pos'[q] = pos[q],
         \/ UNCHANGED <<pc, ctx, batch, pos>>
         \/ pc'[p] \in Busy /\ UNCHANGED <<ctx, batch, pos>>
         \/ pc[p] \notin Busy
         \/ ctx[p] # "done"
  PROVE  LastInv'
<1>1. \A j \in JobIds : Live(j)' <=> Live(j)
  BY DEF Live
<1>2. \A t \in Threads \ {p} : \A j \in JobIds : InLastDone(t, j) => InLastDone(t, j)'
  BY DEF InLastDone, Curr
<1>3. \A j \in JobIds : p \in Threads /\ InLastDone(p, j) => InLastDone(p, j)'
  BY DEF InLastDone, Curr, Busy
<1> QED BY <1>1, <1>2, <1>3, LastFrame

LEMMA QuietLast ==
  ASSUME IInv, LastInv, NEW p \in Procs,
         \/ UserPush(p) \/ LockMd(p) \/ AllocNode(p) \/ Reject(p) \/ Enqueue(p)
         \/ CallWaitstops(p) \/ AllStopped(p) \/ NullCall(p) \/ RejectedStale(p)
         \/ /\ p \in Threads
            /\ \/ StartReturns(p) \/ WorkReturns(p) \/ Drain(p) \/ RunWork(p) \/ RunStop(p)
               \/ RunStale(p) \/ FinishNode(p) \/ Frees(p) \/ Exit(p)
  PROVE  LastInv'
<1> USE PcDomain DEF At, jobVars, histVars
<1>1. CASE UserPush(p) \/ LockMd(p) \/ AllocNode(p) \/ Reject(p)
  <2>1. /\ UNCHANGED <<hist, legs, jobEnd, batch, pos, ctx>> /\ pc'[p] \in Busy
        /\ \A q \in Procs \ {p} : pc'[q] = pc[q]
    BY <1>1 DEF UserPush, LockMd, AllocNode, Reject, mailVars, Busy
  <2> QED BY <2>1, LastQuiet DEF Procs
<1>2. CASE Enqueue(p)
  <2>1. /\ UNCHANGED <<hist, legs, jobEnd, batch, pos, ctx>>
        /\ \A q \in Procs \ {p} : pc'[q] = pc[q]
        /\ pc'[p] \in Busy \/ ctx[p] # "done"
    BY <1>2 DEF Enqueue, NextTarget, Busy
  <2> QED BY <2>1, LastQuiet DEF Procs
<1>3. CASE CallWaitstops(p) \/ AllStopped(p) \/ NullCall(p) \/ RejectedStale(p)
  <2>1. /\ UNCHANGED <<hist, legs, jobEnd, batch, pos, ctx>>
        /\ \A q \in Procs \ {p} : pc'[q] = pc[q]
        /\ UNCHANGED pc \/ pc[p] \notin Busy
    BY <1>3 DEF CallWaitstops, AllStopped, NullCall, RejectedStale, Crash, mailVars, Busy
  <2> QED BY <2>1, LastQuiet DEF Procs
<1>4. CASE p \in Threads /\ (StartReturns(p) \/ WorkReturns(p) \/ RunWork(p) \/ RunStop(p)
             \/ RunStale(p) \/ Exit(p))
  <2>1. /\ UNCHANGED <<hist, legs, jobEnd, batch, pos>>
        /\ \A q \in Procs \ {p} : pc'[q] = pc[q] /\ ctx'[q] = ctx[q]
        /\ UNCHANGED <<pc, ctx>> \/ pc[p] \notin Busy \/ ctx[p] # "done"
    BY <1>4 DEF StartReturns, WorkReturns, RunWork, RunStop, RunStale, Exit, Crash, HasCurr,
                mailVars, Busy
  <2> QED BY <2>1, LastQuiet DEF Procs
<1>5. CASE p \in Threads /\ (Drain(p) \/ FinishNode(p) \/ Frees(p))
  <2>1. /\ UNCHANGED <<hist, legs, jobEnd>>
        /\ \A q \in Threads \ {p} : /\ pc'[q] = pc[q] /\ ctx'[q] = ctx[q]
                                    /\ batch'[q] = batch[q] /\ pos'[q] = pos[q]
        /\ pc[p] \notin Busy
    BY <1>5 DEF Drain, FinishNode, Frees, Busy, Procs, IInv, TypeOK, ThreadType
  <2> QED BY <2>1, LastQuiet
<1> QED BY <1>1, <1>2, <1>3, <1>4, <1>5

LEMMA StutterLast ==
  ASSUME LastInv, UNCHANGED <<hist, legs, jobEnd, pc, ctx, batch, pos>>
  PROVE  LastInv'
<1>1. PICK p : p \in Procs
  BY ThreadsAssumption DEF Procs
<1> QED BY <1>1, LastQuiet

\* The counter of a new job is not zero.
LEMMA StartPushLast ==
  ASSUME IInv, LastInv, NEW p \in Procs, NEW to \in Seq(Threads), to # <<>>,
         NEW next \in {"node", "lock"}, StartPush(p, to, next)
  PROVE  LastInv'
<1>1. PICK j \in JobIds : j = call[p].job
  BY DEF StartPush, At, IInv, CallInv
<1>2. /\ pc' = [pc EXCEPT ![p] = next]
      /\ hist' = [hist EXCEPT ![j] = Pushed(p, to)] /\ legs' = [legs EXCEPT ![j] = Len(to)]
      /\ UNCHANGED <<ctx, batch, pos, jobEnd>>
  BY <1>1 DEF StartPush, At, mailVars, JobCountOf
<1>3. Len(to) # 0
  OBVIOUS
<1>4. /\ \A k \in JobIds \ {j} : hist'[k] = hist[k] /\ legs'[k] = legs[k]
      /\ legs'[j] = Len(to)
  BY <1>2 DEF IInv, TypeOK, HistoryType, PoolType
<1>5. \A k \in JobIds : Live(k)' /\ legs'[k] = 0 => Live(k) /\ legs[k] = 0
  BY <1>3, <1>4 DEF Live
<1>6. \A k \in JobIds, t \in Threads : InLastDone(t, k) => InLastDone(t, k)'
  BY <1>2, PcDomain DEF InLastDone, Curr, Procs
<1> QED BY <1>5, <1>6, LastFrame

LEMMA RejectedDoneLast ==
  ASSUME IInv, LastInv, NEW p \in Procs, RejectedDone(p)
  PROVE  LastInv'
<1>1. PICK j : j = call[p].job
  OBVIOUS
<1>2. /\ pc[p] = "rej" /\ Live(j) /\ NextTarget(p)
      /\ hist' = [hist EXCEPT ![j] = Done(j, p, jobEnd[p], IF jobEnd[p] THEN "freed" ELSE "live")]
      /\ UNCHANGED <<ctx, batch, pos, jobEnd, legs>>
  BY <1>1 DEF RejectedDone, At, mailVars
<1>3. \A k \in JobIds : Live(k)' => Live(k)
  BY <1>2 DEF IInv, TypeOK, HistoryType, Live
<1>4. \A k \in JobIds, t \in Threads : InLastDone(t, k) => InLastDone(t, k)'
  BY <1>2, PcDomain DEF InLastDone, Curr, Procs, NextTarget
<1> QED BY <1>2, <1>3, <1>4, LastFrame

\* The last done callback returns: its job is over, and of no other job it is the last.
LEMMA DoneReturnsLast ==
  ASSUME IInv, LastInv, NEW p \in Threads, DoneReturns(p)
  PROVE  LastInv'
<1>1. PICK j : j = Curr(p).job
  OBVIOUS
<1>2. /\ pc' = [pc EXCEPT ![p] = "fin"]
      /\ hist' = IF jobEnd[p] THEN [hist EXCEPT ![j].state = "freed"] ELSE hist
      /\ UNCHANGED <<ctx, batch, pos, jobEnd, legs>>
  BY <1>1 DEF DoneReturns, At, mailVars
<1>3. hist \in [JobIds -> History]
  BY DEF IInv, TypeOK, HistoryType
<1>4. \A k \in JobIds : Live(k)' => Live(k) /\ (jobEnd[p] => k # j)
  BY <1>2, <1>3 DEF Live, History
<1>5. \A k \in JobIds, t \in Threads : InLastDone(t, k) /\ t # p => InLastDone(t, k)'
  BY <1>2, PcDomain DEF InLastDone, Curr, Procs
<1>6. \A k \in JobIds : InLastDone(p, k) => jobEnd[p] /\ k = j
  BY <1>1 DEF InLastDone
<1> QED BY <1>2, <1>4, <1>5, <1>6, LastFrame

LEMMA RunDoneLast ==
  ASSUME IInv, LastInv, NEW p \in Threads, RunDone(p)
  PROVE  LastInv'
<1>1. PICK j : j = Curr(p).job
  OBVIOUS
<1>2. PICK left : left = legs[j] - 1
  OBVIOUS
<1>3. /\ pc[p] = "next" /\ j \in JobIds
      /\ pc' = [pc EXCEPT ![p] = "user"] /\ ctx' = [ctx EXCEPT ![p] = "done"]
      /\ jobEnd' = [jobEnd EXCEPT ![p] = (left = 0)]
      /\ legs' = [legs EXCEPT ![j] = left]
      /\ hist' = [hist EXCEPT ![j] = Done(j, p, left = 0, "live")]
      /\ UNCHANGED <<batch, pos>>
  BY <1>1, <1>2 DEF RunDone, HasCurr, At, Live, mailVars, IsEnd
<1>4. /\ \A q \in Threads \ {p} : pc'[q] = pc[q] /\ ctx'[q] = ctx[q] /\ jobEnd'[q] = jobEnd[q]
      /\ pc'[p] = "user" /\ ctx'[p] = "done" /\ (jobEnd'[p] <=> left = 0)
      /\ legs'[j] = left
      /\ \A i \in JobIds \ {j} : legs'[i] = legs[i] /\ hist'[i] = hist[i]
  BY <1>3, PcDomain DEF Procs, IInv, TypeOK, ThreadType, PoolType, HistoryType
<1>5. left = 0 => InLastDone(p, j)'
  BY <1>1, <1>3, <1>4 DEF InLastDone, Curr
<1>6. ASSUME NEW k \in JobIds, k # j, Live(k)', legs'[k] = 0
      PROVE  \E t \in Threads : InLastDone(t, k)'
  <2>1. Live(k) /\ legs[k] = 0
    BY <1>4, <1>6 DEF Live
  <2>2. PICK t \in Threads : InLastDone(t, k)
    BY <2>1 DEF LastInv
  <2>3. t # p
    BY <1>3, <2>2 DEF InLastDone
  <2>4. InLastDone(t, k)'
    BY <1>3, <1>4, <2>2, <2>3 DEF InLastDone, Curr
  <2> QED BY <2>4
<1> QED BY <1>3, <1>4, <1>5, <1>6 DEF LastInv

LEMMA NextLast ==
  ASSUME IInv, LastInv, [Next]_vars
  PROVE  LastInv'
<1>1. ASSUME NEW p \in Procs, Push(p) PROVE LastInv'
  <2>1. CASE PushThread(p) \/ PushPool(p) \/ PushLua(p) \/ PushAll(p)
    <3>1. \E to \in Seq(Threads) \ {<<>>}, next \in {"node", "lock"} : StartPush(p, to, next)
      BY <2>1, PushesOne
    <3> QED BY <3>1, StartPushLast
  <2> QED BY <1>1, <2>1, QuietLast, RejectedDoneLast DEF Push
<1>2. ASSUME NEW p \in Threads, Exec(p) PROVE LastInv'
  <2>1. p \in Procs
    BY DEF Procs
  <2> QED BY <1>2, <2>1, QuietLast, DoneReturnsLast, RunDoneLast DEF Exec
<1>3. ASSUME NEW p \in Procs, Waitstops(p) PROVE LastInv'
  <2>1. CASE Poll(p)
    BY <2>1, StutterLast DEF Poll, vars, mailVars, jobVars, histVars
  <2> QED BY <1>3, <2>1, QuietLast DEF Waitstops
<1>4. CASE Rest \/ UNCHANGED vars
  BY <1>4, StutterLast DEF Rest, vars, mailVars, jobVars, histVars
<1> QED BY <1>1, <1>2, <1>3, <1>4 DEF Next

-----------------------------------------------------------------------------
(* The objects of jobs, and the inductive invariant of all this.           *)

\* The jobs that have an object.
LiveJobs == {j \in JobIds : Live(j)}

LEMMA LiveFinite == IsFiniteSet(LiveJobs) /\ Cardinality(LiveJobs) \in Nat
<1>1. IsFiniteSet(JobIds)
  BY FS_Interval, BoundsAssumption DEF JobIds
<1>2. LiveJobs \in SUBSET JobIds
  BY DEF LiveJobs
<1> QED BY <1>1, <1>2, FS_Subset, FS_CardinalityType

LEMMA JobsFrame ==
  ASSUME JobsConserved, freeJobs' = freeJobs, \A j \in JobIds : Live(j)' <=> Live(j)
  PROVE  JobsConserved'
BY DEF JobsConserved

\* The object of job j goes back to the free list.
LEMMA JobFreed ==
  ASSUME IInv, JobsConserved, NEW j \in JobIds, Live(j), hist'[j].state = "freed",
         \A i \in JobIds \ {j} : hist'[i] = hist[i], freeJobs' = freeJobs + 1
  PROVE  JobsConserved'
<1>1. LiveJobs' = LiveJobs \ {j} /\ j \in LiveJobs
  BY DEF LiveJobs, Live
<1>2. Cardinality(LiveJobs') = Cardinality(LiveJobs) - 1
  BY <1>1, LiveFinite, FS_RemoveElement
<1>3. freeJobs \in Nat /\ Cardinality(LiveJobs) \in Nat
  BY LiveFinite DEF IInv, TypeOK, PoolType
<1>4. freeJobs + Cardinality(LiveJobs) = JobCapacity
  BY DEF JobsConserved, LiveJobs
<1>5. freeJobs' + Cardinality(LiveJobs') = JobCapacity
  BY <1>2, <1>3, <1>4
<1> QED BY <1>5 DEF JobsConserved, LiveJobs

LEMMA StartPushJobs ==
  ASSUME IInv, PushInv, JobsConserved, NEW p \in Procs, NEW to, NEW next, StartPush(p, to, next)
  PROVE  JobsConserved'
<1>1. PICK j \in JobIds : j = call[p].job
  BY DEF StartPush, At, IInv, CallInv
<1>2. /\ hist' = [hist EXCEPT ![j] = Pushed(p, to)]
      /\ freeJobs' = freeJobs - 1
      /\ pc[p] = "job" /\ call[p].kind = "work"
  BY <1>1 DEF StartPush, At, IInv, CallInv
<1>3. hist[j].state = "unused"
  BY <1>1, <1>2 DEF PushInv, WorkCallOk
<1>4. hist'[j].state = "live" /\ \A i \in JobIds \ {j} : hist'[i] = hist[i]
  BY <1>2 DEF IInv, TypeOK, HistoryType, Pushed
<1>5. LiveJobs' = LiveJobs \cup {j} /\ j \notin LiveJobs
  BY <1>3, <1>4 DEF LiveJobs, Live
<1>6. Cardinality(LiveJobs') = Cardinality(LiveJobs) + 1
  BY <1>5, LiveFinite, FS_AddElement
<1>7. freeJobs \in Nat /\ Cardinality(LiveJobs) \in Nat
  BY LiveFinite DEF IInv, TypeOK, PoolType
<1>8. freeJobs + Cardinality(LiveJobs) = JobCapacity
  BY DEF JobsConserved, LiveJobs
<1>9. freeJobs' + Cardinality(LiveJobs') = JobCapacity
  BY <1>2, <1>6, <1>7, <1>8
<1> QED BY <1>9 DEF JobsConserved, LiveJobs

LEMMA RejectedDoneJobs ==
  ASSUME IInv, JobsConserved, NEW p \in Procs, RejectedDone(p)
  PROVE  JobsConserved'
<1>1. PICK j : j = call[p].job
  OBVIOUS
<1>2. /\ j \in JobIds /\ Live(j)
      /\ hist' = [hist EXCEPT ![j] = Done(j, p, jobEnd[p], IF jobEnd[p] THEN "freed" ELSE "live")]
      /\ freeJobs' = IF jobEnd[p] THEN freeJobs + 1 ELSE freeJobs
  BY <1>1 DEF RejectedDone, Live, FreeJobsAfter
<1>3. /\ hist'[j].state = IF jobEnd[p] THEN "freed" ELSE "live"
      /\ \A i \in JobIds \ {j} : hist'[i] = hist[i]
  BY <1>2 DEF IInv, TypeOK, HistoryType, Done
<1>4. CASE jobEnd[p]
  BY <1>2, <1>3, <1>4, JobFreed
<1>5. CASE ~jobEnd[p]
  BY <1>2, <1>3, <1>5, JobsFrame DEF Live
<1> QED BY <1>4, <1>5

LEMMA DoneReturnsJobs ==
  ASSUME IInv, EndInv, JobsConserved, NEW p \in Threads, DoneReturns(p)
  PROVE  JobsConserved'
<1>1. PICK j : j = Curr(p).job
  OBVIOUS
<1>2. /\ pc[p] = "user" /\ ctx[p] = "done"
      /\ hist' = IF jobEnd[p] THEN [hist EXCEPT ![j].state = "freed"] ELSE hist
      /\ freeJobs' = IF jobEnd[p] THEN freeJobs + 1 ELSE freeJobs
  BY <1>1 DEF DoneReturns, At, FreeJobsAfter
<1>3. CASE jobEnd[p]
  <2>1. Live(j) /\ j \in JobIds
    BY <1>1, <1>2, <1>3 DEF EndInv, Ending, Busy, Live
  <2>2. hist \in [JobIds -> History]
    BY DEF IInv, TypeOK, HistoryType
  <2>3. hist'[j].state = "freed" /\ \A i \in JobIds \ {j} : hist'[i] = hist[i]
    BY <1>2, <1>3, <2>1, <2>2 DEF History
  <2> QED BY <1>2, <1>3, <2>1, <2>3, JobFreed
<1>4. CASE ~jobEnd[p]
  BY <1>2, <1>4, JobsFrame DEF Live
<1> QED BY <1>3, <1>4

LEMMA NextJobs ==
  ASSUME IInv, PushInv, EndInv, JobsConserved, [Next]_vars
  PROVE  JobsConserved'
<1>1. ASSUME NEW p \in Procs, Push(p) PROVE JobsConserved'
  <2>1. CASE PushThread(p) \/ PushPool(p) \/ PushLua(p) \/ PushAll(p)
    <3>1. \E to \in Seq(Threads) \ {<<>>}, next \in {"node", "lock"} : StartPush(p, to, next)
      BY <2>1, PushesOne
    <3> QED BY <3>1, StartPushJobs
  <2>2. CASE UserPush(p) \/ LockMd(p) \/ AllocNode(p) \/ Enqueue(p) \/ Reject(p)
    BY <2>2, JobsFrame DEF UserPush, LockMd, AllocNode, Enqueue, Reject, Live, jobVars, histVars
  <2>3. CASE NullCall(p) \/ RejectedStale(p)
    BY <2>3, JobsFrame DEF NullCall, RejectedStale, Crash, Live, jobVars, histVars
  <2> QED BY <1>1, <2>1, <2>2, <2>3, RejectedDoneJobs DEF Push
<1>2. ASSUME NEW p \in Threads, Exec(p) PROVE JobsConserved'
  <2>1. CASE RunDone(p)
    <3>1. PICK j : j = Curr(p).job
      OBVIOUS
    <3>2. Live(j) /\ hist' = [hist EXCEPT ![j] = Done(j, p, IsEnd(legs[j] - 1), "live")] /\ freeJobs' = freeJobs
      BY <2>1, <3>1 DEF RunDone
    <3>3. \A i \in JobIds : Live(i)' <=> Live(i)
      BY <3>2 DEF Live, Done, IInv, TypeOK, HistoryType
    <3> QED BY <3>2, <3>3, JobsFrame
  <2>2. CASE StartReturns(p) \/ WorkReturns(p) \/ Drain(p) \/ RunWork(p) \/ RunStop(p)
    BY <2>2, JobsFrame DEF StartReturns, WorkReturns, Drain, RunWork, RunStop, Live, jobVars, histVars
  <2>3. CASE RunStale(p) \/ FinishNode(p) \/ Frees(p) \/ Exit(p)
    BY <2>3, JobsFrame DEF RunStale, Crash, FinishNode, Frees, Exit, Live, jobVars, histVars
  <2> QED BY <1>2, <2>1, <2>2, <2>3, DoneReturnsJobs DEF Exec
<1>3. ASSUME NEW p \in Procs, Waitstops(p) PROVE JobsConserved'
  BY <1>3, JobsFrame DEF Waitstops, CallWaitstops, AllStopped, Poll, vars, Live, jobVars, histVars
<1>4. CASE Rest \/ UNCHANGED vars
  BY <1>4, JobsFrame DEF Rest, vars, Live, jobVars, histVars
<1> QED BY <1>1, <1>2, <1>3, <1>4 DEF Next

JobInv == KnownInv /\ LegsInv /\ EndInv /\ LastInv /\ HeldInv /\ JobsConserved

LEMMA InitJobInv == Init => JobInv
<1> SUFFICES ASSUME Init PROVE JobInv
  OBVIOUS
<1> USE DEF Init
<1>1. IInv /\ HeldInv
  BY InitIInv, InitHeld
<1>2. CellInv /\ FreshInv /\ HomeInv
  BY DEF CellInv, FreshInv, HomeInv, Unused
<1>3. PushInv
  BY DEF PushInv, NoCall, Procs
<1>4. EndInv /\ LastInv
  BY DEF EndInv, Ending, LastInv, Live, Unused
<1>5. ASSUME NEW j \in JobIds PROVE JobLegs(j)
  <2>1. InBatch(j) = {}
    <3>1. \A t \in Threads : Len(batch[t]) = 0 /\ pos[t] = 1
      BY EmptySeq
    <3>2. \A i : i \notin 1 .. 0
      OBVIOUS
    <3>3. \A t \in Threads : \A i : ~PendingAt(t, i, j)
      BY <3>1, <3>2 DEF PendingAt
    <3> QED BY <3>3, BatchMembers DEF IsPair
  <2>2. InQueue(j) = {}
    <3>1. \A t \in Threads : \A i : ~QueuedAt(t, i, j)
      BY DEF QueuedAt
    <3> QED BY <3>1, QueueMembers DEF IsPair
  <2>3. ToPush(j) = {}
    <3>1. \A p \in Procs : \A i : ~PushedAt(p, i, j)
      BY DEF PushedAt, NoCall
    <3> QED BY <3>1, PushMembers DEF IsPair
  <2>4. Outstanding(j) = 0 /\ IsFiniteSet({})
    BY <2>1, <2>2, <2>3, FS_EmptySet DEF Outstanding
  <2>5. legs[j] = 0 /\ hist[j].dones = 0 /\ Len(hist[j].to) = 0
    BY EmptySeq DEF Unused
  <2>6. Counted(j)
    BY <2>5 DEF Counted
  <2> QED BY <2>1, <2>2, <2>3, <2>4, <2>5, <2>6 DEF JobLegs
<1>6. JobsConserved
  <2>1. LiveJobs = {}
    BY DEF LiveJobs, Live, Unused
  <2>2. Cardinality(LiveJobs) = 0
    BY <2>1, FS_EmptySet
  <2> QED BY <2>2, BoundsAssumption DEF JobsConserved, LiveJobs
<1> QED BY <1>1, <1>2, <1>3, <1>4, <1>5, <1>6 DEF JobInv, KnownInv, LegsInv

LEMMA NextJobInv == IInv /\ IInv' /\ JobInv /\ [Next]_vars => JobInv'
<1> SUFFICES ASSUME IInv, IInv', JobInv, [Next]_vars PROVE JobInv'
  OBVIOUS
<1>1. CellInv /\ PushInv /\ KnownInv /\ LegsInv /\ EndInv /\ LastInv /\ HeldInv /\ JobsConserved
  BY DEF JobInv, KnownInv
<1>2. KnownInv'
  BY <1>1, NextKnown
<1>3. LegsInv'
  BY <1>1, NextLegs
<1>4. EndInv' /\ LastInv'
  BY <1>1, NextEnd, NextLast
<1>5. HeldInv' /\ JobsConserved'
  BY <1>1, NextHeld, NextJobs
<1> QED BY <1>2, <1>3, <1>4, <1>5 DEF JobInv

\* What the scheduler knows about its nodes and jobs holds in every reachable state,
\* with or without a stop, with or without rejected pushes.
THEOREM JobsInductive == Spec => [](IInv /\ JobInv)
<1>1. Init => IInv /\ JobInv
  BY InitIInv, InitJobInv
<1>2. IInv /\ JobInv /\ [Next]_vars => (IInv /\ JobInv)'
  BY NextIInv, NextJobInv
<1> QED BY <1>1, <1>2, PTL DEF Spec

\* Nodes and job objects are lost by rejected pushes only, whatever stops in the
\* middle of what: every other node is free, in a mailbox or batch or in the hand of a
\* pusher; each target of a job is called back once or still to come; and a job of
\* which no push was rejected is given back neither too early nor never.
THEOREM LossIsByRejection == Spec => []LossOnlyByRejection
<1> SUFFICES ASSUME IInv, JobInv PROVE LossOnlyByRejection
  BY JobsInductive, PTL
<1>1. NodesConserved /\ JobsConserved /\ LegsInv /\ LastInv
  BY DEF JobInv, HeldInv
<1>2. ASSUME NEW j \in JobIds
      PROVE  /\ Outstanding(j) + hist[j].dones = Len(hist[j].to)
             /\ Counted(j) =>
                   /\ hist[j].state = "freed" => Outstanding(j) = 0
                   /\ Live(j) /\ Outstanding(j) = 0 => \E t \in Threads : InLastDone(t, j)
  <2>1. JobLegs(j)
    BY <1>1 DEF LegsInv
  <2>2. Outstanding(j) + hist[j].dones = Len(hist[j].to)
    BY <2>1 DEF JobLegs
  <2>3. Counted(j) => legs[j] = Outstanding(j) /\ (~Live(j) => Outstanding(j) = 0)
    BY <2>1, CountedLegs
  <2>4. hist[j].state = "freed" => ~Live(j)
    BY DEF Live
  <2> QED BY <1>1, <2>2, <2>3, <2>4 DEF LastInv
<1> QED BY <1>1, <1>2 DEF LossOnlyByRejection

\* As long as no push was rejected, job_count_ of a job is the number of nodes and
\* pushes that still refer to it, so that the object is given back exactly when
\* nothing refers to it any more; for any threads, pools and order of their steps.
THEOREM CounterIsExact == Spec => []LegsExact
<1>1. IInv /\ JobInv => LegsExact
  BY CountedLegs DEF JobInv, LegsInv, JobLegs, LegsExact
<1> QED BY <1>1, JobsInductive, PTL

-----------------------------------------------------------------------------
(* A stop that comes when the work is done.  No job and no result is       *)
(* rejected then; the second null job of a thread registered twice can be. *)

\* How the pool has to be used for a stop to reject no job: aapp_run does not stop it
\* a second time, one outside thread does once and gracefully, all work goes to the
\* pool, and threads outside the pool do not push from a done callback.  Nothing of
\* this matters if nobody stops it.
SafeUse ==
    /\ ~AappRun
    /\ Stoppers # {} =>
          /\ Graceful
          /\ \A p, q \in Stoppers : p = q
          /\ "thread" \in Ops => Threads \subseteq PoolThreads
          /\ "lua" \in Ops => \A i \in DOMAIN LuaThreads : LuaThreads[i] \in PoolThreads
          /\ "all" \in Ops => \A i \in DOMAIN AllThreads : AllThreads[i] \in PoolThreads
          /\ "done" \in PushFrom => Pushers \subseteq PoolThreads

Pushing == {"job", "lock", "node", "enq", "rej"}

\* What the code of thread t may be doing.
ThreadUse(t) ==
    /\ pc[t] \in Pushing => ctx[t] = "result" \/ (ctx[t] \in PushFrom /\ t \in Pushers)
    /\ pc[t] \in Pushing /\ ctx[t] = "result" => Curr(t).kind = "work"
    /\ pc[t] = "user" => ctx[t] # "result"
    /\ ctx[t] = "stop" => pc[t] = "gone"

\* Work is only at threads of the pool, and only goes there.
CellUse(t) ==
    Stoppers # {} =>
       /\ \A i \in DOMAIN batch[t] : batch[t][i].kind = "work" => t \in PoolThreads
       /\ \A i \in DOMAIN queue[t] : queue[t][i].kind = "work" => t \in PoolThreads
CallUse(p) ==
    Stoppers # {} /\ call[p].kind = "work" =>
       \A i \in DOMAIN call[p].to : call[p].to[i] \in PoolThreads

UseInv == (\A t \in Threads : ThreadUse(t) /\ CellUse(t)) /\ (\A p \in Procs : CallUse(p))

\* A null job is at thread t or was handled by it.
HasStop(t) ==
    \/ ~isWorking[t]
    \/ \E i \in DOMAIN batch[t] : batch[t][i].kind = "stop"
    \/ \E i \in DOMAIN queue[t] : queue[t][i].kind = "stop"

\* Stopper p has pushed the null job of an entry of pthreads_ that is thread t.
Sent(p, t) ==
    \E i \in DOMAIN PThreads : PThreads[i] = t /\ i + Len(call[p].to) <= Len(PThreads)

\* The rest of pthreads_ that a stopper still has to push to.
RestOf(to) ==
    /\ Len(to) <= Len(PThreads)
    /\ \A i \in DOMAIN to : to[i] = PThreads[Len(PThreads) - Len(to) + i]

\* A null job comes from a stopper, which pushes one for each entry, in order.
SentInv ==
    \A t \in Threads : HasStop(t) => \E p \in Stoppers : pc[p] # "idle" /\ Sent(p, t)
StopCallOk(p) ==
    call[p].kind = "stop" => p \in Stoppers /\ pc[p] # "idle" /\ RestOf(call[p].to)
StopInv == SentInv /\ \A p \in Procs : StopCallOk(p)

\* The stop has begun.
Stopping == \E p \in Stoppers : pc[p] # "idle"

\* Thread t does not push any more, and there is no work left for it.
ThreadDown(t) ==
    /\ pc[t] \notin Pushing
    /\ pc[t] = "user" => ctx[t] = "done" /\ ~("done" \in PushFrom /\ t \in Pushers)
    /\ \A i \in DOMAIN batch[t] : i >= pos[t] =>
          batch[t][i].kind # "work" /\ (t \in PoolThreads => batch[t][i].kind = "stop")
    /\ \A i \in DOMAIN queue[t] :
          queue[t][i].kind # "work" /\ (t \in PoolThreads => queue[t][i].kind = "stop")

DownInv == Stopping => \A t \in Threads : ThreadDown(t)

SafeInv == UseInv /\ StopInv /\ DownInv /\ OnlyRepeatsRejected

\* No push of a job was rejected.
AllCounted == \A j \in JobIds : Counted(j)

-----------------------------------------------------------------------------
\* A step of thread p that leaves the other threads and the stopper alone.
LEMMA ThreadStep ==
  ASSUME IInv, SafeInv, NEW p \in Threads,
         \A q \in Procs \ {p} : pc'[q] = pc[q] /\ ctx'[q] = ctx[q] /\ call'[q] = call[q],
         \A t \in Threads \ {p} : /\ batch'[t] = batch[t] /\ queue'[t] = queue[t]
                                  /\ pos'[t] = pos[t] /\ isWorking'[t] = isWorking[t],
         UNCHANGED <<leaked, fault>>,
         ThreadUse(p)', CellUse(p)', CallUse(p)', Stopping => ThreadDown(p)',
         HasStop(p)' => HasStop(p), call'[p].kind # "stop", pc'[p] # "rej"
  PROVE  SafeInv'
<1>1. \A s \in Stoppers : s \in Procs \ {p}
  BY ThreadsAssumption DEF Procs
<1>2. \A t \in Threads \ {p} : t \in Procs \ {p}
  BY DEF Procs
<1>3. Stopping' <=> Stopping
  BY <1>1 DEF Stopping
<1>4. UseInv'
  BY <1>2 DEF SafeInv, UseInv, ThreadUse, CellUse, CallUse, Curr
<1>5. SentInv'
  <2>1. \A t \in Threads : HasStop(t)' => HasStop(t)
    BY DEF HasStop
  <2>2. \A s \in Stoppers, t \in Threads : Sent(s, t)' <=> Sent(s, t)
    BY <1>1 DEF Sent
  <2> QED BY <1>1, <2>1, <2>2 DEF SafeInv, StopInv, SentInv
<1>6. \A q \in Procs : StopCallOk(q)'
  BY DEF SafeInv, StopInv, StopCallOk
<1>7. DownInv'
  BY <1>2, <1>3 DEF SafeInv, DownInv, ThreadDown
<1>8. OnlyRepeatsRejected'
  <2>1. ASSUME NEW q \in Procs, pc'[q] = "rej" PROVE call'[q].kind = "stop" /\ Repeated(Target(q)')
    <3>1. pc[q] = "rej" /\ call'[q] = call[q]
      BY <2>1
    <3> QED BY <3>1 DEF SafeInv, OnlyRepeatsRejected, Target
  <2>2. fault' # "use after free"
    BY DEF SafeInv, OnlyRepeatsRejected
  <2> QED BY <2>1, <2>2 DEF OnlyRepeatsRejected, Repeated
<1> QED BY <1>4, <1>5, <1>6, <1>7, <1>8 DEF SafeInv, StopInv

LEMMA StutterSafe ==
  ASSUME SafeInv, UNCHANGED <<pc, ctx, call, batch, queue, pos, isWorking>>,
         fault' # "use after free"
  PROVE  SafeInv'
<1>1. UseInv'
  BY DEF SafeInv, UseInv, ThreadUse, CellUse, CallUse, Curr
<1>2. StopInv'
  <2>1. \A t \in Threads : HasStop(t)' <=> HasStop(t)
    BY DEF HasStop
  <2>2. \A p \in Stoppers, t \in Threads : Sent(p, t)' <=> Sent(p, t)
    BY DEF Sent
  <2>3. SentInv'
    BY <2>1, <2>2 DEF SafeInv, StopInv, SentInv
  <2>4. \A p \in Procs : StopCallOk(p)'
    BY DEF SafeInv, StopInv, StopCallOk
  <2> QED BY <2>3, <2>4 DEF StopInv
<1>3. DownInv'
  BY DEF SafeInv, DownInv, Stopping, ThreadDown
<1>4. OnlyRepeatsRejected'
  BY DEF SafeInv, OnlyRepeatsRejected, Target
<1> QED BY <1>1, <1>2, <1>3, <1>4 DEF SafeInv

\* athd_getpendingcount is zero: no thread of the pool has a node.
LEMMA PoolIsIdle ==
  ASSUME IInv, PendingCount = 0, NEW t \in PoolThreads
  PROVE  t \in Threads /\ queue[t] = <<>> /\ pos[t] > Len(batch[t])
<1> DEFINE F == [i \in DOMAIN Pool |-> {i} \X (1 .. jobCount[Pool[i]])]
           T == {F[i] : i \in DOMAIN Pool}
<1>1. Pool \in Seq(Threads) /\ DOMAIN Pool = 1 .. Len(Pool) /\ Len(Pool) \in Int
  BY RegistriesAssumption
<1>2. jobCount \in [Threads -> Int]
  BY DEF IInv, TypeOK, ThreadType
<1>3. IsFiniteSet(DOMAIN Pool)
  BY <1>1, FS_Interval
<1>4. F \in Surjection(DOMAIN Pool, T)
  BY DEF Surjection
<1>5. IsFiniteSet(T)
  <2> HIDE DEF F, T
  <2> QED BY <1>3, <1>4, FS_Surjection
<1>6. \A x \in T : IsFiniteSet(x)
  <2> SUFFICES ASSUME NEW i \in DOMAIN Pool PROVE IsFiniteSet({i} \X (1 .. jobCount[Pool[i]]))
    OBVIOUS
  <2>1. jobCount[Pool[i]] \in Int /\ 1 \in Int
    BY <1>1, <1>2
  <2> QED BY <2>1, FS_Interval, FS_Singleton, FS_Product
<1>7. IsFiniteSet(UNION T)
  <2> HIDE DEF F, T
  <2> QED BY <1>5, <1>6, FS_UNION
<1>8. PendingCount = Cardinality(UNION T)
  BY DEF PendingCount
<1>9. UNION T = {}
  <2> HIDE DEF F, T
  <2> QED BY <1>7, <1>8, FS_EmptySet
<1>10. PICK i \in DOMAIN Pool : t = Pool[i]
  BY DEF PoolThreads
<1>11. t \in Threads /\ ~(jobCount[t] > 0)
  <2>1. t \in Threads
    BY <1>1, <1>10
  <2>2. ASSUME jobCount[t] > 0 PROVE FALSE
    <3>1. 1 \in 1 .. jobCount[Pool[i]]
      BY <1>2, <1>10, <2>1, <2>2
    <3>2. <<i, 1>> \in F[i]
      BY <3>1
    <3> QED BY <1>9, <3>2
  <2> QED BY <2>1, <2>2
<1> HIDE DEF F, T
<1>12. pos[t] <= Len(batch[t]) + 1
  <2>1. pos[t] \in Nat /\ Len(batch[t]) \in Nat /\ t \in Procs /\ t \in Threads
    BY <1>11 DEF IInv, TypeOK, ThreadType, Procs
  <2>2. AtNode(t) \/ pc[t] = "next" \/ NoBatch(t)
    BY <2>1 DEF IInv, TypeOK, ControlType, AtNode, NoBatch, Busy
  <2>3. NoBatch(t) => Len(batch[t]) = 0 /\ pos[t] = 1
    BY <2>1 DEF IInv, BatchInv
  <2>4. AtNode(t) \/ pc[t] = "next" => pos[t] <= Len(batch[t]) + 1
    BY <2>1 DEF IInv, BatchInv
  <2> QED BY <2>1, <2>2, <2>3, <2>4
<1>13. jobCount[t] = Len(queue[t]) + Len(batch[t]) - pos[t] + 1
  BY <1>11 DEF IInv, CountExact
<1>14. /\ jobCount[t] \in Int /\ pos[t] \in Nat
       /\ Len(queue[t]) \in Nat /\ Len(batch[t]) \in Nat
  BY <1>11 DEF IInv, TypeOK, ThreadType
<1>15. Len(queue[t]) = 0 /\ pos[t] > Len(batch[t])
  BY <1>11, <1>12, <1>13, <1>14
<1>16. queue[t] \in Seq(Cell)
  BY <1>11 DEF IInv, TypeOK, ThreadType
<1> QED BY <1>11, <1>15, <1>16, EmptySeq

\* A thread that pushes or runs a work function does so before the stop.
LEMMA NotStopping ==
  ASSUME SafeInv, NEW t \in Threads, pc[t] \in Pushing \/ (pc[t] = "user" /\ ctx[t] # "done")
  PROVE  ~Stopping /\ \A u \in Threads : ~HasStop(u)
BY DEF SafeInv, DownInv, StopInv, SentInv, Stopping, ThreadDown

LEMMA CallOfThread ==
  ASSUME IInv, SafeInv, NEW p \in Threads
  PROVE  p \in Procs /\ p \notin Stoppers /\ call[p].kind # "stop"
BY ThreadsAssumption DEF SafeInv, StopInv, StopCallOk, Procs

\* Only p moves; calls, lists and positions stay.
LEMMA MoveStep ==
  ASSUME IInv, SafeInv, NEW p \in Threads,
         \A q \in Procs \ {p} : pc'[q] = pc[q] /\ ctx'[q] = ctx[q],
         UNCHANGED <<call, batch, queue, pos, isWorking, leaked, fault>>,
         ThreadUse(p)', pc'[p] # "rej",
         Stopping => pc'[p] \notin Pushing /\ (pc'[p] = "user" => ctx'[p] = "done"
                                                  /\ ~("done" \in PushFrom /\ p \in Pushers))
  PROVE  SafeInv'
<1>1. CellUse(p)' /\ CallUse(p)'
  BY CallOfThread DEF SafeInv, UseInv, CellUse, CallUse
<1>2. Stopping => ThreadDown(p)'
  BY DEF SafeInv, DownInv, ThreadDown
<1>3. HasStop(p)' => HasStop(p)
  BY DEF HasStop
<1> QED BY <1>1, <1>2, <1>3, CallOfThread, ThreadStep

LEMMA UserPushSafe == ASSUME IInv, SafeInv, NEW p \in Procs, UserPush(p) PROVE SafeInv'
<1>1. p \in Threads /\ p \in Procs /\ pc[p] = "user" /\ ctx[p] \in PushFrom
  BY ThreadsAssumption DEF UserPush, At
<1>2. /\ pc' = [pc EXCEPT ![p] = "job"] /\ UNCHANGED <<ctx, batch, queue, pos, isWorking, leaked, fault>>
      /\ call' = [call EXCEPT ![p] = [kind |-> "work", job |-> pushes + 1, to |-> <<>>]]
  BY DEF UserPush, mailVars, lifeVars, nodeVars
<1>3. /\ pc'[p] = "job" /\ ctx'[p] = ctx[p] /\ call'[p].to = <<>> /\ call'[p].kind = "work"
      /\ \A q \in Procs \ {p} : pc'[q] = pc[q] /\ ctx'[q] = ctx[q] /\ call'[q] = call[q]
  BY <1>1, <1>2, PcDomain
<1>4. ThreadUse(p) /\ CellUse(p) /\ p \in Pushers
  BY <1>1 DEF SafeInv, UseInv, UserPush
<1>5. ThreadUse(p)'
  BY <1>1, <1>3, <1>4 DEF ThreadUse, Pushing
<1>6. CellUse(p)' /\ CallUse(p)'
  BY <1>2, <1>3, <1>4 DEF CellUse, CallUse
<1>7. ~Stopping
  BY <1>1, <1>4 DEF SafeInv, DownInv, ThreadDown
<1>8. HasStop(p)' => HasStop(p)
  BY <1>2 DEF HasStop
<1> QED BY <1>1, <1>2, <1>3, <1>5, <1>6, <1>7, <1>8, ThreadStep

LEMMA StartPushSafe ==
  ASSUME SafeUse, IInv, SafeInv, NEW p \in Procs, NEW to \in Seq(Threads),
         NEW next \in {"node", "lock"}, StartPush(p, to, next), GoesTo(to, next)
  PROVE  SafeInv'
<1>0. Stoppers # {} => \A i \in DOMAIN to : to[i] \in PoolThreads
  <2> SUFFICES ASSUME Stoppers # {} PROVE \A i \in DOMAIN to : to[i] \in PoolThreads
    OBVIOUS
  <2>1. CASE \E t \in PoolThreads : to = <<t>>
    BY <2>1
  <2>2. CASE "thread" \in Ops /\ \E t \in Threads : to = <<t>>
    BY <2>1, <2>2 DEF SafeUse
  <2>3. CASE ("lua" \in Ops /\ to = LuaThreads) \/ ("all" \in Ops /\ to = AllThreads)
    BY <2>3 DEF SafeUse
  <2> QED BY <2>1, <2>2, <2>3 DEF GoesTo
<1>1. pc[p] = "job" /\ p \in Threads
  BY DEF StartPush, At, IInv, CallInv
<1>2. PICK j : j = call[p].job
  OBVIOUS
<1>3. /\ pc' = [pc EXCEPT ![p] = next] /\ UNCHANGED <<ctx, batch, queue, pos, isWorking, leaked, fault>>
      /\ call' = [call EXCEPT ![p] = [kind |-> "work", job |-> j, to |-> to]]
  BY <1>2 DEF StartPush, mailVars, lifeVars, nodeVars
<1>4. /\ pc'[p] = next /\ ctx'[p] = ctx[p] /\ call'[p].to = to /\ call'[p].kind = "work"
      /\ \A q \in Procs \ {p} : pc'[q] = pc[q] /\ ctx'[q] = ctx[q] /\ call'[q] = call[q]
  BY <1>1, <1>3, PcDomain
<1>5. ThreadUse(p) /\ CellUse(p)
  BY <1>1 DEF SafeInv, UseInv
<1>6. ThreadUse(p)'
  BY <1>1, <1>3, <1>4, <1>5 DEF ThreadUse, Pushing, Curr
<1>7. CellUse(p)' /\ CallUse(p)'
  BY <1>0, <1>3, <1>4, <1>5 DEF CellUse, CallUse
<1>8. ~Stopping
  BY <1>1, NotStopping DEF Pushing
<1>9. HasStop(p)' => HasStop(p)
  BY <1>3 DEF HasStop
<1> QED BY <1>1, <1>3, <1>4, <1>6, <1>7, <1>8, <1>9, ThreadStep

\* Steps between points of the same push.
LEMMA PushMoves ==
  ASSUME IInv, SafeInv, NEW p \in Threads, LockMd(p) \/ AllocNode(p)
  PROVE  SafeInv'
<1>1. /\ pc[p] \in Pushing /\ pc'[p] \in Pushing \ {"rej"}
      /\ \A q \in Procs \ {p} : pc'[q] = pc[q]
      /\ UNCHANGED <<ctx, call, batch, queue, pos, isWorking, leaked, fault>>
  BY CallOfThread, PcDomain DEF LockMd, AllocNode, At, Pushing, mailVars, lifeVars, nodeVars
<1>2. ThreadUse(p)
  BY DEF SafeInv, UseInv
<1>3. ThreadUse(p)'
  BY <1>1, <1>2 DEF ThreadUse, Pushing, Curr
<1> QED BY <1>1, <1>3, NotStopping, MoveStep

\* No push of a job or a result is rejected, and so none of its steps happens.
LEMMA NoReject ==
  ASSUME SafeInv, NEW p \in Procs
  PROVE  ~RejectedDone(p) /\ ~RejectedStale(p)
BY DEF SafeInv, OnlyRepeatsRejected, RejectedDone, RejectedStale, At

\* What is rejected is the null job of a thread that got one before.
LEMMA RejectSafe ==
  ASSUME SafeUse, IInv, SafeInv, NEW p \in Procs, Reject(p)
  PROVE  SafeInv'
<1>1. /\ pc[p] = "enq" /\ ~isWorking[Target(p)] /\ pc' = [pc EXCEPT ![p] = "rej"]
      /\ UNCHANGED <<ctx, call, batch, queue, pos, isWorking, fault>>
  BY DEF Reject, At, mailVars, lifeVars
<1>2. call[p] \in Call /\ call[p].to # <<>>
  BY <1>1 DEF IInv, TypeOK, ControlType, CallInv
<1>3. PICK to \in Seq(Threads) : to = call[p].to /\ to # <<>>
  BY <1>2 DEF Call
<1>4. PICK t \in Threads : t = Target(p) /\ t = to[1] /\ 1 \in DOMAIN to
  BY <1>3 DEF Target
<1>5. HasStop(t)
  BY <1>1, <1>4 DEF HasStop
<1>6. PICK s \in Stoppers : pc[s] # "idle" /\ Sent(s, t)
  BY <1>5 DEF SafeInv, StopInv, SentInv
<1>7. p \notin Threads
  BY <1>1, <1>5, NotStopping DEF Pushing
<1>8. p \in Stoppers /\ p = s
  BY <1>6, <1>7 DEF SafeUse, Procs
<1>9. call[p].kind = "stop"
  BY <1>1, <1>2, <1>7 DEF IInv, CallInv, Call
<1>10. Repeated(t)
  <2>1. RestOf(to)
    BY <1>3, <1>9 DEF SafeInv, StopInv, StopCallOk
  <2>2. PICK i \in DOMAIN PThreads : PThreads[i] = t /\ i + Len(to) <= Len(PThreads)
    BY <1>3, <1>6, <1>8 DEF Sent
  <2>3. PICK k : k = Len(PThreads) - Len(to) + 1
    OBVIOUS
  <2>4. PThreads \in Seq(Threads) /\ Len(to) \in Nat \ {0}
    BY <1>3, RegistriesAssumption
  <2>5. PThreads[k] = t
    BY <1>4, <2>1, <2>3 DEF RestOf
  <2>6. k \in DOMAIN PThreads /\ i # k
    BY <2>1, <2>2, <2>3, <2>4 DEF RestOf
  <2> QED BY <2>2, <2>5, <2>6 DEF Repeated
<1>11. pc'[p] = "rej" /\ \A q \in Procs \ {p} : pc'[q] = pc[q]
  BY <1>1, PcDomain
<1>12. \A q \in Procs : pc'[q] # "idle" <=> pc[q] # "idle"
  BY <1>1, <1>11
<1>13. \A u \in Threads : u \in Procs \ {p}
  BY <1>7 DEF Procs
<1>14. UseInv'
  BY <1>1, <1>11, <1>13 DEF SafeInv, UseInv, ThreadUse, CellUse, CallUse, Curr
<1>15. StopInv'
  BY <1>1, <1>12 DEF SafeInv, StopInv, SentInv, Sent, HasStop, StopCallOk, Procs
<1>16. Stopping' <=> Stopping
  BY <1>12 DEF Stopping, Procs
<1>17. DownInv'
  BY <1>1, <1>11, <1>13, <1>16 DEF SafeInv, DownInv, ThreadDown
<1>18. OnlyRepeatsRejected'
  BY <1>1, <1>4, <1>9, <1>10, <1>11 DEF SafeInv, OnlyRepeatsRejected, Target, Repeated
<1> QED BY <1>14, <1>15, <1>17, <1>18 DEF SafeInv

\* The push of p goes on: the rest of its threads, or nothing.
LEMMA NextTargetCall ==
  ASSUME IInv, NEW p \in Procs, pc[p] \in {"enq", "rej"}, NextTarget(p)
  PROVE  /\ \A q \in Procs \ {p} : call'[q] = call[q] /\ pc'[q] = pc[q]
         /\ call[p].to \in Seq(Threads) /\ call[p].to # <<>>
         /\ \/ /\ call'[p].kind = call[p].kind /\ call'[p].to = Tail(call[p].to)
               /\ pc'[p] = "node"
            \/ /\ call'[p].kind = "none" /\ call'[p].to = <<>> /\ ~(Len(call[p].to) > 1)
               /\ pc'[p] \in {"fin", "spin", "user"}
               /\ pc'[p] = "user" => ctx[p] # "result"
<1>1. call[p] \in Call /\ call[p].to \in Seq(Threads) /\ call[p].to # <<>>
  BY DEF IInv, TypeOK, ControlType, Call, CallInv
<1>2. PICK n : n = CASE ctx[p] = "result" -> "fin" [] ctx[p] = "stop" -> "spin" [] OTHER -> "user"
  OBVIOUS
<1>3. n \in {"fin", "spin", "user"} /\ (n = "user" => ctx[p] # "result")
  BY <1>2
<1>4. CASE Len(call[p].to) > 1
  <2>1. PICK rest : rest = [kind |-> call[p].kind, job |-> call[p].job, to |-> Tail(call[p].to)]
    OBVIOUS
  <2>2. call' = [call EXCEPT ![p] = rest] /\ pc' = [pc EXCEPT ![p] = "node"]
    BY <1>4, <2>1 DEF NextTarget
  <2> QED BY <1>1, <2>1, <2>2, PcDomain
<1>5. CASE ~(Len(call[p].to) > 1)
  <2>1. call' = [call EXCEPT ![p] = NoCall] /\ pc' = [pc EXCEPT ![p] = n]
    BY <1>2, <1>5 DEF NextTarget
  <2> QED BY <1>1, <1>3, <1>5, <2>1, PcDomain DEF NoCall
<1> QED BY <1>4, <1>5

\* The rest of a list without repetitions.
LEMMA TailOf ==
  ASSUME NEW to \in Seq(Threads), to # <<>>
  PROVE  /\ 1 \in DOMAIN to /\ Head(to) = to[1]
         /\ \A i \in DOMAIN Tail(to) : /\ i + 1 \in DOMAIN to /\ i + 1 # 1
                                       /\ Tail(to)[i] = to[i + 1]
         /\ \A i, k \in DOMAIN Tail(to) : i + 1 = k + 1 => i = k
OBVIOUS

\* A stopper's call goes on with the rest of pthreads_.
LEMMA RestOfTail ==
  ASSUME NEW to \in Seq(Threads), to # <<>>, RestOf(to)
  PROVE  /\ RestOf(Tail(to)) /\ Len(Tail(to)) = Len(to) - 1
         /\ \E i \in DOMAIN PThreads : PThreads[i] = to[1] /\ i + (Len(to) - 1) <= Len(PThreads)
<1>1. PThreads \in Seq(Threads)
  BY RegistriesAssumption
<1>2. PICK n, N : n = Len(to) /\ N = Len(PThreads)
  OBVIOUS
<1>3. n \in Nat \ {0} /\ N \in Nat /\ n <= N /\ DOMAIN PThreads = 1 .. N
  BY <1>1, <1>2 DEF RestOf
<1>4. Len(Tail(to)) = n - 1 /\ DOMAIN Tail(to) = 1 .. n - 1
  BY <1>2
<1>5. ASSUME NEW i \in DOMAIN Tail(to) PROVE Tail(to)[i] = PThreads[N - (n - 1) + i]
  <2>1. i \in Int /\ i + 1 \in DOMAIN to /\ Tail(to)[i] = to[i + 1]
    BY <1>4, TailOf
  <2>2. to[i + 1] = PThreads[N - n + (i + 1)]
    BY <1>2, <2>1 DEF RestOf
  <2>3. N - n + (i + 1) = N - (n - 1) + i
    BY <1>3, <2>1
  <2> QED BY <2>1, <2>2, <2>3
<1>6. RestOf(Tail(to))
  BY <1>2, <1>3, <1>4, <1>5 DEF RestOf
<1>7. PICK i : i = N - n + 1
  OBVIOUS
<1>8. i \in DOMAIN PThreads /\ i + (n - 1) <= N
  BY <1>3, <1>7
<1>9. PThreads[i] = to[1]
  BY <1>2, <1>7, TailOf DEF RestOf
<1> QED BY <1>2, <1>4, <1>6, <1>8, <1>9

LEMMA EnqueueSafe == ASSUME SafeUse, IInv, SafeInv, NEW p \in Procs, Enqueue(p) PROVE SafeInv'
<1>1. PICK t, c : t = Target(p) /\ c = [kind |-> call[p].kind, job |-> call[p].job, sender |-> p]
  OBVIOUS
<1>2. /\ pc[p] = "enq" /\ NextTarget(p)
      /\ queue' = [queue EXCEPT ![t] = Append(@, c)]
      /\ UNCHANGED <<ctx, batch, pos, isWorking, leaked, fault>>
  BY <1>1 DEF Enqueue, At, Link, lifeVars, nodeVars
<1>3. PICK to \in Seq(Threads) : to = call[p].to
  BY <1>2, NextTargetCall
<1>4. /\ to # <<>>
      /\ \A q \in Procs \ {p} : call'[q] = call[q] /\ pc'[q] = pc[q]
      /\ \/ call'[p].kind = call[p].kind /\ call'[p].to = Tail(to) /\ pc'[p] = "node"
         \/ /\ call'[p].kind = "none" /\ call'[p].to = <<>> /\ ~(Len(to) > 1)
            /\ pc'[p] \in {"fin", "spin", "user"} /\ (pc'[p] = "user" => ctx[p] # "result")
  BY <1>2, <1>3, NextTargetCall
<1>5. t \in Threads /\ t = to[1] /\ 1 \in DOMAIN to
  BY <1>1, <1>3, <1>4, TailOf DEF Target
<1>6. /\ queue[t] \in Seq(Cell) /\ queue'[t] = Append(queue[t], c)
      /\ \A u \in Threads \ {t} : queue'[u] = queue[u]
  BY <1>2, <1>5 DEF IInv, TypeOK, ThreadType
<1>7. /\ \A i \in DOMAIN queue'[t] : queue'[t][i] = c \/ (i \in DOMAIN queue[t] /\ queue'[t][i] = queue[t][i])
  BY <1>6
<1>8. ASSUME NEW u \in Threads PROVE CellUse(u)'
  <2>1. c.kind = "work" /\ Stoppers # {} => t \in PoolThreads
    BY <1>1, <1>3, <1>5 DEF SafeInv, UseInv, CallUse
  <2> QED BY <1>2, <1>6, <1>7, <2>1 DEF SafeInv, UseInv, CellUse
<1>9. ASSUME NEW q \in Procs PROVE CallUse(q)'
  <2>1. CallUse(q)
    BY DEF SafeInv, UseInv
  <2>2. CASE q = p
    <3>1. Stoppers # {} /\ call[p].kind = "work" => \A i \in DOMAIN to : to[i] \in PoolThreads
      BY <1>3, <2>1, <2>2 DEF CallUse
    <3>2. Stoppers # {} /\ call[p].kind = "work" => \A i \in DOMAIN Tail(to) : Tail(to)[i] \in PoolThreads
      BY <1>4, <3>1, TailOf
    <3> QED BY <1>4, <2>2, <3>2 DEF CallUse
  <2>3. CASE q # p
    BY <1>4, <2>1, <2>3 DEF CallUse
  <2> QED BY <2>2, <2>3
<1>10. ASSUME NEW u \in Threads PROVE ThreadUse(u)'
  <2>1. ThreadUse(u) /\ u \in Procs
    BY DEF SafeInv, UseInv, Procs
  <2> QED BY <1>2, <1>4, <2>1 DEF ThreadUse, Pushing, Curr
<1>13. OnlyRepeatsRejected'
  BY <1>2, <1>4 DEF SafeInv, OnlyRepeatsRejected, Target
<1>11. CASE p \in Threads
  <2>1. ~Stopping /\ \A u \in Threads : ~HasStop(u)
    BY <1>2, <1>11, NotStopping DEF Pushing
  <2>2. \A s \in Stoppers : s \in Procs \ {p}
    BY <1>11, ThreadsAssumption DEF Procs
  <2>3. ~Stopping'
    BY <1>4, <2>1, <2>2 DEF Stopping
  <2>4. c.kind # "stop"
    BY <1>1, <1>11, CallOfThread
  <2>5. \A u \in Threads : ~HasStop(u)'
    BY <1>2, <1>6, <1>7, <2>1, <2>4 DEF HasStop
  <2>6. \A q \in Procs : StopCallOk(q)'
    BY <1>4, <1>11, CallOfThread DEF SafeInv, StopInv, StopCallOk
  <2> QED BY <1>8, <1>9, <1>10, <1>13, <2>3, <2>5, <2>6 DEF SafeInv, UseInv, StopInv, SentInv, DownInv
<1>12. CASE p \notin Threads
  <2>1. p \in Stoppers /\ call[p].kind = "stop" /\ c.kind = "stop"
    BY <1>1, <1>2, <1>12 DEF Procs, IInv, TypeOK, ControlType, Call, CallInv
  <2>2. Stopping /\ Stopping' /\ pc'[p] # "idle"
    BY <1>2, <1>4, <2>1 DEF Stopping
  <2>3. \A s \in Stoppers : s = p
    BY <2>1 DEF SafeUse
  <2>4. RestOf(to)
    BY <1>3, <2>1 DEF SafeInv, StopInv, StopCallOk
  <2>5. ASSUME NEW u \in Threads PROVE ThreadDown(u)'
    <3>1. ThreadDown(u) /\ u \in Procs \ {p}
      BY <1>12, <2>2 DEF SafeInv, DownInv, Procs
    <3> QED BY <1>2, <1>4, <1>6, <1>7, <2>1, <3>1 DEF ThreadDown
  <2>6. \A q \in Procs : StopCallOk(q)'
    <3>1. StopCallOk(p)'
      BY <1>4, <2>1, <2>2, <2>4, RestOfTail DEF StopCallOk
    <3>2. \A q \in Procs \ {p} : StopCallOk(q)'
      BY <1>4 DEF SafeInv, StopInv, StopCallOk
    <3> QED BY <3>1, <3>2
  <2>7. Len(call'[p].to) = Len(to) - 1 /\ Len(to) \in Nat
    <3>1. Len(to) \in Nat \ {0}
      BY <1>4
    <3>2. CASE call'[p].to = Tail(to)
      BY <2>4, <3>1, <3>2, <1>4, RestOfTail
    <3>3. CASE call'[p].to = <<>> /\ ~(Len(to) > 1)
      <4>0. PICK e \in Seq(Threads) : e = <<>> /\ Len(e) = 0
        BY EmptySeq
      <4>1. call'[p].to = e
        BY <3>3, <4>0, Zenon
      <4>3. Len(call'[p].to) = 0
        BY <4>0, <4>1, Zenon
      <4>2. ~(Len(to) > 1)
        BY <3>3, Zenon
      <4>4. Len(to) = 1
        BY <3>1, <4>2
      <4> QED BY <4>3, <4>4
    <3> QED BY <1>4, <3>2, <3>3
  <2>8. SentInv'
    <3> SUFFICES ASSUME NEW u \in Threads, HasStop(u)' PROVE Sent(p, u)'
      BY <2>1, <2>2 DEF SentInv
    <3>1. CASE u = t
      BY <1>4, <1>5, <2>4, <2>7, <3>1, RestOfTail DEF Sent
    <3>2. CASE u # t
      <4>1. HasStop(u)
        BY <1>2, <1>6, <3>2 DEF HasStop
      <4>2. Sent(p, u)
        BY <2>3, <4>1 DEF SafeInv, StopInv, SentInv
      <4>3. PICK i \in DOMAIN PThreads : PThreads[i] = u /\ i + Len(to) <= Len(PThreads)
        BY <1>3, <4>2 DEF Sent
      <4>4. i \in Int /\ Len(PThreads) \in Int
        BY RegistriesAssumption
      <4>5. i + (Len(to) - 1) <= Len(PThreads)
        BY <2>7, <4>3, <4>4
      <4> QED BY <2>7, <4>3, <4>5 DEF Sent
    <3> QED BY <3>1, <3>2
  <2> QED BY <1>8, <1>9, <1>10, <1>13, <2>5, <2>6, <2>8 DEF SafeInv, UseInv, StopInv, DownInv
<1> QED BY <1>11, <1>12

\* The stopper takes a node, or has seen every thread stop.
LEMMA StopperMoves ==
  ASSUME IInv, SafeInv, NEW p \in Procs, p \notin Threads, AllocNode(p) \/ AllStopped(p)
  PROVE  SafeInv'
<1>1. /\ pc[p] # "idle" /\ pc'[p] \notin {"idle", "rej"} /\ p \in Stoppers
      /\ \A q \in Procs \ {p} : pc'[q] = pc[q]
      /\ UNCHANGED <<ctx, call, batch, queue, pos, isWorking, leaked, fault>>
  BY PcDomain DEF AllocNode, AllStopped, At, Procs, mailVars, lifeVars, nodeVars
<1>2. \A t \in Threads : t \in Procs \ {p}
  BY DEF Procs
<1>3. \A q \in Procs : pc'[q] # "idle" <=> pc[q] # "idle"
  BY <1>1
<1>4. UseInv'
  BY <1>1, <1>2 DEF SafeInv, UseInv, ThreadUse, CellUse, CallUse, Curr
<1>5. StopInv'
  BY <1>1, <1>3 DEF SafeInv, StopInv, SentInv, Sent, HasStop, StopCallOk, Procs
<1>6. Stopping' <=> Stopping
  BY <1>3 DEF Stopping, Procs
<1>7. DownInv'
  BY <1>1, <1>2, <1>6 DEF SafeInv, DownInv, ThreadDown
<1>8. OnlyRepeatsRejected'
  BY <1>1 DEF SafeInv, OnlyRepeatsRejected, Target
<1> QED BY <1>4, <1>5, <1>7, <1>8 DEF SafeInv

\* A node that a thread has not passed on keeps its job alive.
LEMMA PendingLive ==
  ASSUME IInv, LegsInv, AllCounted, NEW p \in Threads, pc[p] = "next",
         pos[p] <= Len(batch[p]), Curr(p).kind # "stop"
  PROVE  Live(Curr(p).job)
<1>1. PICK j : j = Curr(p).job
  OBVIOUS
<1>2. /\ pos[p] \in pos[p] .. Len(batch[p]) /\ pos[p] \in DOMAIN batch[p]
      /\ batch[p] \in Seq(Cell)
  BY DEF IInv, TypeOK, ThreadType
<1>3. j \in JobIds
  BY <1>1, <1>2 DEF Curr, Cell
<1>4. <<p, pos[p]>> \in InBatch(j)
  BY <1>1, <1>2, BatchMembers DEF PendingAt, Curr, CurrPending
<1>5. IsFiniteSet(InBatch(j)) /\ (~Live(j) => Outstanding(j) = 0)
  BY <1>3, CountedLegs DEF LegsInv, JobLegs, AllCounted
<1>6. Cardinality(InBatch(j)) # 0
  BY <1>4, <1>5, FS_EmptySet
<1>7. Cardinality(InBatch(j)) \in Nat /\ Cardinality(InQueue(j)) \in Nat /\ Cardinality(ToPush(j)) \in Nat
  BY <1>3, LegsTypes DEF LegsInv
<1>8. Outstanding(j) # 0
  BY <1>6, <1>7 DEF Outstanding
<1> QED BY <1>1, <1>5, <1>8

LEMMA CurrAt ==
  ASSUME IInv, NEW p \in Threads, pos[p] <= Len(batch[p])
  PROVE  pos[p] \in DOMAIN batch[p] /\ pos[p] >= pos[p]
BY DEF IInv, TypeOK, ThreadType

\* The steps of exec() that only move the thread, and the end of a user function.
LEMMA ExecMoves ==
  ASSUME SafeUse, IInv, LegsInv, SafeInv, NEW p \in Threads,
         \/ StartReturns(p) \/ DoneReturns(p) \/ RunWork(p) \/ RunDone(p) \/ Exit(p)
  PROVE  SafeInv'
<1>1. /\ \A q \in Procs \ {p} : pc'[q] = pc[q] /\ ctx'[q] = ctx[q]
      /\ UNCHANGED <<call, batch, queue, pos, isWorking, leaked, fault>>
  <2>1. CASE StartReturns(p) \/ DoneReturns(p)
    BY <2>1, PcDomain DEF StartReturns, DoneReturns, mailVars, lifeVars, nodeVars
  <2>2. CASE RunWork(p) \/ RunDone(p)
    BY <2>2, PcDomain DEF RunWork, RunDone, mailVars, lifeVars, nodeVars
  <2>3. CASE Exit(p)
    BY <2>3, PcDomain DEF Exit, mailVars, nodeVars
  <2> QED BY <2>1, <2>2, <2>3
<1>2. p \in DOMAIN pc /\ p \in DOMAIN ctx
  BY PcDomain DEF Procs
<1>3. ThreadUse(p)
  BY DEF SafeInv, UseInv
<1>4. CASE StartReturns(p) \/ DoneReturns(p)
  <2>1. pc'[p] \in {"loop", "fin"} /\ ctx'[p] = ctx[p] /\ pc[p] = "user"
    BY <1>2, <1>4 DEF StartReturns, DoneReturns, At
  <2> QED BY <1>1, <1>3, <2>1, MoveStep DEF ThreadUse, Pushing
<1>5. CASE RunWork(p)
  <2>1. pc'[p] = "user" /\ ctx'[p] = "work" /\ pos[p] <= Len(batch[p]) /\ Curr(p).kind = "work"
    BY <1>2, <1>5 DEF RunWork, HasCurr
  <2>2. ~Stopping
    BY <2>1, CurrAt DEF SafeInv, DownInv, ThreadDown, Curr
  <2> QED BY <1>1, <2>1, <2>2, MoveStep DEF ThreadUse, Pushing
<1>6. CASE RunDone(p)
  <2>1. pc'[p] = "user" /\ ctx'[p] = "done" /\ pos[p] <= Len(batch[p]) /\ Curr(p).kind = "result"
    BY <1>2, <1>6 DEF RunDone, HasCurr
  <2>2. Stopping => p \notin PoolThreads
    BY <2>1, CurrAt DEF SafeInv, DownInv, ThreadDown, Curr
  <2>3. Stopping => ~("done" \in PushFrom /\ p \in Pushers)
    BY <2>2 DEF SafeUse, Stopping
  <2> QED BY <1>1, <2>1, <2>3, MoveStep DEF ThreadUse, Pushing
<1>7. CASE Exit(p)
  <2>1. pc'[p] = "gone" /\ ctx'[p] = "stop"
    BY <1>2, <1>7 DEF Exit, SafeUse
  <2> QED BY <1>1, <2>1, MoveStep DEF ThreadUse, Pushing
<1> QED BY <1>4, <1>5, <1>6, <1>7

LEMMA WorkReturnsSafe == ASSUME IInv, SafeInv, NEW p \in Threads, WorkReturns(p) PROVE SafeInv'
<1>1. PICK j, s : j = Curr(p).job /\ s = Curr(p).sender
  OBVIOUS
<1>2. /\ pc[p] = "user" /\ ctx[p] = "work" /\ pc' = [pc EXCEPT ![p] = "node"]
      /\ ctx' = [ctx EXCEPT ![p] = "result"]
      /\ call' = [call EXCEPT ![p] = [kind |-> "result", job |-> j, to |-> <<s>>]]
      /\ UNCHANGED <<batch, queue, pos, isWorking, leaked, fault>>
  BY <1>1 DEF WorkReturns, At, ReplyTo, mailVars, lifeVars, nodeVars
<1>3. /\ pc'[p] = "node" /\ ctx'[p] = "result" /\ call'[p].kind = "result"
      /\ \A q \in Procs \ {p} : pc'[q] = pc[q] /\ ctx'[q] = ctx[q] /\ call'[q] = call[q]
  BY <1>2, PcDomain DEF Procs
<1>4. Curr(p).kind = "work"
  BY <1>2 DEF IInv, BatchInv, AtNode, Busy
<1>5. ThreadUse(p)' /\ CellUse(p)' /\ CallUse(p)'
  BY <1>2, <1>3, <1>4 DEF SafeInv, UseInv, ThreadUse, CellUse, CallUse, Pushing, Curr
<1>6. ~Stopping
  BY <1>2, NotStopping
<1>7. HasStop(p)' => HasStop(p)
  BY <1>2 DEF HasStop
<1> QED BY <1>2, <1>3, <1>5, <1>6, <1>7, ThreadStep

\* The steps of exec() that change its lists or is_working_.
LEMMA ListSteps ==
  ASSUME IInv, SafeInv, NEW p \in Threads,
         Drain(p) \/ RunStop(p) \/ FinishNode(p) \/ Frees(p)
  PROVE  SafeInv'
<1>1. /\ \A q \in Procs \ {p} : pc'[q] = pc[q]
      /\ UNCHANGED <<ctx, call, leaked, fault>>
      /\ pc'[p] \in {"exit", "next", "fin", "loop"} /\ pc[p] # "gone"
  <2>1. p \in DOMAIN pc
    BY PcDomain DEF Procs
  <2>2. CASE Drain(p) \/ RunStop(p)
    BY <2>1, <2>2, PcDomain DEF Drain, RunStop, HasCurr, At, mailVars, lifeVars, nodeVars
  <2>3. CASE FinishNode(p) \/ Frees(p)
    BY <2>1, <2>3, PcDomain DEF FinishNode, Frees, At, mailVars, lifeVars, nodeVars
  <2> QED BY <2>2, <2>3
<1>2. ThreadUse(p) /\ CellUse(p) /\ CallUse(p) /\ p \in Procs
  BY DEF SafeInv, UseInv, Procs
<1>3. ThreadUse(p)' /\ CallUse(p)' /\ call'[p].kind # "stop"
  BY <1>1, <1>2, CallOfThread DEF ThreadUse, CallUse, Pushing
<1>4. /\ batch[p] \in Seq(Cell) /\ queue[p] \in Seq(Cell) /\ pos[p] \in Nat
      /\ p \in DOMAIN batch /\ p \in DOMAIN queue /\ p \in DOMAIN pos /\ p \in DOMAIN isWorking
  BY DEF IInv, TypeOK, ThreadType
<1>5. \A t \in Threads \ {p} : /\ batch'[t] = batch[t] /\ queue'[t] = queue[t]
                               /\ pos'[t] = pos[t] /\ isWorking'[t] = isWorking[t]
  BY DEF Drain, RunStop, FinishNode, Frees, mailVars, lifeVars, IInv, TypeOK, ThreadType
<1>6. CellUse(p)' /\ (HasStop(p)' => HasStop(p)) /\ (Stopping => ThreadDown(p)')
  <2>1. Stopping => ThreadDown(p)
    BY DEF SafeInv, DownInv
  <2>2. CASE Drain(p)
    <3>1. batch'[p] = queue[p] /\ queue'[p] = <<>> /\ isWorking' = isWorking
      BY <1>4, <2>2 DEF Drain, lifeVars
    <3> QED BY <1>1, <1>2, <2>1, <3>1 DEF CellUse, HasStop, ThreadDown, Pushing
  <2>3. CASE RunStop(p)
    <3>1. UNCHANGED <<batch, queue, pos>> /\ Curr(p).kind = "stop" /\ pos[p] <= Len(batch[p])
      BY <2>3 DEF RunStop, HasCurr, mailVars
    <3>2. HasStop(p)
      BY <3>1, CurrAt DEF HasStop, Curr
    <3> QED BY <1>1, <1>2, <2>1, <3>1, <3>2 DEF CellUse, ThreadDown, Pushing
  <2>4. CASE FinishNode(p)
    <3>1. UNCHANGED <<batch, queue, isWorking>> /\ pos'[p] = pos[p] + 1
      BY <1>4, <2>4 DEF FinishNode, lifeVars
    <3>2. \A i \in DOMAIN batch[p] : i >= pos[p] + 1 => i >= pos[p]
      BY <1>4
    <3> QED BY <1>1, <1>2, <2>1, <3>1, <3>2 DEF CellUse, HasStop, ThreadDown, Pushing
  <2>5. CASE Frees(p)
    <3>1. batch'[p] = <<>> /\ UNCHANGED <<queue, isWorking>>
      BY <1>4, <2>5 DEF Frees, lifeVars
    <3> QED BY <1>1, <1>2, <2>1, <3>1 DEF CellUse, HasStop, ThreadDown, Pushing
  <2> QED BY <2>2, <2>3, <2>4, <2>5
<1> QED BY <1>1, <1>3, <1>5, <1>6, ThreadStep

\* When the stop begins nobody pushes and there is no work.
LEMMA CallWaitstopsSafe ==
  ASSUME SafeUse, IInv, SafeInv, NEW p \in Procs, CallWaitstops(p)
  PROVE  SafeInv'
<1>1. pc[p] = "idle" /\ p \in Stoppers /\ p \notin Threads
  BY ThreadsAssumption DEF CallWaitstops, At, SafeInv, UseInv, ThreadUse, IInv, LifeInv, Procs
<1>2. /\ pc' = [pc EXCEPT ![p] = "node"]
      /\ call' = [call EXCEPT ![p] = [kind |-> "stop", job |-> NoJob, to |-> PThreads]]
      /\ UNCHANGED <<ctx, batch, queue, pos, isWorking, leaked, fault>>
  BY DEF CallWaitstops, StopTargets, mailVars, lifeVars, nodeVars
<1>3. /\ pc'[p] = "node" /\ call'[p].kind = "stop" /\ call'[p].to = PThreads
      /\ \A q \in Procs \ {p} : pc'[q] = pc[q] /\ call'[q] = call[q]
  BY <1>2, PcDomain
<1>4. MayShutDown /\ \A s \in Stoppers : s = p
  BY <1>1 DEF CallWaitstops, SafeUse
<1>5. ~Stopping /\ Stopping'
  BY <1>1, <1>3, <1>4 DEF Stopping
<1>6. \A u \in Threads : ~HasStop(u)
  BY <1>5 DEF SafeInv, StopInv, SentInv, Stopping
<1>7. \A u \in Threads : ~HasStop(u)'
  BY <1>2, <1>6 DEF HasStop
<1>8. \A t \in Threads : t \in Procs \ {p}
  BY <1>1 DEF Procs
<1>9. UseInv'
  BY <1>2, <1>3, <1>8 DEF SafeInv, UseInv, ThreadUse, CellUse, CallUse, Curr
<1>10. StopInv'
  <2>1. RestOf(PThreads)
    <3>1. PThreads \in Seq(Threads)
      BY RegistriesAssumption
    <3>2. \A i \in DOMAIN PThreads : Len(PThreads) - Len(PThreads) + i = i
      BY <3>1
    <3> QED BY <3>1, <3>2 DEF RestOf
  <2> QED BY <1>1, <1>3, <1>7, <2>1 DEF SafeInv, StopInv, StopCallOk, SentInv
<1>11. ASSUME NEW t \in Threads PROVE ThreadDown(t)'
  <2>1. t \in Procs /\ ThreadUse(t) /\ CellUse(t) /\ Stoppers # {}
    BY <1>1, <1>8 DEF SafeInv, UseInv
  <2>2. t \in PoolThreads => queue[t] = <<>> /\ pos[t] > Len(batch[t])
    BY <1>4, PoolIsIdle DEF MayShutDown
  <2>3. /\ batch[t] \in Seq(Cell) /\ queue[t] \in Seq(Cell) /\ pos[t] \in Nat
        /\ ctx[t] \in {"start", "work", "done", "result", "stop"}
    BY <2>1 DEF IInv, TypeOK, ThreadType, ControlType
  <2>4. AtNode(t) => t \notin PoolThreads /\ Curr(t).kind # "work"
    <3> SUFFICES ASSUME AtNode(t) PROVE t \notin PoolThreads /\ Curr(t).kind # "work"
      OBVIOUS
    <3>1. pos[t] <= Len(batch[t])
      BY DEF IInv, BatchInv
    <3>2. pos[t] \in DOMAIN batch[t] /\ t \notin PoolThreads
      BY <2>2, <2>3, <3>1, CurrAt
    <3> QED BY <2>1, <3>2 DEF CellUse, Curr
  <2>5. pc[t] \in Busy => ctx[t] = "done" /\ ~("done" \in PushFrom /\ t \in Pushers)
    <3> SUFFICES ASSUME pc[t] \in Busy
                 PROVE  ctx[t] = "done" /\ ~("done" \in PushFrom /\ t \in Pushers)
      OBVIOUS
    <3>1. ctx[t] # "start"
      BY <1>4 DEF MayShutDown, Busy
    <3>2. ctx[t] # "stop"
      BY <2>1 DEF ThreadUse, Busy
    <3>3. AtNode(t) /\ pc[t] # "fin"
      BY <2>3, <3>1, <3>2 DEF AtNode, Busy
    <3>4. ctx[t] # "work"
      BY <2>4, <3>3 DEF IInv, BatchInv
    <3>5. ctx[t] # "result"
      BY <2>1, <2>4, <3>3 DEF ThreadUse, Busy, Pushing
    <3>6. ~("done" \in PushFrom /\ t \in Pushers)
      BY <2>1, <2>4, <3>3 DEF SafeUse
    <3> QED BY <2>3, <3>1, <3>2, <3>4, <3>5, <3>6
  <2>6. pc[t] \notin Pushing
    BY <2>1, <2>5 DEF ThreadUse, Pushing, Busy
  <2>7. pc[t] = "user" => ctx[t] = "done" /\ ~("done" \in PushFrom /\ t \in Pushers)
    BY <2>5 DEF Busy
  <2>8. \A i \in DOMAIN batch[t] : i >= pos[t] => t \notin PoolThreads /\ batch[t][i].kind # "work"
    <3>1. \A i \in DOMAIN batch[t] : i >= pos[t] => t \notin PoolThreads
      BY <2>2, <2>3
    <3> QED BY <2>1, <3>1 DEF CellUse
  <2>9. \A i \in DOMAIN queue[t] : t \notin PoolThreads /\ queue[t][i].kind # "work"
    BY <2>1, <2>2 DEF CellUse
  <2> QED BY <1>2, <1>3, <1>8, <2>6, <2>7, <2>8, <2>9 DEF ThreadDown
<1>12. OnlyRepeatsRejected'
  BY <1>2, <1>3 DEF SafeInv, OnlyRepeatsRejected, Target
<1> QED BY <1>9, <1>10, <1>11, <1>12 DEF SafeInv, DownInv

\* The history and the counters of a job change together.
LEMMA CountedFrame ==
  ASSUME IInv, AllCounted, \A j \in JobIds : SameLegs(j)
  PROVE  AllCounted'
BY DEF AllCounted, Counted, SameLegs

LEMMA NextCounted ==
  ASSUME IInv, EndInv, AllCounted, SafeInv, [Next]_vars
  PROVE  AllCounted'
<1> USE DEF SameLegs, jobVars, histVars
<1>1. ASSUME NEW p \in Procs, Push(p) PROVE AllCounted'
  <2>1. CASE PushThread(p) \/ PushPool(p) \/ PushLua(p) \/ PushAll(p)
    <3>1. PICK to \in Seq(Threads) \ {<<>>} : \E next \in {"node", "lock"} : StartPush(p, to, next)
      BY <2>1, PushesOne
    <3>2. PICK next \in {"node", "lock"} : StartPush(p, to, next)
      BY <3>1
    <3>3. PICK j : j = call[p].job
      OBVIOUS
    <3>4. /\ j \in JobIds /\ hist' = [hist EXCEPT ![j] = Pushed(p, to)]
          /\ legs' = [legs EXCEPT ![j] = Len(to)]
      BY <3>2, <3>3 DEF StartPush, At, IInv, CallInv, JobCountOf
    <3>5. /\ \A i \in JobIds \ {j} : SameLegs(i)
          /\ hist'[j].dones = 0 /\ hist'[j].to = to /\ legs'[j] = Len(to)
      BY <3>4 DEF IInv, TypeOK, HistoryType, PoolType, Pushed
    <3>6. Counted(j)'
      BY <3>5 DEF Counted
    <3> QED BY <3>5, <3>6 DEF AllCounted, Counted
  <2>2. CASE UserPush(p) \/ LockMd(p) \/ AllocNode(p) \/ Enqueue(p) \/ Reject(p)
    BY <2>2, CountedFrame DEF UserPush, LockMd, AllocNode, Enqueue, Reject
  <2>3. CASE NullCall(p)
    BY <2>3, CountedFrame DEF NullCall, Crash
  <2> QED BY <1>1, <2>1, <2>2, <2>3, NoReject DEF Push
<1>2. ASSUME NEW p \in Threads, Exec(p) PROVE AllCounted'
  <2>1. CASE RunDone(p)
    <3>1. PICK j : j = Curr(p).job
      OBVIOUS
    <3>2. /\ Live(j) /\ hist' = [hist EXCEPT ![j] = Done(j, p, IsEnd(legs[j] - 1), "live")]
          /\ legs' = [legs EXCEPT ![j] = legs[j] - 1]
      BY <2>1, <3>1 DEF RunDone
    <3>3. /\ \A i \in JobIds \ {j} : SameLegs(i)
          /\ hist'[j].dones = hist[j].dones + 1 /\ hist'[j].to = hist[j].to
          /\ legs'[j] = legs[j] - 1 /\ j \in JobIds
      BY <3>2 DEF IInv, TypeOK, HistoryType, PoolType, Done, Live
    <3>4. Counted(j) /\ hist[j].dones \in Nat /\ legs[j] \in Int
      BY <3>3, JobTypes DEF AllCounted
    <3>5. Counted(j)'
      BY <3>3, <3>4 DEF Counted
    <3> QED BY <3>3, <3>5 DEF AllCounted, Counted
  <2>2. CASE DoneReturns(p)
    <3>1. PICK j : j = Curr(p).job
      OBVIOUS
    <3>2. hist' = IF jobEnd[p] THEN [hist EXCEPT ![j].state = "freed"] ELSE hist
      BY <2>2, <3>1 DEF DoneReturns
    <3>3. hist \in [JobIds -> History] /\ legs' = legs
      BY <2>2 DEF IInv, TypeOK, HistoryType, DoneReturns
    <3>4. \A i \in JobIds : hist'[i].dones = hist[i].dones /\ hist'[i].to = hist[i].to
      BY <3>2, <3>3 DEF History
    <3> QED BY <3>3, <3>4, CountedFrame
  <2>3. CASE StartReturns(p) \/ WorkReturns(p) \/ Drain(p) \/ RunWork(p) \/ RunStop(p)
    BY <2>3, CountedFrame DEF StartReturns, WorkReturns, Drain, RunWork, RunStop
  <2>4. CASE RunStale(p) \/ FinishNode(p) \/ Frees(p) \/ Exit(p)
    BY <2>4, CountedFrame DEF RunStale, Crash, FinishNode, Frees, Exit
  <2> QED BY <1>2, <2>1, <2>2, <2>3, <2>4 DEF Exec
<1>3. ASSUME NEW p \in Procs, Waitstops(p) PROVE AllCounted'
  BY <1>3, CountedFrame DEF Waitstops, CallWaitstops, AllStopped, Poll, vars
<1>4. CASE Rest \/ UNCHANGED vars
  BY <1>4, CountedFrame DEF Rest, vars
<1> QED BY <1>1, <1>2, <1>3, <1>4 DEF Next

LEMMA NextSafe ==
  ASSUME SafeUse, IInv, JobInv, AllCounted, SafeInv, [Next]_vars
  PROVE  SafeInv'
<1>0. LegsInv /\ PushInv
  BY DEF JobInv, KnownInv
<1>1. ASSUME NEW p \in Procs, Push(p) PROVE SafeInv'
  <2>1. CASE PushThread(p) \/ PushPool(p) \/ PushLua(p) \/ PushAll(p)
    BY <2>1, PushesOne, StartPushSafe
  <2>2. CASE LockMd(p) \/ AllocNode(p)
    <3>1. LockMd(p) => p \in Threads
      BY DEF LockMd, At, IInv, CallInv
    <3> QED BY <2>2, <3>1, PushMoves, StopperMoves
  <2>3. CASE NullCall(p)
    BY <2>3, StutterSafe DEF NullCall, Crash, mailVars, lifeVars
  <2> QED BY <1>1, <2>1, <2>2, <2>3, UserPushSafe, EnqueueSafe, RejectSafe, NoReject DEF Push
<1>2. ASSUME NEW p \in Threads, Exec(p) PROVE SafeInv'
  <2>1. ~RunStale(p)
    BY <1>0, PendingLive DEF RunStale, HasCurr, At
  <2> QED BY <1>0, <1>2, <2>1, ExecMoves, WorkReturnsSafe, ListSteps DEF Exec
<1>3. ASSUME NEW p \in Procs, Waitstops(p) PROVE SafeInv'
  <2>1. CASE AllStopped(p)
    <3>1. p \notin Threads
      BY <2>1 DEF AllStopped, At, SafeInv, UseInv, ThreadUse, IInv, LifeInv
    <3> QED BY <2>1, <3>1, StopperMoves
  <2>2. CASE Poll(p)
    BY <2>2, StutterSafe DEF Poll, vars, mailVars, lifeVars, SafeInv, OnlyRepeatsRejected
  <2> QED BY <1>3, <2>1, <2>2, CallWaitstopsSafe DEF Waitstops
<1>4. CASE Rest \/ UNCHANGED vars
  BY <1>4, StutterSafe DEF Rest, vars, mailVars, lifeVars, SafeInv, OnlyRepeatsRejected
<1> QED BY <1>1, <1>2, <1>3, <1>4 DEF Next

LEMMA InitSafe == ASSUME Init PROVE SafeInv /\ AllCounted
<1> USE DEF Init
<1>1. \A t \in Threads : pc[t] = "user" /\ ctx[t] = "start" /\ isWorking[t] /\ batch[t] = <<>> /\ queue[t] = <<>>
  BY DEF Procs
<1>2. \A p \in Procs : call[p].kind = "none"
  BY DEF NoCall
<1>3. \A p \in Stoppers : pc[p] = "idle"
  BY ThreadsAssumption DEF Procs
<1>4. UseInv
  BY <1>1, <1>2 DEF UseInv, ThreadUse, CellUse, CallUse, Pushing
<1>5. StopInv
  BY <1>1, <1>2 DEF StopInv, SentInv, StopCallOk, HasStop
<1>6. DownInv
  BY <1>3 DEF DownInv, Stopping
<1>7. OnlyRepeatsRejected
  BY ThreadsAssumption DEF OnlyRepeatsRejected
<1>8. \A j \in JobIds : legs[j] = 0 /\ hist[j].dones = 0 /\ Len(hist[j].to) = 0
  BY EmptySeq DEF Unused
<1>9. AllCounted
  BY <1>8 DEF AllCounted, Counted
<1> QED BY <1>4, <1>5, <1>6, <1>7, <1>9 DEF SafeInv

\* If the pool is used as SafeUse says, no push of a job or a result is ever rejected
\* and no thread is told to stop before it has handled all its work.
THEOREM SafeInductive ==
  ASSUME SafeUse PROVE Spec => [](SafeInv /\ AllCounted)
<1>1. Init => SafeInv /\ AllCounted
  BY InitSafe
<1>2. IInv /\ JobInv /\ SafeInv /\ AllCounted /\ [Next]_vars => (SafeInv /\ AllCounted)'
  BY NextSafe, NextCounted DEF JobInv
<1> QED BY <1>1, <1>2, JobsInductive, PTL DEF Spec

\* The scheduler never touches a job object that is back in its pool, and rejects
\* nothing but the second null job of a thread that is registered twice, if the pool
\* is used as SafeUse says, with any registry.
THEOREM OnlyRepeatsAreRejected ==
  ASSUME SafeUse PROVE Spec => []OnlyRepeatsRejected
<1>1. SafeInv => OnlyRepeatsRejected
  BY DEF SafeInv
<1> QED BY <1>1, SafeInductive, PTL

\* Every done callback runs on the thread that pushed the job, if the pool is used
\* as SafeUse says: only a rejected push of a job runs one elsewhere.
THEOREM DoneComesHome ==
  ASSUME SafeUse PROVE Spec => []DoneAtHome
<1>1. AllCounted /\ JobInv => DoneAtHome
  BY DEF AllCounted, JobInv, KnownInv, HomeInv, DoneAtHome
<1> QED BY <1>1, SafeInductive, JobsInductive, PTL

-----------------------------------------------------------------------------
(* The order of broadcasts.  Work is on a thread in its log, in its batch or *)
(* in its mailbox, and only moves forward.                                 *)

\* Where the work of job j is on thread t, oldest first: its function ran (1), or
\* its node is unstarted in the batch (2) or in the mailbox (3), at index k.
Place(t, s, k, j) ==
    \/ s = 1 /\ k \in DOMAIN trace[t] /\ trace[t][k] = j
    \/ /\ s = 2 /\ k \in DOMAIN batch[t] /\ batch[t][k].kind = "work" /\ batch[t][k].job = j
       /\ k >= pos[t] /\ (k = pos[t] => pc[t] = "next")
    \/ s = 3 /\ k \in DOMAIN queue[t] /\ queue[t][k].kind = "work" /\ queue[t][k].job = j

OnThread(t, j) == \E s \in 1 .. 3, k \in Nat : Place(t, s, k, j)
Before(t, i, j) ==
    \E s, z \in 1 .. 3, k, l \in Nat :
       Place(t, s, k, i) /\ Place(t, z, l, j) /\ (s < z \/ (s = z /\ k < l))

Broadcast(j) == Len(hist[j].to) > 1

\* No broadcast has come to a thread behind job i.
Latest(i) ==
    \A j \in JobIds \ {i} : Broadcast(j) => \A t \in Threads : ~Before(t, i, j)

\* A broadcast that waits for md->mtx_ is on no thread yet; one that is under way
\* holds it and is the latest.
PusherOk(p) ==
    call[p].kind = "work" =>
       /\ pc[p] = "lock" => \A t \in Threads : ~OnThread(t, call[p].job)
       /\ pc[p] \in {"node", "enq", "rej"} /\ Broadcast(call[p].job) =>
             mtx = p /\ Latest(call[p].job)

OneWay(i, j) == \A t, u \in Threads : ~(Before(t, i, j) /\ Before(u, j, i))

OrderInv ==
    /\ \A t \in Threads, j \in JobIds : OnThread(t, j) => hist[j].state # "unused"
    /\ \A p \in Procs : PusherOk(p)
    /\ \A i, j \in JobIds : i # j /\ Broadcast(i) /\ Broadcast(j) => OneWay(i, j)

-----------------------------------------------------------------------------
LEMMA BeforeOn ==
  ASSUME NEW t, NEW i, NEW j, Before(t, i, j)
  PROVE  OnThread(t, i) /\ OnThread(t, j)
BY DEF Before, OnThread

\* A step of p that puts no work on a thread.
LEMMA OrderFrame ==
  ASSUME IInv, OrderInv, NEW p \in Procs,
         \A j \in JobIds : /\ hist'[j].to = hist[j].to
                           /\ hist[j].state # "unused" => hist'[j].state # "unused",
         \A t \in Threads, i, j \in JobIds : Before(t, i, j)' => Before(t, i, j),
         \A t \in Threads, j \in JobIds : OnThread(t, j)' => OnThread(t, j),
         \A q \in Procs \ {p} : pc'[q] = pc[q] /\ call'[q] = call[q] /\ (mtx = q => mtx' = q),
         \/ call'[p].kind # "work"
         \/ pc'[p] \notin {"lock", "node", "enq", "rej"}
         \/ /\ call'[p].kind = call[p].kind /\ call'[p].job = call[p].job
            /\ mtx = p => mtx' = p
            /\ \/ pc[p] = "lock" /\ pc'[p] = "lock"
               \/ {pc[p], pc'[p]} \subseteq {"node", "enq", "rej"}
  PROVE  OrderInv'
<1>1. \A j \in JobIds : Broadcast(j)' <=> Broadcast(j)
  BY DEF Broadcast
<1>2. \A j \in JobIds : Latest(j) => Latest(j)'
  BY <1>1 DEF Latest
<1>3. ASSUME NEW q \in Procs PROVE PusherOk(q)'
  <2>1. PusherOk(q) /\ call[q] \in Call
    BY DEF OrderInv, IInv, TypeOK, ControlType
  <2>2. call[q].kind = "work" => call[q].job \in JobIds
    BY <2>1 DEF Call
  <2>3. CASE q # p
    BY <1>1, <1>2, <2>1, <2>2, <2>3 DEF PusherOk
  <2>4. CASE q = p
    BY <1>1, <1>2, <2>1, <2>2, <2>4 DEF PusherOk
  <2> QED BY <2>3, <2>4
<1>4. \A i, j \in JobIds : i # j /\ Broadcast(i)' /\ Broadcast(j)' => OneWay(i, j)'
  BY <1>1 DEF OrderInv, OneWay
<1> QED BY <1>3, <1>4 DEF OrderInv

\* Places stay places.
LEMMA PlacesKept ==
  ASSUME \A t \in Threads, j \in JobIds : \A s \in 1 .. 3, k \in Nat :
            Place(t, s, k, j)' => Place(t, s, k, j)
  PROVE  /\ \A t \in Threads, i, j \in JobIds : Before(t, i, j)' => Before(t, i, j)
         /\ \A t \in Threads, j \in JobIds : OnThread(t, j)' => OnThread(t, j)
BY DEF Before, OnThread

\* The thread begins with curr: its job is now behind all that ran.
LEMMA RunWorkPlaces ==
  ASSUME IInv, NEW p \in Threads, RunWork(p)
  PROVE  /\ \A t \in Threads, i, j \in JobIds : Before(t, i, j)' => Before(t, i, j)
         /\ \A t \in Threads, j \in JobIds : OnThread(t, j)' => OnThread(t, j)
<1>1. PICK c : c = Curr(p)
  OBVIOUS
<1>2. /\ pc[p] = "next" /\ pos[p] <= Len(batch[p]) /\ c.kind = "work"
      /\ trace' = [trace EXCEPT ![p] = Append(@, c.job)]
      /\ pc' = [pc EXCEPT ![p] = "user"] /\ UNCHANGED <<batch, pos, queue>>
  BY <1>1 DEF RunWork, HasCurr, At, mailVars
<1>3. /\ batch[p] \in Seq(Cell) /\ pos[p] \in Nat \ {0} /\ trace[p] \in Seq(JobIds)
      /\ p \in DOMAIN pc /\ p \in DOMAIN trace
  BY PcDomain DEF IInv, TypeOK, ThreadType, HistoryType, Procs
<1>4. /\ pos[p] \in DOMAIN batch[p] /\ c = batch[p][pos[p]] /\ c.job \in JobIds
  BY <1>1, <1>2, <1>3 DEF Curr, Cell
<1>5. /\ trace'[p] = Append(trace[p], c.job) /\ pc'[p] = "user"
      /\ \A t \in Threads \ {p} : trace'[t] = trace[t] /\ pc'[t] = pc[t]
  BY <1>2, <1>3, PcDomain DEF Procs
<1>6. \A k : k \in DOMAIN trace'[p] => (k \in DOMAIN trace[p] /\ trace'[p][k] = trace[p][k])
                                       \/ (k = Len(trace[p]) + 1 /\ trace'[p][k] = c.job)
  BY <1>3, <1>4, <1>5
<1>7. \A t \in Threads \ {p}, j \in JobIds : \A s, k : Place(t, s, k, j)' => Place(t, s, k, j)
  BY <1>2, <1>5 DEF Place
<1>8. \A j \in JobIds : \A s, k : Place(p, s, k, j)' =>
         \/ Place(p, s, k, j) /\ (s = 2 => k > pos[p]) /\ (s = 1 => k <= Len(trace[p]))
         \/ s = 1 /\ k = Len(trace[p]) + 1 /\ j = c.job
  <2> SUFFICES ASSUME NEW j \in JobIds, NEW s, NEW k, Place(p, s, k, j)'
               PROVE  \/ Place(p, s, k, j) /\ (s = 2 => k > pos[p]) /\ (s = 1 => k <= Len(trace[p]))
                      \/ s = 1 /\ k = Len(trace[p]) + 1 /\ j = c.job
    OBVIOUS
  <2>1. CASE s = 1
    BY <1>3, <1>6, <2>1 DEF Place
  <2>2. CASE s = 2
    BY <1>2, <1>3, <1>5, <2>2 DEF Place
  <2>3. CASE s = 3
    BY <1>2, <2>3 DEF Place
  <2> QED BY <2>1, <2>2, <2>3 DEF Place
<1>9. Place(p, 2, pos[p], c.job)
  BY <1>2, <1>3, <1>4 DEF Place
<1>10. \A t \in Threads, j \in JobIds : OnThread(t, j)' => OnThread(t, j)
  BY <1>3, <1>7, <1>8, <1>9 DEF OnThread
<1>11. ASSUME NEW i \in JobIds, NEW j \in JobIds, Before(p, i, j)' PROVE Before(p, i, j)
  <2>1. PICK s \in 1 .. 3, z \in 1 .. 3, k \in Nat, l \in Nat :
           Place(p, s, k, i)' /\ Place(p, z, l, j)' /\ (s < z \/ (s = z /\ k < l))
    BY <1>11 DEF Before
  <2>2. CASE Place(p, s, k, i) /\ Place(p, z, l, j)
    BY <2>1, <2>2 DEF Before
  <2>3. CASE ~Place(p, s, k, i)
    <3>1. s = 1 /\ k = Len(trace[p]) + 1 /\ i = c.job
      BY <1>8, <2>1, <2>3
    <3>2. Place(p, z, l, j) /\ z \in {2, 3} /\ (z = 2 => pos[p] < l)
      BY <1>3, <1>8, <2>1, <3>1
    <3> QED BY <1>3, <1>9, <3>1, <3>2 DEF Before
  <2>4. CASE ~Place(p, z, l, j) /\ Place(p, s, k, i)
    <3>1. z = 1 /\ l = Len(trace[p]) + 1 /\ j = c.job
      BY <1>8, <2>1, <2>4
    <3>2. s = 1
      BY <2>1, <3>1
    <3> QED BY <1>3, <1>9, <2>4, <3>1, <3>2 DEF Before
  <2> QED BY <2>2, <2>3, <2>4
<1> QED BY <1>7, <1>10, <1>11 DEF Before

\* The mailbox becomes the batch, which was empty.
LEMMA DrainPlaces ==
  ASSUME IInv, NEW p \in Threads, Drain(p)
  PROVE  /\ \A t \in Threads, i, j \in JobIds : Before(t, i, j)' => Before(t, i, j)
         /\ \A t \in Threads, j \in JobIds : OnThread(t, j)' => OnThread(t, j)
<1>1. /\ pc[p] = "loop"
      /\ batch' = [batch EXCEPT ![p] = queue[p]] /\ queue' = [queue EXCEPT ![p] = <<>>]
      /\ pos' = [pos EXCEPT ![p] = 1] /\ UNCHANGED trace
      /\ \A q \in Procs \ {p} : pc'[q] = pc[q]
  BY PcDomain DEF Drain, At, histVars
<1>2. /\ batch'[p] = queue[p] /\ queue'[p] = <<>>
      /\ \A t \in Threads \ {p} : batch'[t] = batch[t] /\ queue'[t] = queue[t] /\ pos'[t] = pos[t]
                                  /\ pc'[t] = pc[t]
  BY <1>1 DEF IInv, TypeOK, ThreadType, Procs
<1>3. batch[p] = <<>>
  BY <1>1 DEF IInv, BatchInv, NoBatch
<1>4. \A t \in Threads \ {p}, j \in JobIds : \A s, k : Place(t, s, k, j)' => Place(t, s, k, j)
  BY <1>1, <1>2 DEF Place
<1>5. \A j \in JobIds : \A s, k : Place(p, s, k, j)' => /\ s \in {1, 2}
                                                        /\ Place(p, IF s = 1 THEN 1 ELSE 3, k, j)
  BY <1>1, <1>2, <1>3 DEF Place
<1>6. \A t \in Threads, j \in JobIds : OnThread(t, j)' => OnThread(t, j)
  BY <1>4, <1>5 DEF OnThread
<1>7. ASSUME NEW i \in JobIds, NEW j \in JobIds, Before(p, i, j)' PROVE Before(p, i, j)
  <2>1. PICK s \in 1 .. 3, z \in 1 .. 3, k \in Nat, l \in Nat :
           Place(p, s, k, i)' /\ Place(p, z, l, j)' /\ (s < z \/ (s = z /\ k < l))
    BY <1>7 DEF Before
  <2>2. /\ Place(p, IF s = 1 THEN 1 ELSE 3, k, i) /\ s \in {1, 2}
        /\ Place(p, IF z = 1 THEN 1 ELSE 3, l, j) /\ z \in {1, 2}
    BY <1>5, <2>1
  <2>3. CASE s = 1 /\ z = 1
    BY <2>1, <2>2, <2>3 DEF Before
  <2>4. CASE s = 1 /\ z = 2
    <3>1. Place(p, 1, k, i) /\ Place(p, 3, l, j)
      BY <2>2, <2>4
    <3> QED BY <3>1 DEF Before
  <2>5. CASE s = 2
    <3>1. Place(p, 3, k, i) /\ Place(p, 3, l, j) /\ k < l
      BY <2>1, <2>2, <2>5
    <3> QED BY <3>1 DEF Before
  <2> QED BY <2>2, <2>3, <2>4, <2>5
<1> QED BY <1>4, <1>6, <1>7 DEF Before

\* The node of job j goes to the mailbox of t, behind everything there.
LEMMA EnqueuePlaces ==
  ASSUME IInv, NEW t \in Threads, NEW c \in Cell, queue' = [queue EXCEPT ![t] = Append(@, c)],
         UNCHANGED <<batch, pos, trace>>,
         \A u \in Threads : pc'[u] = "next" <=> pc[u] = "next"
  PROVE  /\ \A u \in Threads, j \in JobIds :
               OnThread(u, j)' => OnThread(u, j) \/ (c.kind = "work" /\ j = c.job)
         /\ \A u \in Threads, i, j \in JobIds :
               Before(u, i, j)' => \/ Before(u, i, j)
                                   \/ c.kind = "work" /\ j = c.job /\ u = t /\ OnThread(u, i)
         /\ \A u \in Threads, j \in JobIds : OnThread(u, j) => OnThread(u, j)'
         /\ \A u \in Threads, j \in JobIds : OnThread(u, j)' => OnThread(u, j) \/ u = t
         /\ c.kind = "work" => OnThread(t, c.job)'
<1>1. /\ queue[t] \in Seq(Cell) /\ queue'[t] = Append(queue[t], c) /\ Len(queue[t]) \in Nat
      /\ \A u \in Threads \ {t} : queue'[u] = queue[u]
  BY DEF IInv, TypeOK, ThreadType
<1>2. \A k : k \in DOMAIN queue'[t] => \/ k \in DOMAIN queue[t] /\ queue'[t][k] = queue[t][k]
                                       \/ k = Len(queue[t]) + 1 /\ queue'[t][k] = c
  BY <1>1
<1>3. \A k : k \in DOMAIN queue'[t] => k <= Len(queue[t]) + 1
  BY <1>1
<1>4. \A u \in Threads, j \in JobIds : \A s, k : Place(u, s, k, j)' =>
         \/ Place(u, s, k, j)
         \/ u = t /\ s = 3 /\ k = Len(queue[t]) + 1 /\ c.kind = "work" /\ j = c.job
  BY <1>1, <1>2 DEF Place
<1>5. \A j \in JobIds : \A k : Place(t, 3, k, j)' => k <= Len(queue[t]) + 1
  BY <1>3 DEF Place
<1>6. ASSUME NEW u \in Threads, NEW i \in JobIds, NEW j \in JobIds, Before(u, i, j)',
             ~(c.kind = "work" /\ j = c.job /\ u = t)
      PROVE  Before(u, i, j)
  <2>1. PICK s \in 1 .. 3, z \in 1 .. 3, k \in Nat, l \in Nat :
           Place(u, s, k, i)' /\ Place(u, z, l, j)' /\ (s < z \/ (s = z /\ k < l))
    BY <1>6 DEF Before
  <2>2. Place(u, z, l, j)
    BY <1>4, <1>6, <2>1
  <2>3. Place(u, s, k, i)
    <3> SUFFICES ASSUME ~Place(u, s, k, i) PROVE FALSE
      OBVIOUS
    <3>1. u = t /\ s = 3 /\ k = Len(queue[t]) + 1
      BY <1>4, <2>1
    <3>2. z = 3 /\ k < l
      BY <2>1, <3>1
    <3>3. l <= Len(queue[t]) + 1
      BY <1>5, <2>1, <3>1, <3>2
    <3> QED BY <1>1, <3>1, <3>2, <3>3
  <2> QED BY <2>1, <2>2, <2>3 DEF Before
<1>7. ASSUME NEW u \in Threads, NEW i \in JobIds, NEW j \in JobIds, Before(u, i, j)'
      PROVE  OnThread(u, i)
  <2>1. PICK s \in 1 .. 3, z \in 1 .. 3, k \in Nat, l \in Nat :
           Place(u, s, k, i)' /\ Place(u, z, l, j)' /\ (s < z \/ (s = z /\ k < l))
    BY <1>7 DEF Before
  <2>2. Place(u, s, k, i)
    <3> SUFFICES ASSUME ~Place(u, s, k, i) PROVE FALSE
      OBVIOUS
    <3>1. u = t /\ s = 3 /\ k = Len(queue[t]) + 1
      BY <1>4, <2>1
    <3>2. z = 3 /\ k < l
      BY <2>1, <3>1
    <3>3. l <= Len(queue[t]) + 1
      BY <1>5, <2>1, <3>1, <3>2
    <3> QED BY <1>1, <3>1, <3>2, <3>3
  <2> QED BY <2>2 DEF OnThread
<1>8. \A u \in Threads, j \in JobIds : \A s, k : Place(u, s, k, j) => Place(u, s, k, j)'
  <2>1. \A k : k \in DOMAIN queue[t] => k \in DOMAIN queue'[t] /\ queue'[t][k] = queue[t][k]
    BY <1>1
  <2> QED BY <1>1, <2>1 DEF Place
<1>9. c.kind = "work" => \E k \in Nat : Place(t, 3, k, c.job)'
  <2>1. Len(queue[t]) + 1 \in DOMAIN queue'[t] /\ queue'[t][Len(queue[t]) + 1] = c
    BY <1>1
  <2>2. PICK n : n = Len(queue[t]) + 1
    OBVIOUS
  <2>3. Place(t, 3, n, c.job)' <=> n \in DOMAIN queue'[t] /\ queue'[t][n].kind = "work" /\ queue'[t][n].job = c.job
    BY DEF Place
  <2>4. c.kind = "work" => \E k \in Nat : Place(t, 3, k, c.job)'
    BY <1>1, <2>1, <2>2, <2>3
  <2> QED BY <2>4
<1>10. /\ \A u \in Threads, j \in JobIds :
            OnThread(u, j)' => OnThread(u, j) \/ (u = t /\ c.kind = "work" /\ j = c.job)
      /\ \A u \in Threads, j \in JobIds : OnThread(u, j) => OnThread(u, j)'
  BY <1>4, <1>8 DEF OnThread
<1>11. c.kind = "work" => OnThread(t, c.job)'
  BY <1>1, <1>9 DEF OnThread
<1> QED BY <1>6, <1>7, <1>10, <1>11

\* md->mtx_ is released only by its holder, after the last thread.
LEMMA NextTargetMutex ==
  ASSUME IInv, NEW p \in Procs, pc[p] \in {"enq", "rej"}, NextTarget(p)
  PROVE  /\ \A q \in Procs \ {p} : mtx = q => mtx' = q
         /\ \/ call'[p].kind = "none"
            \/ /\ call'[p].kind = call[p].kind /\ call'[p].job = call[p].job
               /\ pc'[p] = "node" /\ mtx' = mtx
<1>1. CASE Len(call[p].to) > 1
  <2>1. PICK rest : rest = [kind |-> call[p].kind, job |-> call[p].job, to |-> Tail(call[p].to)]
    OBVIOUS
  <2>2. call' = [call EXCEPT ![p] = rest] /\ pc' = [pc EXCEPT ![p] = "node"] /\ mtx' = mtx
    BY <1>1, <2>1 DEF NextTarget
  <2> QED BY <2>1, <2>2, PcDomain
<1>2. CASE ~(Len(call[p].to) > 1)
  <2>1. call' = [call EXCEPT ![p] = NoCall] /\ mtx' = IF mtx = p THEN NoProc ELSE mtx
    BY <1>2 DEF NextTarget
  <2> QED BY <2>1, PcDomain DEF NoCall
<1> QED BY <1>1, <1>2

LEMMA EnqueueOrder ==
  ASSUME IInv, KnownInv, OrderInv, NEW p \in Procs, Enqueue(p)
  PROVE  OrderInv'
<1>1. PICK t, c : t = Target(p) /\ c = [kind |-> call[p].kind, job |-> call[p].job, sender |-> p]
  OBVIOUS
<1>2. /\ pc[p] = "enq" /\ NextTarget(p)
      /\ queue' = [queue EXCEPT ![t] = Append(@, c)]
      /\ UNCHANGED <<batch, pos, trace, hist>>
  BY <1>1 DEF Enqueue, At, Link, histVars
<1>3. /\ call[p] \in Call /\ call[p].to \in Seq(Threads) /\ call[p].to # <<>>
      /\ call[p].kind # "none" /\ (call[p].kind \in {"work", "result"} => p \in Threads)
  BY <1>2 DEF IInv, TypeOK, ControlType, Call, CallInv
<1>4. t \in Threads
  BY <1>1, <1>3 DEF Target
<1>5. c \in Cell
  BY <1>1, <1>3 DEF Call, Cell, Procs, NoJob
<1>6. \A q \in Procs \ {p} : pc'[q] = pc[q] /\ call'[q] = call[q]
  BY <1>2, NextTargetCall
<1>7. \A u \in Threads : pc'[u] = "next" <=> pc[u] = "next"
  <2>1. pc[p] # "next" /\ pc'[p] # "next"
    BY <1>2, NextTargetCall
  <2> QED BY <1>6, <2>1 DEF Procs
<1>8. /\ \A u \in Threads, j \in JobIds :
            OnThread(u, j)' => OnThread(u, j) \/ (c.kind = "work" /\ j = c.job)
      /\ \A u \in Threads, i, j \in JobIds :
            Before(u, i, j)' => Before(u, i, j) \/ (c.kind = "work" /\ j = c.job)
  <2>1. \A u \in Threads, i, j \in JobIds :
           Before(u, i, j)' => \/ Before(u, i, j)
                               \/ (c.kind = "work" /\ j = c.job /\ u = t /\ OnThread(u, i))
    BY <1>2, <1>4, <1>5, <1>7, EnqueuePlaces
  <2>2. \A u \in Threads, j \in JobIds :
           OnThread(u, j)' => OnThread(u, j) \/ (c.kind = "work" /\ j = c.job)
    BY <1>2, <1>4, <1>5, <1>7, EnqueuePlaces
  <2> QED BY <2>1, <2>2
<1>9. \A j \in JobIds : Broadcast(j)' <=> Broadcast(j)
  BY <1>2 DEF Broadcast
<1>10. c.kind = "work" => hist[c.job].state # "unused" /\ c.job \in JobIds
  BY <1>1, <1>2, <1>3 DEF KnownInv, PushInv, WorkCallOk, Call
<1>11. \A u \in Threads, j \in JobIds : OnThread(u, j)' => hist'[j].state # "unused"
  BY <1>2, <1>8, <1>10 DEF OrderInv
<1>12. c.kind = "work" /\ Broadcast(c.job) => mtx = p /\ Latest(c.job)
  BY <1>1, <1>2 DEF OrderInv, PusherOk
<1>13. ASSUME NEW i \in JobIds, NEW j \in JobIds, i # j, Broadcast(i)', Broadcast(j)'
       PROVE  OneWay(i, j)'
  <2> SUFFICES ASSUME NEW u \in Threads, NEW v \in Threads, Before(u, i, j)', Before(v, j, i)'
               PROVE  FALSE
    BY DEF OneWay
  <2>1. Broadcast(i) /\ Broadcast(j) /\ OneWay(i, j)
    BY <1>9, <1>13 DEF OrderInv
  <2>2. ~(c.kind = "work" /\ j = c.job)
    <3> SUFFICES ASSUME c.kind = "work", j = c.job PROVE FALSE
      OBVIOUS
    <3>1. ~Before(v, j, i)
      BY <1>12, <1>13, <2>1 DEF Latest
    <3> QED BY <1>8, <1>13, <3>1
  <2>3. ~(c.kind = "work" /\ i = c.job)
    <3> SUFFICES ASSUME c.kind = "work", i = c.job PROVE FALSE
      OBVIOUS
    <3>1. ~Before(u, i, j)
      BY <1>12, <1>13, <2>1 DEF Latest
    <3> QED BY <1>8, <1>13, <3>1
  <2>4. Before(u, i, j) /\ Before(v, j, i)
    BY <1>8, <2>2, <2>3
  <2> QED BY <2>1, <2>4 DEF OneWay
<1>14. ASSUME NEW q \in Procs PROVE PusherOk(q)'
  <2>1. PusherOk(q) /\ call[q] \in Call
    BY DEF OrderInv, IInv, TypeOK, ControlType
  <2>2. call[q].kind = "work" => call[q].job \in JobIds
    BY <2>1 DEF Call
  <2>3. /\ \A r \in Procs \ {p} : mtx = r => mtx' = r
        /\ \/ call'[p].kind = "none"
           \/ /\ call'[p].kind = call[p].kind /\ call'[p].job = call[p].job
              /\ pc'[p] = "node" /\ mtx' = mtx
    BY <1>2, NextTargetMutex
  <2>4. CASE q # p
    <3>1. SUFFICES ASSUME call[q].kind = "work" PROVE PusherOk(q)'
      BY <1>6, <2>4 DEF PusherOk
    <3>2. PICK j \in JobIds : j = call[q].job /\ j = call'[q].job
      BY <1>6, <2>2, <2>4, <3>1
    <3>3. c.kind = "work" => c.job # j
      BY <1>1, <2>4, <3>1, <3>2 DEF KnownInv, PushInv, WorkCallOk
    <3>4. pc[q] = "lock" => \A u \in Threads : ~OnThread(u, j)'
      BY <1>8, <2>1, <3>1, <3>2, <3>3 DEF PusherOk
    <3>5. CASE pc[q] \in {"node", "enq", "rej"} /\ Broadcast(j)
      <4>1. mtx = q /\ Latest(j) /\ mtx' = q
        BY <2>1, <2>3, <2>4, <3>1, <3>2, <3>5 DEF PusherOk
      <4>2. c.kind = "work" => ~Broadcast(c.job)
        BY <1>12, <2>4, <4>1
      <4>3. Latest(j)'
        BY <1>8, <1>9, <4>1, <4>2 DEF Latest
      <4> QED BY <1>6, <2>4, <3>2, <3>4, <3>5, <4>1, <4>3 DEF PusherOk
    <3>6. CASE ~(pc[q] \in {"node", "enq", "rej"} /\ Broadcast(j))
      BY <1>6, <1>9, <2>4, <3>2, <3>4, <3>6 DEF PusherOk
    <3> QED BY <3>5, <3>6
  <2>5. CASE q = p
    <3>1. CASE call'[p].kind = "none"
      BY <2>5, <3>1 DEF PusherOk
    <3>2. CASE call'[p].kind = call[p].kind /\ call'[p].job = call[p].job /\ pc'[p] = "node" /\ mtx' = mtx
      <4>1. SUFFICES ASSUME call[p].kind = "work", Broadcast(call[p].job)
                     PROVE  mtx' = p /\ Latest(call[p].job)'
        BY <1>9, <2>2, <2>5, <3>2 DEF PusherOk
      <4>2. PICK j \in JobIds : j = call[p].job /\ j = call'[p].job /\ j = c.job /\ c.kind = "work"
        BY <1>1, <2>2, <2>5, <3>2, <4>1
      <4>3. mtx = p /\ Latest(j)
        BY <1>12, <4>1, <4>2
      <4>4. Latest(j)'
        BY <1>8, <1>9, <4>2, <4>3 DEF Latest
      <4> QED BY <3>2, <4>2, <4>3, <4>4
    <3> QED BY <2>3, <3>1, <3>2
  <2> QED BY <2>4, <2>5
<1> QED BY <1>11, <1>13, <1>14 DEF OrderInv

LEMMA StartPushOrder ==
  ASSUME IInv, KnownInv, OrderInv, NEW p \in Procs, NEW to \in Seq(Threads),
         NEW next \in {"node", "lock"}, StartPush(p, to, next), GoesTo(to, next)
  PROVE  OrderInv'
<1>0. next = "node" => Len(to) = 1
  BY DEF GoesTo
<1>1. PICK j \in JobIds : j = call[p].job
  BY DEF StartPush, At, IInv, CallInv
<1>2. /\ hist' = [hist EXCEPT ![j] = Pushed(p, to)] /\ pc[p] = "job"
      /\ call' = [call EXCEPT ![p] = [kind |-> "work", job |-> j, to |-> to]]
      /\ pc' = [pc EXCEPT ![p] = next] /\ UNCHANGED <<batch, queue, pos, trace, mtx>>
  BY <1>1 DEF StartPush, At, mailVars
<1>3. call[p].kind = "work" /\ hist[j].state = "unused"
  BY <1>1, <1>2 DEF IInv, CallInv, KnownInv, PushInv, WorkCallOk
<1>4. /\ hist'[j].to = to /\ hist'[j].state = "live"
      /\ \A i \in JobIds \ {j} : hist'[i] = hist[i]
      /\ call'[p].kind = "work" /\ call'[p].job = j /\ pc'[p] = next
      /\ \A q \in Procs \ {p} : call'[q] = call[q] /\ pc'[q] = pc[q]
  BY <1>2, PcDomain DEF IInv, TypeOK, HistoryType, Pushed
<1>5. \A t \in Threads : ~OnThread(t, j)
  BY <1>3 DEF OrderInv
<1>6. \A t \in Threads, i \in JobIds : ~Before(t, i, j) /\ ~Before(t, j, i)
  BY <1>5, BeforeOn
<1>7. \A t \in Threads, i \in JobIds : \A s, k : Place(t, s, k, i)' => Place(t, s, k, i)
  <2>1. \A t \in Threads : pc'[t] = "next" => pc[t] = "next"
    BY <1>2, <1>4 DEF Procs
  <2> QED BY <1>2, <2>1 DEF Place
<1>8. /\ \A t \in Threads, i \in JobIds : OnThread(t, i)' => OnThread(t, i)
      /\ \A t \in Threads, i, k \in JobIds : Before(t, i, k)' => Before(t, i, k)
  BY <1>7 DEF OnThread, Before
<1>9. \A i \in JobIds \ {j} : Broadcast(i)' <=> Broadcast(i)
  BY <1>4 DEF Broadcast
<1>10. \A t \in Threads, i \in JobIds : OnThread(t, i)' => hist'[i].state # "unused"
  BY <1>4, <1>5, <1>8 DEF OrderInv
<1>11. \A i, k \in JobIds : i # k /\ Broadcast(i)' /\ Broadcast(k)' => OneWay(i, k)'
  <2> SUFFICES ASSUME NEW i \in JobIds, NEW k \in JobIds, i # k, Broadcast(i)', Broadcast(k)',
                      NEW t \in Threads, NEW u \in Threads, Before(t, i, k)', Before(u, k, i)'
               PROVE  FALSE
    BY DEF OneWay
  <2>1. Before(t, i, k) /\ Before(u, k, i)
    BY <1>8
  <2>2. i # j /\ k # j
    BY <1>6, <2>1
  <2> QED BY <1>9, <2>1, <2>2 DEF OrderInv, OneWay
<1>12. ASSUME NEW q \in Procs PROVE PusherOk(q)'
  <2>1. CASE q = p
    <3>1. CASE next = "node"
      <4>1. Len(to) = 1 /\ ~(1 > 1)
        BY <1>0, <3>1
      <4> QED BY <4>1, <1>4, <1>5, <1>8, <2>1 DEF PusherOk, Broadcast
    <3>2. CASE next = "lock"
      BY <1>4, <1>5, <1>8, <2>1, <3>2 DEF PusherOk
    <3> QED BY <3>1, <3>2
  <2>2. CASE q # p
    <3>1. PusherOk(q) /\ call[q] \in Call
      BY DEF OrderInv, IInv, TypeOK, ControlType
    <3>2. SUFFICES ASSUME call[q].kind = "work" PROVE PusherOk(q)'
      BY <1>4, <2>2 DEF PusherOk
    <3>3. PICK i \in JobIds : i = call[q].job /\ i = call'[q].job
      BY <1>4, <2>2, <3>1, <3>2 DEF Call
    <3>4. i # j
      <4>1. WorkCallOk(p)
        BY <1>3 DEF KnownInv, PushInv
      <4> QED BY <1>1, <2>2, <3>2, <3>3, <4>1 DEF WorkCallOk
    <3>5. Latest(i) => Latest(i)'
      BY <1>6, <1>8, <1>9 DEF Latest
    <3> QED BY <1>2, <1>4, <1>8, <1>9, <2>2, <3>1, <3>2, <3>3, <3>4, <3>5 DEF PusherOk
  <2> QED BY <2>1, <2>2
<1> QED BY <1>10, <1>11, <1>12 DEF OrderInv

LEMMA LockMdOrder ==
  ASSUME IInv, OrderInv, NEW p \in Procs, LockMd(p)
  PROVE  OrderInv'
<1>1. /\ pc[p] = "lock" /\ pc' = [pc EXCEPT ![p] = "node"] /\ mtx = NoProc /\ mtx' = p
      /\ UNCHANGED <<call, batch, queue, pos, trace, hist>>
  BY DEF LockMd, At, MdIsFree, mailVars, histVars
<1>2. pc'[p] = "node" /\ \A q \in Procs \ {p} : pc'[q] = pc[q]
  BY <1>1, PcDomain
<1>3. \A t \in Threads, i \in JobIds : \A s, k : Place(t, s, k, i)' => Place(t, s, k, i)
  <2>1. \A t \in Threads : pc'[t] = "next" => pc[t] = "next"
    BY <1>2 DEF Procs
  <2> QED BY <1>1, <2>1 DEF Place
<1>4. /\ \A t \in Threads, i \in JobIds : OnThread(t, i)' => OnThread(t, i)
      /\ \A t \in Threads, i, k \in JobIds : Before(t, i, k)' => Before(t, i, k)
  BY <1>3 DEF OnThread, Before
<1>5. \A i \in JobIds : (Broadcast(i)' <=> Broadcast(i)) /\ (Latest(i) => Latest(i)')
  BY <1>1, <1>4 DEF Broadcast, Latest
<1>6. ASSUME NEW q \in Procs PROVE PusherOk(q)'
  <2>1. PusherOk(q) /\ call[q] \in Call
    BY DEF OrderInv, IInv, TypeOK, ControlType
  <2>2. SUFFICES ASSUME call[q].kind = "work" PROVE PusherOk(q)'
    BY <1>1 DEF PusherOk
  <2>3. PICK j \in JobIds : j = call[q].job /\ j = call'[q].job
    BY <1>1, <2>1, <2>2 DEF Call
  <2>4. CASE q = p
    <3>1. \A t \in Threads : ~OnThread(t, j)
      BY <1>1, <2>1, <2>2, <2>3, <2>4 DEF PusherOk
    <3>2. Latest(j)
      BY <3>1, BeforeOn DEF Latest
    <3> QED BY <1>1, <1>2, <1>5, <2>3, <2>4, <3>2 DEF PusherOk
  <2>5. CASE q # p
    <3>1. ~(pc[q] \in {"node", "enq", "rej"} /\ Broadcast(j))
      BY <1>1, <2>1, <2>2, <2>3, ThreadsAssumption DEF PusherOk
    <3> QED BY <1>1, <1>2, <1>4, <1>5, <2>1, <2>2, <2>3, <2>5, <3>1 DEF PusherOk
  <2> QED BY <2>4, <2>5
<1>7. \A i, j \in JobIds : i # j /\ Broadcast(i)' /\ Broadcast(j)' => OneWay(i, j)'
  BY <1>4, <1>5 DEF OrderInv, OneWay
<1> QED BY <1>1, <1>4, <1>6, <1>7 DEF OrderInv

\* What the steps leave of a history.
LEMMA HistTo ==
  ASSUME IInv, KnownInv, EndInv, NEW p \in Procs,
         RejectedDone(p) \/ (p \in Threads /\ (DoneReturns(p) \/ RunDone(p)))
  PROVE  \A j \in JobIds : /\ hist'[j].to = hist[j].to
                           /\ hist[j].state # "unused" => hist'[j].state # "unused"
<1> hist \in [JobIds -> History]
  BY DEF IInv, TypeOK, HistoryType
<1>1. CASE RejectedDone(p)
  <2>1. PICK j, s : /\ j = call[p].job /\ Live(j) /\ s \in {"live", "freed"}
                    /\ hist' = [hist EXCEPT ![j] = Done(j, p, jobEnd[p], s)]
    BY <1>1 DEF RejectedDone
  <2> QED BY <2>1 DEF Done, Live
<1>2. CASE p \in Threads /\ RunDone(p)
  <2>1. PICK j, e : j = Curr(p).job /\ Live(j) /\ hist' = [hist EXCEPT ![j] = Done(j, p, e, "live")]
    BY <1>2 DEF RunDone
  <2> QED BY <2>1 DEF Done, Live
<1>3. CASE p \in Threads /\ DoneReturns(p)
  <2>1. PICK j : j = Curr(p).job
    OBVIOUS
  <2>2. hist' = IF jobEnd[p] THEN [hist EXCEPT ![j].state = "freed"] ELSE hist
    BY <1>3, <2>1 DEF DoneReturns
  <2> QED BY <2>2 DEF History
<1> QED BY <1>1, <1>2, <1>3

\* Only p moves, and the lists stay.
LEMMA MovePlaces ==
  ASSUME NEW p \in Procs, UNCHANGED <<batch, queue, pos, trace>>,
         \A q \in Procs \ {p} : pc'[q] = pc[q], pc'[p] # "next" \/ pc'[p] = pc[p]
  PROVE  /\ \A t \in Threads, i, j \in JobIds : Before(t, i, j)' => Before(t, i, j)
         /\ \A t \in Threads, j \in JobIds : OnThread(t, j)' => OnThread(t, j)
<1>1. \A t \in Threads : pc'[t] = "next" => pc[t] = "next"
  BY DEF Procs
<1>2. \A t \in Threads, j \in JobIds : \A s \in 1 .. 3, k \in Nat :
            Place(t, s, k, j)' => Place(t, s, k, j)
  BY <1>1 DEF Place
<1> QED BY <1>2, PlacesKept

\* Only p moves, and what is on the threads stays.
LEMMA MoveOrder ==
  ASSUME IInv, OrderInv, NEW p \in Procs, UNCHANGED <<batch, queue, pos, trace>>,
         \A j \in JobIds : /\ hist'[j].to = hist[j].to
                           /\ hist[j].state # "unused" => hist'[j].state # "unused",
         \A q \in Procs \ {p} : pc'[q] = pc[q] /\ call'[q] = call[q] /\ (mtx = q => mtx' = q),
         pc'[p] # "next" \/ pc'[p] = pc[p],
         \/ call'[p].kind # "work"
         \/ pc'[p] \notin {"lock", "node", "enq", "rej"}
         \/ /\ call'[p].kind = call[p].kind /\ call'[p].job = call[p].job
            /\ mtx = p => mtx' = p
            /\ \/ pc[p] = "lock" /\ pc'[p] = "lock"
               \/ {pc[p], pc'[p]} \subseteq {"node", "enq", "rej"}
  PROVE  OrderInv'
BY MovePlaces, OrderFrame

LEMMA StutterOrder ==
  ASSUME IInv, OrderInv, UNCHANGED <<batch, queue, pos, trace, hist, pc, call, mtx>>
  PROVE  OrderInv'
<1>1. Main \in Procs
  BY ThreadsAssumption DEF Procs
<1> QED BY <1>1, MoveOrder

\* The steps of a push that put no node anywhere, and of athd_waitstops.
LEMMA PushOrder ==
  ASSUME IInv, KnownInv, EndInv, OrderInv, NEW p \in Procs,
         \/ UserPush(p) \/ AllocNode(p) \/ Reject(p) \/ RejectedDone(p)
         \/ CallWaitstops(p) \/ AllStopped(p)
  PROVE  OrderInv'
<1>1. CASE UserPush(p) \/ CallWaitstops(p)
  <2>1. PICK c, n : /\ call' = [call EXCEPT ![p] = c] /\ pc' = [pc EXCEPT ![p] = n]
                    /\ n = "job" \/ (n = "node" /\ c.kind = "stop")
                    /\ UNCHANGED <<batch, queue, pos, trace, hist, mtx>>
    BY <1>1 DEF UserPush, CallWaitstops, mailVars, histVars
  <2>2. /\ call'[p] = c /\ pc'[p] = n
        /\ \A q \in Procs \ {p} : pc'[q] = pc[q] /\ call'[q] = call[q]
    BY <2>1, PcDomain
  <2> QED BY <2>1, <2>2, MoveOrder
<1>2. CASE AllocNode(p) \/ Reject(p) \/ AllStopped(p)
  <2>1. PICK n \in {"enq", "rej", "gone"} :
           /\ pc' = [pc EXCEPT ![p] = n] /\ (n = "gone" \/ pc[p] \in {"node", "enq"})
           /\ UNCHANGED <<batch, queue, pos, trace, hist, mtx, call>>
    BY <1>2 DEF AllocNode, Reject, AllStopped, At, mailVars, histVars
  <2>2. pc'[p] = n /\ \A q \in Procs \ {p} : pc'[q] = pc[q]
    BY <2>1, PcDomain
  <2> QED BY <2>1, <2>2, MoveOrder
<1>3. CASE RejectedDone(p)
  <2>1. /\ pc[p] = "rej" /\ NextTarget(p) /\ UNCHANGED <<batch, queue, pos, trace>>
    BY <1>3 DEF RejectedDone, At, mailVars
  <2>2. \A q \in Procs \ {p} : call'[q] = call[q] /\ pc'[q] = pc[q]
    BY <2>1, NextTargetCall
  <2>3. pc'[p] # "next"
    BY <2>1, NextTargetCall
  <2>4. /\ \A q \in Procs \ {p} : mtx = q => mtx' = q
        /\ \/ call'[p].kind = "none"
           \/ /\ call'[p].kind = call[p].kind /\ call'[p].job = call[p].job
              /\ pc'[p] = "node" /\ mtx' = mtx
    BY <2>1, NextTargetMutex
  <2> QED BY <1>3, <2>1, <2>2, <2>3, <2>4, HistTo, MoveOrder
<1> QED BY <1>1, <1>2, <1>3

\* The steps of exec() that leave the lists alone.
LEMMA ExecOrder ==
  ASSUME IInv, KnownInv, EndInv, OrderInv, NEW p \in Threads,
         \/ StartReturns(p) \/ WorkReturns(p) \/ DoneReturns(p)
         \/ RunDone(p) \/ RunStop(p) \/ Exit(p)
  PROVE  OrderInv'
<1>0. p \in Procs
  BY DEF Procs
<1>1. UNCHANGED <<batch, queue, pos, trace, mtx>>
  BY DEF StartReturns, WorkReturns, DoneReturns, RunDone, RunStop, Exit, mailVars, histVars
<1>2. \A j \in JobIds : /\ hist'[j].to = hist[j].to
                        /\ hist[j].state # "unused" => hist'[j].state # "unused"
  <2>1. CASE DoneReturns(p) \/ RunDone(p)
    BY <1>0, <2>1, HistTo
  <2>2. CASE StartReturns(p) \/ WorkReturns(p) \/ RunStop(p) \/ Exit(p)
    BY <2>2 DEF StartReturns, WorkReturns, RunStop, Exit, histVars
  <2> QED BY <2>1, <2>2
<1>3. CASE WorkReturns(p)
  <2>1. PICK c : c = [kind |-> "result", job |-> Curr(p).job, to |-> <<ReplyTo(p)>>]
    OBVIOUS
  <2>3. /\ call' = [call EXCEPT ![p] = c] /\ pc' = [pc EXCEPT ![p] = "node"]
        /\ c.kind = "result"
    BY <1>3, <2>1 DEF WorkReturns
  <2>2. /\ call'[p] = c /\ pc'[p] = "node"
        /\ \A q \in Procs \ {p} : pc'[q] = pc[q] /\ call'[q] = call[q]
    BY <1>0, <2>3, PcDomain
  <2> QED BY <1>0, <1>1, <1>2, <2>3, <2>2, MoveOrder
<1>4. CASE StartReturns(p) \/ DoneReturns(p) \/ RunDone(p) \/ RunStop(p) \/ Exit(p)
  <2>1. PICK n \in {"loop", "fin", "user", "idle", "gone"} :
           pc' = [pc EXCEPT ![p] = n] /\ call' = call
    BY <1>4 DEF StartReturns, DoneReturns, RunDone, RunStop, Exit
  <2>2. pc'[p] = n /\ \A q \in Procs \ {p} : pc'[q] = pc[q]
    BY <1>0, <2>1, PcDomain
  <2> QED BY <1>0, <1>1, <1>2, <2>1, <2>2, MoveOrder
<1> QED BY <1>3, <1>4

\* The steps of exec() that change what is on the thread.
LEMMA ListPlaces ==
  ASSUME IInv, NEW p \in Threads, RunWork(p) \/ Drain(p) \/ FinishNode(p) \/ Frees(p)
  PROVE  /\ \A t \in Threads, i, j \in JobIds : Before(t, i, j)' => Before(t, i, j)
         /\ \A t \in Threads, j \in JobIds : OnThread(t, j)' => OnThread(t, j)
<1>0. \A q \in Procs \ {p} : pc'[q] = pc[q]
  BY PcDomain DEF Procs, RunWork, Drain, FinishNode, Frees
<1>1. CASE RunWork(p)
  BY <1>1, RunWorkPlaces
<1>2. CASE Drain(p)
  BY <1>2, DrainPlaces
<1>3. CASE FinishNode(p)
  <2>1. /\ pc[p] = "fin" /\ pos' = [pos EXCEPT ![p] = @ + 1] /\ UNCHANGED <<batch, queue, trace>>
    BY <1>3 DEF FinishNode, At, histVars
  <2>2. /\ pos'[p] = pos[p] + 1 /\ pos[p] \in Nat
        /\ \A t \in Threads \ {p} : pos'[t] = pos[t] /\ pc'[t] = pc[t]
    BY <1>0, <2>1 DEF IInv, TypeOK, ThreadType, Procs
  <2>3. \A t \in Threads, j \in JobIds : \A s \in 1 .. 3, k \in Nat :
           Place(t, s, k, j)' => Place(t, s, k, j)
    <3> SUFFICES ASSUME NEW t \in Threads, NEW j \in JobIds, NEW s \in 1 .. 3, NEW k \in Nat,
                        Place(t, s, k, j)'
                 PROVE  Place(t, s, k, j)
      OBVIOUS
    <3>1. CASE t = p
      <4>1. k >= pos[p] + 1 => k >= pos[p] /\ k # pos[p]
        BY <2>2
      <4> QED BY <2>1, <2>2, <3>1, <4>1 DEF Place
    <3>2. CASE t # p
      BY <2>1, <2>2, <3>2 DEF Place
    <3> QED BY <3>1, <3>2
  <2> QED BY <2>3, PlacesKept
<1>4. CASE Frees(p)
  <2>1. /\ batch' = [batch EXCEPT ![p] = <<>>] /\ pos' = [pos EXCEPT ![p] = 1]
        /\ UNCHANGED <<queue, trace>>
    BY <1>4 DEF Frees, histVars
  <2>2. /\ batch'[p] = <<>>
        /\ \A t \in Threads \ {p} : pos'[t] = pos[t] /\ pc'[t] = pc[t] /\ batch'[t] = batch[t]
    BY <1>0, <2>1 DEF IInv, TypeOK, ThreadType, Procs
  <2>3. \A t \in Threads, j \in JobIds : \A s \in 1 .. 3, k \in Nat :
           Place(t, s, k, j)' => Place(t, s, k, j)
    BY <2>1, <2>2 DEF Place
  <2> QED BY <2>3, PlacesKept
<1> QED BY <1>1, <1>2, <1>3, <1>4

LEMMA ListOrder ==
  ASSUME IInv, OrderInv, NEW p \in Threads,
         RunWork(p) \/ Drain(p) \/ FinishNode(p) \/ Frees(p)
  PROVE  OrderInv'
<1>1. p \in Procs /\ UNCHANGED <<hist, call, mtx>>
  BY DEF Procs, RunWork, Drain, FinishNode, Frees, histVars
<1>2. pc'[p] \in {"user", "next", "exit", "loop"} /\ \A q \in Procs \ {p} : pc'[q] = pc[q]
  BY <1>1, PcDomain DEF RunWork, Drain, FinishNode, Frees
<1> QED BY <1>1, <1>2, ListPlaces, OrderFrame

LEMMA NextOrder ==
  ASSUME IInv, JobInv, OrderInv, [Next]_vars
  PROVE  OrderInv'
<1>0. KnownInv /\ EndInv
  BY DEF JobInv
<1>1. ASSUME NEW p \in Procs, Push(p) PROVE OrderInv'
  <2>1. CASE PushThread(p) \/ PushPool(p) \/ PushLua(p) \/ PushAll(p)
    BY <1>0, <2>1, PushesOne, StartPushOrder
  <2>2. CASE NullCall(p) \/ RejectedStale(p)
    BY <2>2, StutterOrder DEF NullCall, RejectedStale, Crash, mailVars, histVars
  <2> QED BY <1>0, <1>1, <2>1, <2>2, LockMdOrder, EnqueueOrder, PushOrder DEF Push
<1>2. ASSUME NEW p \in Threads, Exec(p) PROVE OrderInv'
  <2>1. CASE RunStale(p)
    BY <2>1, StutterOrder DEF RunStale, Crash, mailVars, histVars
  <2> QED BY <1>0, <1>2, <2>1, ExecOrder, ListOrder DEF Exec
<1>3. ASSUME NEW p \in Procs, Waitstops(p) PROVE OrderInv'
  <2>1. CASE Poll(p)
    BY <2>1, StutterOrder DEF Poll, vars, mailVars, histVars
  <2> QED BY <1>0, <1>3, <2>1, PushOrder DEF Waitstops
<1>4. CASE Rest \/ UNCHANGED vars
  BY <1>4, StutterOrder DEF Rest, vars, mailVars, histVars
<1> QED BY <1>1, <1>2, <1>3, <1>4 DEF Next

LEMMA InitOrder == ASSUME Init PROVE OrderInv
<1> USE DEF Init
<1>1. \A t \in Threads, j \in JobIds : \A s, k : ~Place(t, s, k, j)
  BY DEF Place
<1>2. \A p \in Procs : PusherOk(p)
  BY DEF PusherOk, NoCall
<1> QED BY <1>1, <1>2 DEF OrderInv, OnThread, OneWay, Before

\* Where a job is in the log of a thread.
LEMMA PositionIs ==
  ASSUME NEW t, NEW j, j \in Range(trace[t])
  PROVE  Position(j, t) \in DOMAIN trace[t] /\ trace[t][Position(j, t)] = j
BY DEF Position, Range

LEMMA OrderHolds == IInv /\ OrderInv => BroadcastOrder
<1> SUFFICES ASSUME IInv, OrderInv, NEW i \in JobIds, NEW j \in JobIds,
                    NEW t \in Threads, NEW u \in Threads,
                    {i, j} \subseteq Range(trace[t]), {i, j} \subseteq Range(trace[u]),
                    Broadcast(i), Broadcast(j), RanBefore(i, j, t)
             PROVE  RanBefore(i, j, u)
  BY DEF BroadcastOrder, Broadcast
<1>1. \A v \in {t, u}, k \in {i, j} :
         /\ Position(k, v) \in Nat /\ Place(v, 1, Position(k, v), k)
         /\ trace[v][Position(k, v)] = k
  <2> SUFFICES ASSUME NEW v \in {t, u}, NEW k \in {i, j}
               PROVE  /\ Position(k, v) \in Nat /\ Place(v, 1, Position(k, v), k)
                      /\ trace[v][Position(k, v)] = k
    OBVIOUS
  <2>1. Position(k, v) \in DOMAIN trace[v] /\ trace[v][Position(k, v)] = k
    BY PositionIs
  <2>2. trace[v] \in Seq(JobIds)
    BY DEF IInv, TypeOK, HistoryType
  <2> QED BY <2>1, <2>2 DEF Place
<1>2. Position(i, t) < Position(j, t)
  BY DEF RanBefore
<1>3. Before(t, i, j)
  BY <1>1, <1>2 DEF Before
<1>4. i # j
  BY <1>1, <1>2
<1>5. ~Before(u, j, i)
  BY <1>3, <1>4 DEF OrderInv, OneWay
<1>6. ~(Position(j, u) < Position(i, u))
  BY <1>1, <1>5 DEF Before
<1>7. Position(i, u) # Position(j, u)
  BY <1>1, <1>4
<1> QED BY <1>1, <1>6, <1>7 DEF RanBefore

\* Any two broadcasts run in the same order on every thread that runs both, because
\* the pusher holds md->mtx_ from its first mailbox to its last; whatever stops.
THEOREM BroadcastsAreOrdered == Spec => []BroadcastOrder
<1>1. Init => OrderInv
  BY InitOrder
<1>2. IInv /\ JobInv /\ OrderInv /\ [Next]_vars => OrderInv'
  BY NextOrder
<1> QED BY <1>1, <1>2, OrderHolds, JobsInductive, PTL DEF Spec

-----------------------------------------------------------------------------
(* Every job comes to each of its targets once, in the order of its pusher. *)

NoRepeat(to) == \A i, k \in DOMAIN to : to[i] = to[k] => i = k

\* A job goes to a thread at most once.
DistinctTargets ==
    /\ "lua" \in Ops => NoRepeat(LuaThreads)
    /\ "all" \in Ops => NoRepeat(AllThreads)

Submitted(j) == hist[j].state # "unused"

\* Process p still has to push job j to thread t.
Sending(p, j, t) ==
    call[p].kind = "work" /\ call[p].job = j /\ \E k \in DOMAIN call[p].to : call[p].to[k] = t

\* Each job comes to each of its targets once.
OnceInv ==
    /\ \A t \in Threads, j \in JobIds : OnThread(t, j) => t \in Targets(j)
    /\ \A t \in Threads, j \in JobIds : ~Before(t, j, j)
    /\ \A p \in Procs, j \in JobIds, t \in Threads :
          Sending(p, j, t) => t \in Targets(j) /\ ~OnThread(t, j)
    /\ \A p \in Procs : call[p].kind = "work" => NoRepeat(call[p].to)
    /\ \A j \in JobIds : Submitted(j) => NoRepeat(hist[j].to)

\* It is there or its pusher still has to bring it.
SentToAll ==
    \A j \in JobIds, t \in Threads :
       Submitted(j) /\ t \in Targets(j) => OnThread(t, j) \/ Sending(hist[j].by, j, t)

\* The job that p pushes is its latest.
Newest(p) ==
    call[p].kind = "work" =>
       \A j \in JobIds : Submitted(j) /\ hist[j].by = p => j <= call[p].job

\* An earlier job of the same sender is on the thread, and not behind the later one.
FifoInv ==
    \A i, j \in JobIds, t \in Threads :
       /\ i < j /\ Submitted(i) /\ hist[i].by = hist[j].by
       /\ t \in Targets(i) /\ OnThread(t, j)
       => OnThread(t, i) /\ ~Before(t, j, i)

DeliveryInv == OnceInv /\ SentToAll /\ (\A p \in Procs : Newest(p)) /\ FifoInv

\* job_count_ counts the done callbacks down.
CountInv ==
    \A j \in JobIds :
       Submitted(j) =>
          /\ legs[j] + hist[j].dones = Len(hist[j].to)
          /\ hist[j].finals > 0 <=> legs[j] = 0

ContractInv == DeliveryInv /\ CountInv

-----------------------------------------------------------------------------
\* No job comes to a thread; a process that keeps nothing to push may change its call.
LEMMA DeliveryFrame ==
  ASSUME IInv, DeliveryInv,
         \A j \in JobIds : /\ hist'[j].to = hist[j].to /\ hist'[j].by = hist[j].by
                           /\ Submitted(j)' <=> Submitted(j),
         \A t \in Threads, j \in JobIds : OnThread(t, j)' <=> OnThread(t, j),
         \A t \in Threads, i, j \in JobIds : Before(t, i, j)' => Before(t, i, j),
         \A q \in Procs : \/ call'[q] = call[q]
                          \/ /\ call[q].to = <<>>
                             /\ call'[q].to = <<>> \/ call'[q].kind # "work"
                             /\ Newest(q)'
  PROVE  DeliveryInv'
<1>1. \A j \in JobIds : Targets(j)' = Targets(j)
  BY DEF Targets
<1>2. \A q \in Procs, j \in JobIds, t \in Threads : Sending(q, j, t)' => Sending(q, j, t)
  BY DEF Sending
<1>3. \A q, j, t : Sending(q, j, t) /\ q \in Procs => Sending(q, j, t)'
  BY DEF Sending
<1>4. \A q \in Procs : call'[q].kind = "work" => NoRepeat(call'[q].to)
  BY DEF DeliveryInv, OnceInv, NoRepeat
<1>5. OnceInv'
  BY <1>1, <1>2, <1>4 DEF DeliveryInv, OnceInv, Submitted
<1>6. SentToAll'
  <2>1. \A j \in JobIds : hist[j].by \in Procs
    BY DEF IInv, TypeOK, HistoryType, History
  <2> QED BY <1>1, <1>3, <2>1 DEF DeliveryInv, SentToAll
<1>7. \A q \in Procs : Newest(q)'
  BY DEF DeliveryInv, Newest
<1>8. FifoInv'
  BY <1>1 DEF DeliveryInv, FifoInv
<1> QED BY <1>5, <1>6, <1>7, <1>8 DEF DeliveryInv

\* Only p moves, and not away from a work node that it has not started.
LEMMA MoveStays ==
  ASSUME IInv, NEW p \in Procs, UNCHANGED <<batch, queue, pos, trace>>,
         \A q \in Procs \ {p} : pc'[q] = pc[q],
         pc[p] # "next" \/ (p \in Threads /\ Curr(p).kind # "work")
  PROVE  \A t \in Threads, j \in JobIds : OnThread(t, j) => OnThread(t, j)'
<1>1. \A t \in Threads, j \in JobIds : \A s \in 1 .. 3, k \in Nat :
            Place(t, s, k, j) => Place(t, s, k, j)'
  <2>1. \A t \in Threads : pc[t] = "next" => pc'[t] = "next" \/ Curr(t).kind # "work"
    BY DEF Procs
  <2> QED BY <2>1 DEF Place, Curr
<1> QED BY <1>1 DEF OnThread

\* What is on a thread stays on it.
LEMMA ListStays ==
  ASSUME IInv, NEW p \in Threads, RunWork(p) \/ Drain(p) \/ FinishNode(p) \/ Frees(p)
  PROVE  \A t \in Threads, j \in JobIds : OnThread(t, j) => OnThread(t, j)'
<1>0. \A q \in Procs \ {p} : pc'[q] = pc[q]
  BY PcDomain DEF Procs, RunWork, Drain, FinishNode, Frees
<1>1. CASE RunWork(p)
  <2>1. PICK c : c = Curr(p)
    OBVIOUS
  <2>2. /\ trace' = [trace EXCEPT ![p] = Append(@, c.job)]
        /\ UNCHANGED <<batch, pos, queue>>
    BY <1>1, <2>1 DEF RunWork, mailVars
  <2>3. /\ batch[p] \in Seq(Cell) /\ pos[p] \in Nat \ {0} /\ trace[p] \in Seq(JobIds) /\ pos[p] <= Len(batch[p])
        /\ c = batch[p][pos[p]] /\ c.job \in JobIds
    <3>1. /\ batch[p] \in Seq(Cell) /\ pos[p] \in Nat \ {0} /\ trace[p] \in Seq(JobIds) /\ pos[p] <= Len(batch[p])
      BY <1>1 DEF IInv, TypeOK, ThreadType, HistoryType, RunWork, HasCurr
    <3> QED BY <1>1, <2>1, <3>1 DEF Curr, Cell, RunWork
  <2>4. trace'[p] = Append(trace[p], c.job) /\ \A t \in Threads \ {p} : trace'[t] = trace[t]
    BY <2>2 DEF IInv, TypeOK, HistoryType
  <2>5. /\ \A k : k \in DOMAIN trace[p] => k \in DOMAIN trace'[p] /\ trace'[p][k] = trace[p][k]
        /\ Len(trace[p]) + 1 \in DOMAIN trace'[p] /\ trace'[p][Len(trace[p]) + 1] = c.job
    BY <2>3, <2>4
  <2>6. \E k \in Nat : Place(p, 1, k, c.job)'
    BY <2>3, <2>5 DEF Place
  <2>7. \A t \in Threads \ {p}, j \in JobIds : \A s \in 1 .. 3, k \in Nat :
            Place(t, s, k, j) => Place(t, s, k, j)'
    BY <1>0, <2>2, <2>4 DEF Place, Procs
  <2>8. \A j \in JobIds : \A s \in 1 .. 3, k \in Nat :
            Place(p, s, k, j) => Place(p, s, k, j)' \/ j = c.job
    BY <2>2, <2>3, <2>5 DEF Place
  <2> QED BY <2>6, <2>7, <2>8 DEF OnThread
<1>2. CASE Drain(p)
  <2>1. /\ pc[p] = "loop" /\ pc' = [pc EXCEPT ![p] = IF LoopEnds(p) THEN "exit" ELSE "next"]
        /\ batch' = [batch EXCEPT ![p] = queue[p]] /\ queue' = [queue EXCEPT ![p] = <<>>]
        /\ pos' = [pos EXCEPT ![p] = 1] /\ UNCHANGED trace
    BY <1>2 DEF Drain, At, histVars
  <2>2. /\ batch'[p] = queue[p] /\ pos'[p] = 1 /\ queue[p] \in Seq(Cell)
        /\ \A t \in Threads \ {p} : batch'[t] = batch[t] /\ queue'[t] = queue[t] /\ pos'[t] = pos[t]
                                    /\ pc'[t] = pc[t]
    BY <1>0, <2>1 DEF IInv, TypeOK, ThreadType, Procs
  <2>3. batch[p] = <<>>
    BY <2>1 DEF IInv, BatchInv, NoBatch
  <2>4. queue[p] # <<>> => pc'[p] = "next"
    BY <2>1, PcDomain DEF LoopEnds, Procs
  <2>5. \A t \in Threads \ {p}, j \in JobIds : \A s \in 1 .. 3, k \in Nat :
            Place(t, s, k, j) => Place(t, s, k, j)'
    BY <2>1, <2>2 DEF Place
  <2>6. \A j \in JobIds : \A s \in 1 .. 3, k \in Nat :
            Place(p, s, k, j) => Place(p, IF s = 3 THEN 2 ELSE s, k, j)'
    <3> SUFFICES ASSUME NEW j \in JobIds, NEW s \in 1 .. 3, NEW k \in Nat, Place(p, s, k, j)
                 PROVE  Place(p, IF s = 3 THEN 2 ELSE s, k, j)'
      OBVIOUS
    <3>1. CASE s = 1
      BY <2>1, <3>1 DEF Place
    <3>2. CASE s = 2
      BY <2>3, <3>2 DEF Place
    <3>3. CASE s = 3
      <4>1. k \in DOMAIN queue[p] /\ queue[p] # <<>> /\ k >= 1
        BY <2>2, <3>3 DEF Place
      <4> QED BY <2>2, <2>4, <3>3, <4>1 DEF Place
    <3> QED BY <3>1, <3>2, <3>3
  <2> QED BY <2>5, <2>6 DEF OnThread
<1>3. CASE FinishNode(p)
  <2>1. /\ pc[p] = "fin" /\ pos' = [pos EXCEPT ![p] = @ + 1] /\ UNCHANGED <<batch, queue, trace>>
        /\ pc'[p] = "next"
    BY <1>3, PcDomain DEF FinishNode, At, histVars, Procs
  <2>2. /\ pos'[p] = pos[p] + 1 /\ pos[p] \in Nat
        /\ \A t \in Threads \ {p} : pos'[t] = pos[t] /\ pc'[t] = pc[t]
    BY <1>0, <2>1 DEF IInv, TypeOK, ThreadType, Procs
  <2>3. \A t \in Threads, j \in JobIds : \A s \in 1 .. 3, k \in Nat :
           Place(t, s, k, j) => Place(t, s, k, j)'
    <3> SUFFICES ASSUME NEW t \in Threads, NEW j \in JobIds, NEW s \in 1 .. 3, NEW k \in Nat,
                        Place(t, s, k, j)
                 PROVE  Place(t, s, k, j)'
      OBVIOUS
    <3>1. CASE t = p
      <4>1. k >= pos[p] /\ k # pos[p] => k >= pos[p] + 1
        BY <2>2
      <4> QED BY <2>1, <2>2, <3>1, <4>1 DEF Place
    <3>2. CASE t # p
      BY <2>1, <2>2, <3>2 DEF Place
    <3> QED BY <3>1, <3>2
  <2> QED BY <2>3 DEF OnThread
<1>4. CASE Frees(p)
  <2>1. /\ batch' = [batch EXCEPT ![p] = <<>>] /\ pos' = [pos EXCEPT ![p] = 1]
        /\ UNCHANGED <<queue, trace>> /\ pos[p] > Len(batch[p])
    BY <1>4 DEF Frees, histVars
  <2>2. /\ \A t \in Threads \ {p} : pos'[t] = pos[t] /\ pc'[t] = pc[t] /\ batch'[t] = batch[t]
        /\ batch[p] \in Seq(Cell) /\ pos[p] \in Nat
    BY <1>0, <2>1 DEF IInv, TypeOK, ThreadType, Procs
  <2>3. \A t \in Threads, j \in JobIds : \A s \in 1 .. 3, k \in Nat :
           Place(t, s, k, j) => Place(t, s, k, j)'
    <3>1. \A k \in DOMAIN batch[p] : ~(k >= pos[p])
      BY <2>1, <2>2
    <3> QED BY <2>1, <2>2, <3>1 DEF Place
  <2> QED BY <2>3 DEF OnThread
<1> QED BY <1>1, <1>2, <1>3, <1>4

\* The end of a done callback and its start leave what a job was pushed to and by whom.
LEMMA SamePush ==
  ASSUME IInv, EndInv, NEW p \in Threads, DoneReturns(p) \/ RunDone(p)
  PROVE  \A j \in JobIds : /\ hist'[j].to = hist[j].to /\ hist'[j].by = hist[j].by
                           /\ Submitted(j)' <=> Submitted(j)
<1> hist \in [JobIds -> History]
  BY DEF IInv, TypeOK, HistoryType
<1>1. CASE RunDone(p)
  <2>1. PICK j, e : j = Curr(p).job /\ Live(j) /\ hist' = [hist EXCEPT ![j] = Done(j, p, e, "live")]
    BY <1>1 DEF RunDone
  <2> QED BY <2>1 DEF Done, Live, Submitted
<1>2. CASE DoneReturns(p)
  <2>1. PICK j : j = Curr(p).job
    OBVIOUS
  <2>2. /\ hist' = IF jobEnd[p] THEN [hist EXCEPT ![j].state = "freed"] ELSE hist
        /\ pc[p] = "user" /\ ctx[p] = "done"
    BY <1>2, <2>1 DEF DoneReturns, At
  <2>3. jobEnd[p] => Live(j)
    BY <2>1, <2>2 DEF EndInv, Ending, Busy
  <2> QED BY <2>2, <2>3 DEF History, Submitted, Live
<1> QED BY <1>1, <1>2

LEMMA ExecDelivery ==
  ASSUME IInv, KnownInv, EndInv, DeliveryInv, NEW p \in Threads, Exec(p), ~RunStale(p)
  PROVE  DeliveryInv'
<1>0. p \in Procs
  BY DEF Procs
<1>1. \A j \in JobIds : /\ hist'[j].to = hist[j].to /\ hist'[j].by = hist[j].by
                        /\ Submitted(j)' <=> Submitted(j)
  <2>1. CASE DoneReturns(p) \/ RunDone(p)
    BY <2>1, SamePush
  <2>2. CASE ~DoneReturns(p) /\ ~RunDone(p)
    <3>1. hist' = hist
      BY <2>2 DEF Exec, StartReturns, WorkReturns, Drain, RunWork, RunStop, FinishNode, Frees, Exit, histVars
    <3> QED BY <3>1 DEF Submitted
  <2> QED BY <2>1, <2>2
<1>2. \A q \in Procs \ {p} : pc'[q] = pc[q]
  <2>1. CASE StartReturns(p) \/ WorkReturns(p) \/ DoneReturns(p) \/ Drain(p) \/ RunWork(p)
    BY <2>1, PcDomain DEF StartReturns, WorkReturns, DoneReturns, Drain, RunWork
  <2>2. CASE RunDone(p) \/ RunStop(p) \/ FinishNode(p) \/ Frees(p) \/ Exit(p)
    BY <2>2, PcDomain DEF RunDone, RunStop, FinishNode, Frees, Exit
  <2> QED BY <2>1, <2>2 DEF Exec
<1>3. /\ \A t \in Threads, j \in JobIds : OnThread(t, j)' <=> OnThread(t, j)
      /\ \A t \in Threads, i, j \in JobIds : Before(t, i, j)' => Before(t, i, j)
  <2>1. CASE RunWork(p) \/ Drain(p) \/ FinishNode(p) \/ Frees(p)
    BY <2>1, ListPlaces, ListStays
  <2>2. CASE StartReturns(p) \/ WorkReturns(p) \/ DoneReturns(p) \/ RunDone(p) \/ RunStop(p) \/ Exit(p)
    <3>1. /\ UNCHANGED <<batch, queue, pos, trace>>
          /\ pc'[p] # "next"
      BY <1>0, <2>2, PcDomain DEF StartReturns, WorkReturns, DoneReturns, RunDone, RunStop, Exit, mailVars, histVars
    <3>2. pc[p] # "next" \/ (p \in Threads /\ Curr(p).kind # "work")
      BY <2>2 DEF StartReturns, WorkReturns, DoneReturns, RunDone, RunStop, Exit, At
    <3> QED BY <1>0, <1>2, <3>1, <3>2, MovePlaces, MoveStays
  <2> QED BY <2>1, <2>2 DEF Exec
<1>4. CASE WorkReturns(p)
  <2>1. PICK c : c = [kind |-> "result", job |-> Curr(p).job, to |-> <<ReplyTo(p)>>]
    OBVIOUS
  <2>2. call' = [call EXCEPT ![p] = c] /\ c.kind = "result" /\ pc[p] = "user"
    BY <1>4, <2>1 DEF WorkReturns, At
  <2>3. call'[p] = c /\ \A q \in Procs \ {p} : call'[q] = call[q]
    BY <1>0, <2>2, PcDomain
  <2>4. call[p].to = <<>>
    BY <1>0, <2>2 DEF KnownInv, PushInv
  <2>5. Newest(p)'
    BY <2>2, <2>3 DEF Newest
  <2> QED BY <1>1, <1>3, <2>2, <2>3, <2>4, <2>5, DeliveryFrame
<1>5. CASE ~WorkReturns(p)
  <2>1. call' = call
    BY <1>5 DEF Exec, StartReturns, DoneReturns, RunDone, Drain, RunWork, RunStop, FinishNode, Frees, Exit
  <2> QED BY <1>1, <1>3, <2>1, DeliveryFrame
<1> QED BY <1>4, <1>5

LEMMA StutterDelivery ==
  ASSUME IInv, DeliveryInv, UNCHANGED <<batch, queue, pos, trace, hist, pc, call>>
  PROVE  DeliveryInv'
<1>1. Main \in Procs
  BY ThreadsAssumption DEF Procs
<1>2. \A t \in Threads, j \in JobIds : OnThread(t, j)' <=> OnThread(t, j)
  BY DEF OnThread, Place
<1>3. \A t \in Threads, i, j \in JobIds : Before(t, i, j)' => Before(t, i, j)
  BY <1>1, MovePlaces
<1> QED BY <1>2, <1>3, DeliveryFrame DEF Submitted

LEMMA PushDelivery ==
  ASSUME IInv, KnownInv, DeliveryInv, NEW p \in Procs,
         \/ UserPush(p) \/ LockMd(p) \/ AllocNode(p) \/ Reject(p)
         \/ CallWaitstops(p) \/ AllStopped(p)
  PROVE  DeliveryInv'
<1>1. /\ UNCHANGED <<batch, queue, pos, trace, hist>>
      /\ \A q \in Procs \ {p} : pc'[q] = pc[q] /\ call'[q] = call[q]
      /\ pc[p] # "next" /\ pc'[p] # "next"
  <2>1. CASE UserPush(p) \/ LockMd(p)
    BY <2>1, PcDomain DEF UserPush, LockMd, At, mailVars, histVars
  <2>2. CASE AllocNode(p) \/ CallWaitstops(p) \/ AllStopped(p)
    BY <2>2, PcDomain DEF AllocNode, CallWaitstops, AllStopped, At, mailVars, histVars
  <2>3. CASE Reject(p)
    BY <2>3, PcDomain DEF Reject, At, mailVars, histVars
  <2> QED BY <2>1, <2>2, <2>3
<1>2. /\ \A t \in Threads, j \in JobIds : OnThread(t, j)' <=> OnThread(t, j)
      /\ \A t \in Threads, i, j \in JobIds : Before(t, i, j)' => Before(t, i, j)
  BY <1>1, MovePlaces, MoveStays
<1>3. CASE UserPush(p)
  <2>1. PICK c : c = [kind |-> "work", job |-> pushes + 1, to |-> <<>>]
    OBVIOUS
  <2>2. call'[p] = c /\ c.to = <<>> /\ c.job = pushes + 1 /\ pc[p] = "user"
    BY <1>3, <2>1, PcDomain DEF UserPush, At
  <2>3. call[p].to = <<>>
    BY <2>2 DEF KnownInv, PushInv
  <2>4. \A j \in JobIds : Submitted(j) => j <= pushes + 1
    <3> SUFFICES ASSUME NEW j \in JobIds, Submitted(j) PROVE j <= pushes + 1
      OBVIOUS
    <3>1. ~(j > pushes) /\ pushes \in Nat /\ j \in Nat
      BY BoundsAssumption DEF KnownInv, FreshInv, Submitted, IInv, TypeOK, PoolType, JobIds
    <3> QED BY <3>1
  <2>5. Newest(p)'
    BY <1>1, <2>2, <2>4 DEF Newest, Submitted
  <2> QED BY <1>1, <1>2, <2>2, <2>3, <2>5, DeliveryFrame DEF Submitted
<1>4. CASE CallWaitstops(p)
  <2>1. call'[p].kind = "stop" /\ pc[p] = "idle"
    BY <1>4, PcDomain DEF CallWaitstops, At
  <2>2. call[p].to = <<>>
    BY <2>1 DEF KnownInv, PushInv
  <2>3. Newest(p)'
    BY <2>1 DEF Newest
  <2> QED BY <1>1, <1>2, <2>1, <2>2, <2>3, DeliveryFrame DEF Submitted
<1>5. CASE LockMd(p) \/ AllocNode(p) \/ Reject(p) \/ AllStopped(p)
  <2>1. call' = call
    BY <1>5 DEF LockMd, AllocNode, Reject, AllStopped
  <2> QED BY <1>1, <1>2, <2>1, DeliveryFrame DEF Submitted
<1> QED BY <1>3, <1>4, <1>5

LEMMA StartPushDelivery ==
  ASSUME DistinctTargets, IInv, KnownInv, OrderInv, DeliveryInv, NEW p \in Procs,
         NEW to \in Seq(Threads), NEW next \in {"node", "lock"}, StartPush(p, to, next),
         GoesTo(to, next)
  PROVE  DeliveryInv'
<1>0. NoRepeat(to)
  BY DEF GoesTo, DistinctTargets, NoRepeat
<1>1. PICK j \in JobIds : j = call[p].job
  BY DEF StartPush, At, IInv, CallInv
<1>2. /\ hist' = [hist EXCEPT ![j] = Pushed(p, to)] /\ pc[p] = "job"
      /\ call' = [call EXCEPT ![p] = [kind |-> "work", job |-> j, to |-> to]]
      /\ pc' = [pc EXCEPT ![p] = next] /\ UNCHANGED <<batch, queue, pos, trace>>
  BY <1>1 DEF StartPush, At, mailVars
<1>3. call[p].kind = "work" /\ ~Submitted(j) /\ call[p].to = <<>>
  BY <1>1, <1>2 DEF IInv, CallInv, KnownInv, PushInv, WorkCallOk, Submitted
<1>4. /\ hist'[j].to = to /\ hist'[j].by = p /\ Submitted(j)'
      /\ \A i \in JobIds \ {j} : hist'[i] = hist[i]
      /\ call'[p].kind = "work" /\ call'[p].job = j /\ call'[p].to = to
      /\ \A q \in Procs \ {p} : call'[q] = call[q] /\ pc'[q] = pc[q]
      /\ pc'[p] # "next"
  BY <1>2, PcDomain DEF IInv, TypeOK, HistoryType, Pushed, Submitted
<1>5. /\ \A t \in Threads, i \in JobIds : OnThread(t, i)' <=> OnThread(t, i)
      /\ \A t \in Threads, i, k \in JobIds : Before(t, i, k)' => Before(t, i, k)
  BY <1>2, <1>4, MovePlaces, MoveStays
<1>6. \A t \in Threads, i \in JobIds : OnThread(t, i) => Submitted(i)
  BY DEF OrderInv, Submitted
<1>7. \A i \in JobIds \ {j} : (Submitted(i)' <=> Submitted(i)) /\ Targets(i)' = Targets(i)
  BY <1>4 DEF Submitted, Targets
<1>8. \A t \in Threads : t \in Targets(j)' <=> \E k \in DOMAIN to : to[k] = t
  BY <1>4 DEF Targets, Range
<1>9. \A q \in Procs \ {p} : call[q].kind = "work" => call[q].job # j
  <2>1. WorkCallOk(p)
    BY <1>3 DEF KnownInv, PushInv
  <2> QED BY <1>1, <2>1 DEF WorkCallOk
<1>10. /\ \A t \in Threads : Sending(p, j, t)' <=> t \in Targets(j)'
       /\ \A t \in Threads, i \in JobIds \ {j} : ~Sending(p, i, t) /\ ~Sending(p, i, t)'
       /\ \A q \in Procs \ {p}, t \in Threads : ~Sending(q, j, t)'
       /\ \A q \in Procs \ {p}, t \in Threads, i \in JobIds : Sending(q, i, t)' <=> Sending(q, i, t)
  BY <1>3, <1>4, <1>8, <1>9 DEF Sending
<1>11. OnceInv'
  <2>1. \A t \in Threads, i \in JobIds : OnThread(t, i)' => t \in Targets(i)'
    BY <1>3, <1>5, <1>6, <1>7 DEF DeliveryInv, OnceInv
  <2>2. \A t \in Threads, i \in JobIds : ~Before(t, i, i)'
    BY <1>5 DEF DeliveryInv, OnceInv
  <2>3. \A q \in Procs, i \in JobIds, t \in Threads :
           Sending(q, i, t)' => t \in Targets(i)' /\ ~OnThread(t, i)'
    BY <1>3, <1>5, <1>6, <1>7, <1>10 DEF DeliveryInv, OnceInv
  <2>4. \A q \in Procs : call'[q].kind = "work" => NoRepeat(call'[q].to)
    BY <1>0, <1>4 DEF DeliveryInv, OnceInv
  <2>5. \A i \in JobIds : Submitted(i)' => NoRepeat(hist'[i].to)
    BY <1>0, <1>4, <1>7 DEF DeliveryInv, OnceInv
  <2> QED BY <2>1, <2>2, <2>3, <2>4, <2>5 DEF OnceInv
<1>12. SentToAll'
  <2> SUFFICES ASSUME NEW i \in JobIds, NEW t \in Threads, Submitted(i)', t \in Targets(i)'
               PROVE  OnThread(t, i)' \/ Sending(hist[i].by, i, t)'
    BY DEF SentToAll
  <2>1. CASE i = j
    BY <1>4, <1>10, <2>1
  <2>2. CASE i # j
    <3>1. OnThread(t, i) \/ Sending(hist[i].by, i, t)
      BY <1>7, <2>2 DEF DeliveryInv, SentToAll
    <3>2. hist[i].by \in Procs
      BY DEF IInv, TypeOK, HistoryType, History
    <3> QED BY <1>4, <1>5, <1>10, <2>2, <3>1, <3>2
  <2> QED BY <2>1, <2>2
<1>13. \A q \in Procs : Newest(q)'
  <2> SUFFICES ASSUME NEW q \in Procs, call'[q].kind = "work", NEW i \in JobIds, Submitted(i)', hist'[i].by = q
               PROVE  i <= call'[q].job
    BY DEF Newest
  <2>1. j \in Int
    BY DEF JobIds
  <2>2. CASE i = j
    BY <1>4, <2>1, <2>2
  <2>3. CASE i # j
    BY <1>1, <1>3, <1>4, <1>7, <2>3 DEF DeliveryInv, Newest
  <2> QED BY <2>2, <2>3
<1>14. FifoInv'
  <2> SUFFICES ASSUME NEW i \in JobIds, NEW k \in JobIds, NEW t \in Threads, i < k, Submitted(i)',
                      hist'[i].by = hist'[k].by, t \in Targets(i)', OnThread(t, k)'
               PROVE  OnThread(t, i)' /\ ~Before(t, k, i)'
    BY DEF FifoInv
  <2>1. OnThread(t, k) /\ Submitted(k) /\ k # j
    BY <1>3, <1>5, <1>6
  <2>2. i # j
    <3> SUFFICES ASSUME i = j PROVE FALSE
      OBVIOUS
    <3>1. hist[k].by = p
      BY <1>4, <2>1
    <3>2. k <= j
      BY <1>1, <1>3, <2>1, <3>1 DEF DeliveryInv, Newest
    <3> QED BY <3>2 DEF JobIds
  <2>3. OnThread(t, i) /\ ~Before(t, k, i)
    BY <1>4, <1>7, <2>1, <2>2 DEF DeliveryInv, FifoInv
  <2> QED BY <1>5, <2>3
<1> QED BY <1>11, <1>12, <1>13, <1>14 DEF DeliveryInv

LEMMA EnqueueDelivery ==
  ASSUME IInv, KnownInv, DeliveryInv, NEW p \in Procs, Enqueue(p)
  PROVE  DeliveryInv'
<1>1. PICK t, c : t = Target(p) /\ c = [kind |-> call[p].kind, job |-> call[p].job, sender |-> p]
  OBVIOUS
<1>2. /\ pc[p] = "enq" /\ NextTarget(p)
      /\ queue' = [queue EXCEPT ![t] = Append(@, c)]
      /\ UNCHANGED <<batch, pos, trace, hist>>
  BY <1>1 DEF Enqueue, At, Link, histVars
<1>3. /\ call[p] \in Call /\ call[p].to \in Seq(Threads) /\ call[p].to # <<>>
      /\ call[p].kind # "none" /\ (call[p].kind \in {"work", "result"} => p \in Threads)
  BY <1>2 DEF IInv, TypeOK, ControlType, Call, CallInv
<1>4. PICK j, to : j = call[p].job /\ to = call[p].to /\ to \in Seq(Threads)
  BY <1>3
<1>5. /\ t \in Threads /\ 1 \in DOMAIN to /\ t = to[1]
      /\ \A i \in DOMAIN Tail(to) : i + 1 \in DOMAIN to /\ i + 1 # 1 /\ Tail(to)[i] = to[i + 1]
  BY <1>1, <1>3, <1>4, TailOf DEF Target
<1>6. c \in Cell
  BY <1>1, <1>3 DEF Call, Cell, Procs, NoJob
<1>7. /\ pc'[p] # "next"
      /\ \A q \in Procs \ {p} : call'[q] = call[q] /\ pc'[q] = pc[q]
      /\ \/ call'[p].kind = call[p].kind /\ call'[p].job = j /\ call'[p].to = Tail(to)
         \/ call'[p].kind = "none" /\ call'[p].to = <<>> /\ ~(Len(to) > 1)
  <2>1. /\ \A q \in Procs \ {p} : call'[q] = call[q] /\ pc'[q] = pc[q]
        /\ \/ call'[p].kind = call[p].kind /\ call'[p].to = Tail(to) /\ pc'[p] = "node"
           \/ /\ call'[p].kind = "none" /\ call'[p].to = <<>> /\ ~(Len(to) > 1)
              /\ pc'[p] \in {"fin", "spin", "user"}
    BY <1>2, <1>4, NextTargetCall
  <2>2. call'[p].kind = "none" \/ call'[p].job = j
    BY <1>2, <1>4, NextTargetMutex
  <2> QED BY <1>3, <2>1, <2>2
<1>8. c.kind = call[p].kind /\ c.job = j
  BY <1>1, <1>4
<1>9. \A u \in Threads : pc'[u] = "next" <=> pc[u] = "next"
  BY <1>2, <1>7 DEF Procs
<1>10. /\ \A u \in Threads, i \in JobIds : OnThread(u, i) => OnThread(u, i)'
       /\ \A u \in Threads, i \in JobIds : OnThread(u, i)' => OnThread(u, i) \/ u = t
       /\ c.kind = "work" => OnThread(t, c.job)'
  BY <1>2, <1>5, <1>6, <1>9, EnqueuePlaces
<1>11. \A u \in Threads, i \in JobIds : OnThread(u, i)' => OnThread(u, i) \/ (c.kind = "work" /\ i = c.job)
  BY <1>2, <1>5, <1>6, <1>9, EnqueuePlaces
<1>12. \A u \in Threads, i, k \in JobIds :
          Before(u, i, k)' => \/ Before(u, i, k)
                              \/ (c.kind = "work" /\ k = c.job /\ u = t /\ OnThread(u, i))
  <2>1. t \in Threads /\ queue' = [queue EXCEPT ![t] = Append(@, c)] /\ UNCHANGED <<batch, pos, trace>>
    BY <1>2, <1>5
  <2>2. \A u \in Threads, a, b \in JobIds :
           Before(u, a, b)' => \/ Before(u, a, b)
                               \/ (c.kind = "work" /\ b = c.job /\ u = t /\ OnThread(u, a))
    BY <1>6, <1>9, <2>1, EnqueuePlaces
  <2> QED BY <2>2
<1>13. call[p].kind = "work" =>
          /\ j \in JobIds /\ WorkCallOk(p) /\ NoRepeat(to) /\ Sending(p, j, t)
          /\ Submitted(j) /\ hist[j].by = p
  BY <1>2, <1>3, <1>4, <1>5 DEF Call, KnownInv, PushInv, WorkCallOk, Submitted, DeliveryInv, OnceInv, Sending
<1>14. call[p].kind = "work" => t \in Targets(j) /\ ~OnThread(t, j)
  BY <1>5, <1>13 DEF DeliveryInv, OnceInv
<1>15. \A u \in Threads, i \in JobIds : Sending(p, i, u)' => Sending(p, i, u) /\ u # t
  <2> SUFFICES ASSUME NEW u \in Threads, NEW i \in JobIds, Sending(p, i, u)' PROVE Sending(p, i, u) /\ u # t
    OBVIOUS
  <2>1. /\ call'[p].kind = "work" /\ call[p].kind = "work" /\ call'[p].job = j /\ i = j
        /\ call'[p].to = Tail(to)
    BY <1>7 DEF Sending
  <2>2. PICK k \in DOMAIN Tail(to) : Tail(to)[k] = u
    BY <2>1 DEF Sending
  <2>3. k + 1 \in DOMAIN to /\ k + 1 # 1 /\ to[k + 1] = u
    BY <1>5, <2>2
  <2>4. to[k + 1] # to[1]
    BY <1>5, <1>13, <2>1, <2>3 DEF NoRepeat
  <2> QED BY <1>4, <1>5, <2>1, <2>3, <2>4 DEF Sending
<1>16. \A u \in Threads, i \in JobIds : Sending(p, i, u) => Sending(p, i, u)' \/ (u = t /\ i = j)
  <2> SUFFICES ASSUME NEW u \in Threads, NEW i \in JobIds, Sending(p, i, u), u # t PROVE Sending(p, i, u)'
    BY <1>4 DEF Sending
  <2>1. PICK k \in DOMAIN to : to[k] = u
    BY <1>4 DEF Sending
  <2>2. k # 1
    BY <1>5, <2>1
  <2>3. Len(to) > 1 /\ k - 1 \in DOMAIN Tail(to) /\ Tail(to)[k - 1] = u
    BY <1>4, <2>1, <2>2
  <2> QED BY <1>4, <1>7, <2>3 DEF Sending
<1>17. \A q \in Procs \ {p}, u \in Threads, i \in JobIds : Sending(q, i, u)' <=> Sending(q, i, u)
  BY <1>7 DEF Sending
<1>18. \A i \in JobIds : (Submitted(i)' <=> Submitted(i)) /\ Targets(i)' = Targets(i)
  BY <1>2 DEF Submitted, Targets
<1>19. OnceInv'
  <2>1. \A u \in Threads, i \in JobIds : OnThread(u, i)' => u \in Targets(i)'
    BY <1>8, <1>10, <1>11, <1>14, <1>18 DEF DeliveryInv, OnceInv
  <2>2. \A u \in Threads, i \in JobIds : ~Before(u, i, i)'
    BY <1>8, <1>12, <1>14 DEF DeliveryInv, OnceInv
  <2>3. \A q \in Procs, i \in JobIds, u \in Threads :
           Sending(q, i, u)' => u \in Targets(i)' /\ ~OnThread(u, i)'
    <3> SUFFICES ASSUME NEW q \in Procs, NEW i \in JobIds, NEW u \in Threads, Sending(q, i, u)'
                 PROVE  u \in Targets(i)' /\ ~OnThread(u, i)'
      OBVIOUS
    <3>1. Sending(q, i, u) /\ (q = p => u # t)
      BY <1>15, <1>17
    <3>2. u \in Targets(i) /\ ~OnThread(u, i)
      BY <3>1 DEF DeliveryInv, OnceInv
    <3>3. OnThread(u, i)' => q # p /\ c.kind = "work" /\ i = j
      BY <1>8, <1>10, <1>11, <3>1, <3>2
    <3>4. q # p /\ call[p].kind = "work" => ~(call[q].kind = "work" /\ call[q].job = j)
      BY <1>4, <1>13 DEF WorkCallOk
    <3> QED BY <1>8, <1>18, <3>1, <3>2, <3>3, <3>4 DEF Sending
  <2>4. \A q \in Procs : call'[q].kind = "work" => NoRepeat(call'[q].to)
    <3>1. call'[p].kind = "work" => NoRepeat(Tail(to))
      <4> SUFFICES ASSUME call'[p].kind = "work", NEW i \in DOMAIN Tail(to), NEW k \in DOMAIN Tail(to),
                          Tail(to)[i] = Tail(to)[k]
                   PROVE  i = k
        BY DEF NoRepeat
      <4>1. i + 1 = k + 1
        BY <1>5, <1>7, <1>13 DEF NoRepeat
      <4> QED BY <1>4, <1>5, <4>1, TailOf
    <3> QED BY <1>7, <3>1 DEF DeliveryInv, OnceInv
  <2>5. \A i \in JobIds : Submitted(i)' => NoRepeat(hist'[i].to)
    BY <1>2, <1>18 DEF DeliveryInv, OnceInv
  <2> QED BY <2>1, <2>2, <2>3, <2>4, <2>5 DEF OnceInv
<1>20. SentToAll'
  <2> SUFFICES ASSUME NEW i \in JobIds, NEW u \in Threads, Submitted(i), u \in Targets(i)
               PROVE  OnThread(u, i)' \/ Sending(hist[i].by, i, u)'
    BY <1>2, <1>18 DEF SentToAll
  <2>1. OnThread(u, i) \/ Sending(hist[i].by, i, u)
    BY DEF DeliveryInv, SentToAll
  <2>2. hist[i].by \in Procs
    BY DEF IInv, TypeOK, HistoryType, History
  <2>3. Sending(p, i, u) => call[p].kind = "work"
    BY DEF Sending
  <2>4. CASE hist[i].by = p
    BY <1>2, <1>8, <1>10, <1>16, <2>1, <2>3, <2>4
  <2>5. CASE hist[i].by # p
    BY <1>2, <1>10, <1>17, <2>1, <2>2, <2>5
  <2> QED BY <2>4, <2>5
<1>21. \A q \in Procs : Newest(q)'
  <2>1. \A q \in Procs : call'[q].kind = "work" => call[q].kind = "work" /\ call'[q].job = call[q].job
    BY <1>4, <1>7
  <2> QED BY <1>2, <1>18, <2>1 DEF DeliveryInv, Newest
<1>22. FifoInv'
  <2> SUFFICES ASSUME NEW i \in JobIds, NEW k \in JobIds, NEW u \in Threads, i < k, Submitted(i),
                      hist[i].by = hist[k].by, u \in Targets(i), OnThread(u, k)'
               PROVE  OnThread(u, i)' /\ ~Before(u, k, i)'
    BY <1>2, <1>18 DEF FifoInv
  <2>1. CASE OnThread(u, k)
    <3>1. OnThread(u, i) /\ ~Before(u, k, i)
      BY <2>1 DEF DeliveryInv, FifoInv
    <3>2. Before(u, k, i)' => c.kind = "work" /\ i = j /\ u = t
      BY <1>8, <1>12, <3>1
    <3> QED BY <1>8, <1>10, <1>14, <3>1, <3>2
  <2>2. CASE ~OnThread(u, k)
    <3>1. c.kind = "work" /\ call[p].kind = "work" /\ k = j /\ u = t
      BY <1>8, <1>10, <1>11, <2>2
    <3>2. i # j
      BY <3>1 DEF JobIds
    <3>3. ~Sending(p, i, u)
      BY <1>4, <3>2 DEF Sending
    <3>4. OnThread(u, i)
      BY <1>13, <3>1, <3>3 DEF DeliveryInv, SentToAll
    <3>5. ~Before(u, k, i)
      BY <2>2, BeforeOn
    <3> QED BY <1>8, <1>10, <1>12, <3>2, <3>4, <3>5
  <2> QED BY <2>1, <2>2
<1> QED BY <1>19, <1>20, <1>21, <1>22 DEF DeliveryInv

LEMMA NextDelivery ==
  ASSUME DistinctTargets, IInv, JobInv, SafeInv, AllCounted, OrderInv, DeliveryInv, [Next]_vars
  PROVE  DeliveryInv'
<1>0. KnownInv /\ EndInv /\ LegsInv /\ PushInv
  BY DEF JobInv, KnownInv
<1>1. ASSUME NEW p \in Procs, Push(p) PROVE DeliveryInv'
  <2>1. CASE PushThread(p) \/ PushPool(p) \/ PushLua(p) \/ PushAll(p)
    BY <1>0, <2>1, PushesOne, StartPushDelivery
  <2>2. CASE NullCall(p)
    BY <2>2, StutterDelivery DEF NullCall, Crash, mailVars, histVars
  <2> QED BY <1>0, <1>1, <2>1, <2>2, NoReject, EnqueueDelivery, PushDelivery DEF Push
<1>2. ASSUME NEW p \in Threads, Exec(p) PROVE DeliveryInv'
  <2>1. ~RunStale(p)
    BY <1>0, PendingLive DEF RunStale, HasCurr, At
  <2> QED BY <1>0, <1>2, <2>1, ExecDelivery
<1>3. ASSUME NEW p \in Procs, Waitstops(p) PROVE DeliveryInv'
  <2>1. CASE Poll(p)
    BY <2>1, StutterDelivery DEF Poll, vars, mailVars, histVars
  <2> QED BY <1>0, <1>3, <2>1, PushDelivery DEF Waitstops
<1>4. CASE Rest \/ UNCHANGED vars
  BY <1>4, StutterDelivery DEF Rest, vars, mailVars, histVars
<1> QED BY <1>1, <1>2, <1>3, <1>4 DEF Next

\* The job that a process starts to push.
LEMMA StartPushCount ==
  ASSUME IInv, KnownInv, CountInv, NEW p \in Procs,
         NEW to \in Seq(Threads) \ {<<>>}, NEW next \in {"node", "lock"}, StartPush(p, to, next)
  PROVE  CountInv'
<1>1. PICK j \in JobIds : j = call[p].job
  BY DEF StartPush, At, IInv, CallInv
<1>2. hist' = [hist EXCEPT ![j] = Pushed(p, to)] /\ legs' = [legs EXCEPT ![j] = Len(to)]
  BY <1>1 DEF StartPush, JobCountOf
<1>3. /\ hist'[j].to = to /\ hist'[j].dones = 0 /\ hist'[j].finals = 0 /\ legs'[j] = Len(to)
      /\ \A i \in JobIds \ {j} : hist'[i] = hist[i] /\ legs'[i] = legs[i]
  BY <1>2 DEF IInv, TypeOK, HistoryType, PoolType, Pushed
<1>4. Len(to) \in Nat /\ Len(to) # 0 /\ 0 \in Nat
  OBVIOUS
<1>5. /\ legs'[j] + hist'[j].dones = Len(hist'[j].to)
      /\ hist'[j].finals > 0 <=> legs'[j] = 0
  BY <1>3, <1>4
<1> QED BY <1>3, <1>5 DEF CountInv, Submitted

LEMMA RunDoneCount ==
  ASSUME IInv, LegsInv, CountInv, NEW p \in Threads, RunDone(p)
  PROVE  CountInv'
<1>1. PICK j, e : j = Curr(p).job /\ e = IsEnd(legs[j] - 1)
  OBVIOUS
<1>2. /\ Live(j) /\ legs' = [legs EXCEPT ![j] = legs[j] - 1] /\ j \in JobIds
      /\ hist' = [hist EXCEPT ![j] = Done(j, p, e, "live")] /\ pc[p] = "next"
      /\ pos[p] <= Len(batch[p])
  BY <1>1 DEF RunDone, HasCurr, At, Live
<1>3. hist[j] \in History /\ legs[j] \in Int
  BY <1>2 DEF IInv, TypeOK, HistoryType, PoolType
<1>4. legs[j] > 0
  BY <1>1, <1>2, PendingLegs DEF CurrPending
<1>5. legs[j] + hist[j].dones = Len(hist[j].to) /\ ~(hist[j].finals > 0)
  BY <1>2, <1>4 DEF CountInv, Submitted, Live
<1>6. /\ hist'[j].to = hist[j].to /\ hist'[j].dones = hist[j].dones + 1 /\ legs'[j] = legs[j] - 1
      /\ hist'[j].finals = IF e THEN hist[j].finals + 1 ELSE hist[j].finals
      /\ \A i \in JobIds \ {j} : hist'[i] = hist[i] /\ legs'[i] = legs[i]
  BY <1>2 DEF IInv, TypeOK, HistoryType, PoolType, Done
<1>7. e <=> legs[j] - 1 = 0
  BY <1>1 DEF IsEnd
<1>8. /\ legs'[j] + hist'[j].dones = Len(hist'[j].to)
      /\ hist'[j].finals > 0 <=> legs'[j] = 0
  <2>1. hist[j].dones \in Nat /\ hist[j].finals \in Nat
    BY <1>3 DEF History
  <2>2. legs'[j] + hist'[j].dones = legs[j] + hist[j].dones
    BY <1>3, <1>6, <2>1
  <2> QED BY <1>3, <1>5, <1>6, <1>7, <2>1, <2>2
<1> QED BY <1>6, <1>8 DEF CountInv, Submitted

LEMMA NextCount ==
  ASSUME IInv, JobInv, SafeInv, CountInv, [Next]_vars
  PROVE  CountInv'
<1>0. KnownInv /\ EndInv /\ LegsInv /\ PushInv
  BY DEF JobInv, KnownInv
<1>1. UNCHANGED <<hist, legs>> => CountInv'
  BY DEF CountInv, Submitted
<1>2. ASSUME NEW p \in Procs, Push(p) PROVE CountInv'
  <2>1. CASE PushThread(p) \/ PushPool(p) \/ PushLua(p) \/ PushAll(p)
    BY <1>0, <2>1, PushesOne, StartPushCount
  <2>2. CASE UserPush(p) \/ LockMd(p) \/ AllocNode(p) \/ Enqueue(p)
    BY <1>1, <2>2 DEF UserPush, LockMd, AllocNode, Enqueue, jobVars, histVars
  <2>3. CASE Reject(p) \/ NullCall(p)
    BY <1>1, <2>3 DEF Reject, NullCall, Crash, jobVars, histVars
  <2> QED BY <1>0, <1>2, <2>1, <2>2, <2>3, NoReject DEF Push
<1>3. ASSUME NEW p \in Threads, Exec(p) PROVE CountInv'
  <2>1. CASE RunDone(p)
    BY <1>0, <2>1, RunDoneCount
  <2>2. CASE DoneReturns(p)
    <3>1. PICK j : j = Curr(p).job
      OBVIOUS
    <3>2. hist' = IF jobEnd[p] THEN [hist EXCEPT ![j].state = "freed"] ELSE hist
      BY <2>2, <3>1 DEF DoneReturns
    <3>3. \A i \in JobIds : /\ hist'[i].to = hist[i].to /\ hist'[i].dones = hist[i].dones
                            /\ hist'[i].finals = hist[i].finals
      BY <3>2 DEF IInv, TypeOK, HistoryType, History
    <3>4. \A i \in JobIds : Submitted(i)' <=> Submitted(i)
      BY <1>0, <2>2, SamePush
    <3>5. legs' = legs
      BY <2>2 DEF DoneReturns
    <3> QED BY <3>3, <3>4, <3>5 DEF CountInv
  <2>3. CASE ~RunDone(p) /\ ~DoneReturns(p)
    BY <1>1, <1>3, <2>3 DEF Exec, StartReturns, WorkReturns, Drain, RunWork, RunStop, RunStale, Crash,
       FinishNode, Frees, Exit, jobVars, histVars
  <2> QED BY <2>1, <2>2, <2>3
<1>4. ASSUME NEW p \in Procs, Waitstops(p) PROVE CountInv'
  BY <1>1, <1>4 DEF Waitstops, CallWaitstops, AllStopped, Poll, vars, jobVars, histVars
<1>5. CASE Rest \/ UNCHANGED vars
  BY <1>1, <1>5 DEF Rest, vars, jobVars, histVars
<1> QED BY <1>2, <1>3, <1>4, <1>5 DEF Next

LEMMA InitContract == ASSUME Init PROVE ContractInv
<1> USE DEF Init
<1>1. \A t \in Threads, j \in JobIds : \A s, k : ~Place(t, s, k, j)
  BY DEF Place
<1>2. \A p \in Procs : call[p].kind = "none"
  BY DEF NoCall
<1>3. \A j \in JobIds : ~Submitted(j)
  BY DEF Submitted, Unused
<1>4. \A p \in Procs : call[p].kind # "work"
  BY <1>2
<1>5. OnceInv
  BY <1>1, <1>3, <1>4 DEF OnceInv, OnThread, Before, Sending
<1>6. SentToAll /\ (\A p \in Procs : Newest(p)) /\ FifoInv
  BY <1>3, <1>4 DEF SentToAll, Newest, FifoInv
<1> QED BY <1>3, <1>5, <1>6 DEF ContractInv, DeliveryInv, CountInv

\* Where each job is and how often it was called back, in every reachable state.
THEOREM ContractInductive ==
  ASSUME SafeUse, DistinctTargets PROVE Spec => []ContractInv
<1>1. Init => ContractInv /\ OrderInv
  BY InitContract, InitOrder
<1>2. IInv /\ JobInv /\ SafeInv /\ AllCounted /\ OrderInv /\ ContractInv /\ [Next]_vars
         => (OrderInv /\ ContractInv)'
  BY NextDelivery, NextCount, NextOrder DEF ContractInv
<1> QED BY <1>1, <1>2, JobsInductive, SafeInductive, PTL DEF Spec

-----------------------------------------------------------------------------
(* The refinement of JobContract.                                          *)

\* A list without repetitions has as many members as entries.
LEMMA RangeSize ==
  ASSUME NEW to \in Seq(Threads), NoRepeat(to)
  PROVE  IsFiniteSet(Range(to)) /\ Cardinality(Range(to)) = Len(to)
<1>1. Len(to) \in Nat /\ DOMAIN to = 1 .. Len(to)
  OBVIOUS
<1>2. to \in Bijection(1 .. Len(to), Range(to))
  <2>1. to \in [1 .. Len(to) -> Range(to)]
    BY <1>1 DEF Range
  <2>2. \A y \in Range(to) : \E x \in 1 .. Len(to) : to[x] = y
    BY <1>1 DEF Range
  <2> QED BY <1>1, <2>1, <2>2 DEF Bijection, Injection, Surjection, IsInjective, NoRepeat
<1>3. IsFiniteSet(1 .. Len(to)) /\ Cardinality(1 .. Len(to)) = Len(to)
  <2>1. IsFiniteSet(1 .. Len(to)) /\ Cardinality(1 .. Len(to)) = IF 1 > Len(to) THEN 0 ELSE Len(to) - 1 + 1
    BY <1>1, FS_Interval
  <2> QED BY <1>1, <2>1
<1> QED BY <1>2, <1>3, FS_Bijection DEF ExistsBijection

\* Threads that are told apart by a place in S are at most as many as S.
LEMMA OnePlaceEach ==
  ASSUME NEW M, NEW S, IsFiniteSet(S), NEW f \in [M -> S], \A a, b \in M : f[a] = f[b] => a = b
  PROVE  IsFiniteSet(M) /\ Cardinality(M) <= Cardinality(S)
<1>1. f \in Injection(M, S)
  BY DEF Injection, IsInjective
<1> QED BY <1>1, FS_Injection

\* The threads that wait for job j: it is in their batch, in their mailbox, or its
\* pusher has not come to them.
LEMMA Waiting ==
  ASSUME IInv, LegsInv, NEW j \in JobIds, NEW p \in Threads, pos[p] <= Len(batch[p]),
         pc[p] = "next", Curr(p).kind = "result", Curr(p).job = j
  PROVE  LET B == {t \in Threads : \E k \in Nat : Place(t, 2, k, j)}
             Q == {t \in Threads : \E k \in Nat : Place(t, 3, k, j)}
         IN  /\ IsFiniteSet(B) /\ Cardinality(B) <= Cardinality(InBatch(j)) - 1
             /\ IsFiniteSet(Q) /\ Cardinality(Q) <= Cardinality(InQueue(j))
<1> DEFINE B == {t \in Threads : \E k \in Nat : Place(t, 2, k, j)}
           Q == {t \in Threads : \E k \in Nat : Place(t, 3, k, j)}
           f == [t \in B |-> <<t, CHOOSE k \in Nat : Place(t, 2, k, j)>>]
           g == [t \in Q |-> <<t, CHOOSE k \in Nat : Place(t, 3, k, j)>>]
           R == InBatch(j) \ {<<p, pos[p]>>}
<1>1. /\ IsFiniteSet(InBatch(j)) /\ IsFiniteSet(InQueue(j))
      /\ Cardinality(InBatch(j)) \in Nat /\ Cardinality(InQueue(j)) \in Nat
  BY LegsTypes DEF LegsInv, JobLegs
<1>2. <<p, pos[p]>> \in InBatch(j)
  <2>1. pos[p] \in pos[p] .. Len(batch[p])
    BY DEF IInv, TypeOK, ThreadType
  <2> QED BY <2>1, BatchMembers DEF PendingAt, Curr, CurrPending
<1>3. IsFiniteSet(R) /\ Cardinality(R) = Cardinality(InBatch(j)) - 1
  BY <1>1, <1>2, FS_RemoveElement
<1>4. ASSUME NEW t \in Threads, NEW k \in Nat, Place(t, 2, k, j)
      PROVE  <<t, k>> \in R
  <2>1. /\ k \in DOMAIN batch[t] /\ batch[t][k].kind = "work" /\ batch[t][k].job = j
        /\ k >= pos[t] /\ (k = pos[t] => pc[t] = "next")
    BY <1>4 DEF Place
  <2>2. k \in pos[t] .. Len(batch[t])
    BY <2>1 DEF IInv, TypeOK, ThreadType
  <2>3. <<t, k>> \in InBatch(j)
    BY <2>1, <2>2, BatchMembers DEF PendingAt, CurrPending
  <2>4. <<t, k>> # <<p, pos[p]>>
    BY <2>1 DEF Curr
  <2> QED BY <2>3, <2>4
<1>5. ASSUME NEW t \in Threads, NEW k \in Nat, Place(t, 3, k, j)
      PROVE  <<t, k>> \in InQueue(j)
  BY <1>5, QueueMembers DEF Place, QueuedAt
<1>6. IsFiniteSet(B) /\ Cardinality(B) <= Cardinality(R)
  <2>1. \A t \in B : f[t] \in R /\ f[t][1] = t
    BY <1>4
  <2>2. f \in [B -> R] /\ \A a, b \in B : f[a] = f[b] => a = b
    BY <2>1
  <2> HIDE DEF f, B, R
  <2> QED BY <1>3, <2>2, OnePlaceEach
<1>7. IsFiniteSet(Q) /\ Cardinality(Q) <= Cardinality(InQueue(j))
  <2>1. \A t \in Q : g[t] \in InQueue(j) /\ g[t][1] = t
    BY <1>5
  <2>2. g \in [Q -> InQueue(j)] /\ \A a, b \in Q : g[a] = g[b] => a = b
    BY <2>1
  <2> HIDE DEF g, Q
  <2> QED BY <1>1, <2>2, OnePlaceEach
<1> QED BY <1>3, <1>6, <1>7

LEMMA Unsent ==
  ASSUME IInv, LegsInv, NEW j \in JobIds, NEW p \in Procs
  PROVE  LET W == {t \in Threads : Sending(p, j, t)}
         IN  IsFiniteSet(W) /\ Cardinality(W) <= Cardinality(ToPush(j))
<1> DEFINE W == {t \in Threads : Sending(p, j, t)}
           f == [t \in W |-> <<p, CHOOSE k \in DOMAIN call[p].to : call[p].to[k] = t>>]
<1>1. IsFiniteSet(ToPush(j))
  BY DEF LegsInv, JobLegs
<1>2. ASSUME NEW t \in W
      PROVE  f[t] \in ToPush(j) /\ call[p].to[f[t][2]] = t
  <2>1. PICK k : k = CHOOSE i \in DOMAIN call[p].to : call[p].to[i] = t
    OBVIOUS
  <2>2. k \in DOMAIN call[p].to /\ call[p].to[k] = t /\ call[p].job = j
    BY <2>1 DEF Sending
  <2>3. f[t] = <<p, k>> /\ <<p, k>> \in ToPush(j)
    BY <2>1, <2>2, PushMembers DEF PushedAt
  <2> QED BY <2>2, <2>3
<1>3. f \in [W -> ToPush(j)] /\ \A a, b \in W : f[a] = f[b] => a = b
  BY <1>2
<1>4. IsFiniteSet(W) /\ Cardinality(W) <= Cardinality(ToPush(j))
  <2> HIDE DEF f, W
  <2> QED BY <1>1, <1>3, OnePlaceEach
<1> QED BY <1>4

\* When a result comes back, more work functions of the job ran than done callbacks.
LEMMA MoreWork ==
  ASSUME IInv, LegsInv, DeliveryInv, CountInv, NEW j \in JobIds, NEW p \in Threads,
         pos[p] <= Len(batch[p]), pc[p] = "next", Curr(p).kind = "result", Curr(p).job = j, Live(j)
  PROVE  /\ hist[j].dones < Cardinality(Ran(j))
         /\ Cardinality(Targets(j)) = Len(hist[j].to)
<1> DEFINE B == {t \in Threads : \E k \in Nat : Place(t, 2, k, j)}
           Q == {t \in Threads : \E k \in Nat : Place(t, 3, k, j)}
           W == {t \in Threads : Sending(hist[j].by, j, t)}
           T == Targets(j)
           R == Ran(j)
<1>1. hist[j].to \in Seq(Threads) /\ hist[j].by \in Procs /\ hist[j].dones \in Nat /\ Submitted(j)
  BY DEF IInv, TypeOK, HistoryType, History, Live, Submitted
<1>2. IsFiniteSet(T) /\ Cardinality(T) = Len(hist[j].to) /\ T \subseteq Threads
  <2>1. NoRepeat(hist[j].to)
    BY <1>1 DEF DeliveryInv, OnceInv
  <2>2. T \subseteq Threads
    BY <1>1 DEF Targets, Range
  <2> QED BY <1>1, <2>1, <2>2, RangeSize DEF Targets
<1>3. /\ legs[j] + hist[j].dones = Len(hist[j].to)
      /\ legs[j] = Cardinality(InBatch(j)) + Cardinality(InQueue(j)) + Cardinality(ToPush(j))
      /\ Cardinality(InBatch(j)) \in Nat /\ Cardinality(InQueue(j)) \in Nat
      /\ Cardinality(ToPush(j)) \in Nat
  <2>1. legs[j] + hist[j].dones = Len(hist[j].to)
    BY <1>1 DEF CountInv
  <2>2. legs[j] = Outstanding(j)
    BY <2>1, CountedLegs DEF LegsInv, Counted
  <2> QED BY <2>1, <2>2, LegsTypes DEF Outstanding, LegsInv, JobLegs
<1>4. /\ IsFiniteSet(B) /\ Cardinality(B) <= Cardinality(InBatch(j)) - 1
      /\ IsFiniteSet(Q) /\ Cardinality(Q) <= Cardinality(InQueue(j))
  BY Waiting
<1>5. IsFiniteSet(W) /\ Cardinality(W) <= Cardinality(ToPush(j))
  BY <1>1, Unsent
<1>6. T \ R \subseteq B \cup Q \cup W
  <2> SUFFICES ASSUME NEW t \in T, t \notin R PROVE t \in B \cup Q \cup W
    OBVIOUS
  <2>1. t \in Threads /\ (OnThread(t, j) \/ Sending(hist[j].by, j, t))
    BY <1>1, <1>2 DEF DeliveryInv, SentToAll
  <2>2. \A k : ~Place(t, 1, k, j)
    BY <2>1 DEF Ran, Place, Range
  <2>3. ASSUME OnThread(t, j) PROVE t \in B \cup Q
    <3>1. PICK s \in 1 .. 3, k \in Nat : Place(t, s, k, j)
      BY <2>3 DEF OnThread
    <3>2. s = 2 \/ s = 3
      BY <2>2, <3>1
    <3> QED BY <2>1, <3>1, <3>2
  <2> QED BY <2>1, <2>3
<1>7. R \subseteq T
  <2> SUFFICES ASSUME NEW t \in R PROVE t \in T
    OBVIOUS
  <2>1. t \in Threads /\ trace[t] \in Seq(JobIds) /\ j \in Range(trace[t])
    BY DEF Ran, IInv, TypeOK, HistoryType
  <2>2. PICK k \in DOMAIN trace[t] : trace[t][k] = j
    BY <2>1 DEF Range
  <2>3. Place(t, 1, k, j) /\ k \in Nat
    BY <2>1, <2>2 DEF Place
  <2> QED BY <2>1, <2>3 DEF OnThread, DeliveryInv, OnceInv
<1> HIDE DEF B, Q, W, T, R
<1>8. /\ Cardinality(B) \in Nat /\ Cardinality(Q) \in Nat /\ Cardinality(W) \in Nat
      /\ IsFiniteSet(T \ R) /\ Cardinality(T \ R) = Cardinality(T) - Cardinality(R)
      /\ Cardinality(R) \in Nat /\ Cardinality(T \ R) \in Nat
  <2>1. T \cap R = R /\ IsFiniteSet(R)
    BY <1>2, <1>7, FS_Subset
  <2>2. IsFiniteSet(T \ R) /\ Cardinality(T \ R) = Cardinality(T) - Cardinality(T \cap R)
    BY <1>2, FS_Difference
  <2> QED BY <1>4, <1>5, <2>1, <2>2, FS_CardinalityType
<1>9. Cardinality(T \ R) <= Cardinality(B) + Cardinality(Q) + Cardinality(W)
  <2>1. /\ IsFiniteSet(B \cup Q) /\ Cardinality(B \cap Q) \in Nat
        /\ Cardinality(B \cup Q) = Cardinality(B) + Cardinality(Q) - Cardinality(B \cap Q)
    <3>1. IsFiniteSet(B \cap Q)
      BY <1>4, FS_Subset
    <3> QED BY <1>4, <3>1, FS_Union, FS_CardinalityType
  <2>2. /\ IsFiniteSet(B \cup Q \cup W) /\ Cardinality((B \cup Q) \cap W) \in Nat
        /\ Cardinality(B \cup Q \cup W) = Cardinality(B \cup Q) + Cardinality(W) - Cardinality((B \cup Q) \cap W)
    <3>1. IsFiniteSet((B \cup Q) \cap W)
      BY <1>5, FS_Subset
    <3> QED BY <1>5, <2>1, <3>1, FS_Union, FS_CardinalityType
  <2>3. Cardinality(T \ R) <= Cardinality(B \cup Q \cup W)
    BY <1>6, <2>2, FS_Subset
  <2>4. Cardinality(B \cup Q) \in Nat /\ Cardinality(B \cup Q \cup W) \in Nat
    BY <2>1, <2>2, FS_CardinalityType
  <2> QED BY <1>8, <2>1, <2>2, <2>3, <2>4
<1>10. Len(hist[j].to) \in Nat
  BY <1>1
<1>11. hist[j].dones < Cardinality(R)
  <2>1. /\ Cardinality(T) \in Nat /\ legs[j] \in Int
        /\ Cardinality(T \ R) = Cardinality(T) - Cardinality(R)
        /\ legs[j] + hist[j].dones = Cardinality(T)
    BY <1>2, <1>3, <1>8, <1>10
  <2>2. PICK b, q, w, m, r, n, x, y, z, d, l :
           /\ b = Cardinality(B) /\ q = Cardinality(Q) /\ w = Cardinality(W) /\ m = Cardinality(T \ R)
           /\ r = Cardinality(R) /\ n = Cardinality(T) /\ x = Cardinality(InBatch(j))
           /\ y = Cardinality(InQueue(j)) /\ z = Cardinality(ToPush(j)) /\ d = hist[j].dones /\ l = legs[j]
    OBVIOUS
  <2>3. /\ b \in Nat /\ q \in Nat /\ w \in Nat /\ m \in Nat /\ r \in Nat /\ n \in Nat
        /\ x \in Nat /\ y \in Nat /\ z \in Nat /\ d \in Nat /\ l \in Int
    BY <1>1, <1>3, <1>8, <2>1, <2>2
  <2>4. m <= b + q + w /\ b <= x - 1 /\ q <= y /\ w <= z
    BY <1>4, <1>5, <1>9, <2>2
  <2>5. m = n - r /\ l = x + y + z /\ l + d = n
    BY <1>3, <2>1, <2>2
  <2>6. d < r
    BY <2>3, <2>4, <2>5
  <2> QED BY <2>2, <2>6
<1> QED BY <1>2, <1>11 DEF T, R

Views == [j \in JobIds |-> JobView(j)]

\* Job j is seen to change to r, and no other one.
LEMMA OneView ==
  ASSUME NEW j \in JobIds, \A i \in JobIds \ {j} : hist'[i] = hist[i] /\ Ran(i)' = Ran(i)
  PROVE  Views' = [Views EXCEPT ![j] = JobView(j)']
<1>1. \A i \in JobIds \ {j} : JobView(i)' = JobView(i)
  BY DEF JobView, Targets
<1> QED BY <1>1 DEF Views

LEMMA SubmitStep ==
  ASSUME IInv, KnownInv, OrderInv, NEW p \in Procs,
         NEW to \in Seq(Threads) \ {<<>>}, NEW next \in {"node", "lock"}, StartPush(p, to, next)
  PROVE  Contract!Next
<1>1. PICK j \in JobIds : j = call[p].job
  BY DEF StartPush, At, IInv, CallInv
<1>2. hist' = [hist EXCEPT ![j] = Pushed(p, to)] /\ UNCHANGED trace /\ pc[p] = "job"
  BY <1>1 DEF StartPush, At
<1>3. call[p].kind = "work" /\ hist[j].state = "unused" /\ p \in Threads
  BY <1>1, <1>2 DEF IInv, CallInv, KnownInv, PushInv, WorkCallOk
<1>4. hist'[j] = Pushed(p, to) /\ \A i \in JobIds \ {j} : hist'[i] = hist[i]
  BY <1>2 DEF IInv, TypeOK, HistoryType
<1>5. \A i : Ran(i)' = Ran(i)
  BY <1>2 DEF Ran
<1>6. Ran(j) = {}
  <2> SUFFICES ASSUME NEW t \in Ran(j) PROVE FALSE
    OBVIOUS
  <2>1. t \in Threads /\ trace[t] \in Seq(JobIds) /\ j \in Range(trace[t])
    BY DEF Ran, IInv, TypeOK, HistoryType
  <2>2. PICK k \in DOMAIN trace[t] : trace[t][k] = j
    BY <2>1 DEF Range
  <2>3. Place(t, 1, k, j) /\ k \in Nat
    BY <2>1, <2>2 DEF Place
  <2> QED BY <1>3, <2>1, <2>3 DEF OnThread, OrderInv
<1>7. Range(to) \in SUBSET Threads /\ Range(to) # {}
  <2>1. 1 \in DOMAIN to
    OBVIOUS
  <2> QED BY <2>1 DEF Range
<1>8. JobView(j).state = "unused"
  BY <1>3 DEF JobView, ContractState
<1>9. JobView(j)' = [state |-> "live", by |-> p, to |-> Range(to), ran |-> {}, dones |-> 0,
                     at |-> {}, last |-> FALSE]
  <2>1. (0 > 0) = FALSE /\ ContractState["live"] = "live"
    BY DEF ContractState
  <2>2. /\ hist'[j].state = "live" /\ hist'[j].by = p /\ hist'[j].to = to /\ hist'[j].dones = 0
        /\ hist'[j].at = {} /\ hist'[j].finals = 0
    BY <1>4 DEF Pushed
  <2>3. Targets(j)' = Range(to) /\ Ran(j)' = {}
    BY <1>5, <1>6, <2>2 DEF Targets
  <2> QED BY <2>1, <2>2, <2>3 DEF JobView
<1>10. Contract!Submit(j, p, Range(to))
  BY <1>4, <1>5, <1>7, <1>8, <1>9, OneView DEF Contract!Submit, Views
<1> QED BY <1>3, <1>7, <1>10 DEF Contract!Next

LEMMA WorkStep ==
  ASSUME IInv, OrderInv, DeliveryInv, NEW p \in Threads, RunWork(p)
  PROVE  Contract!Next
<1>1. PICK j : j = Curr(p).job
  OBVIOUS
<1>2. /\ pc[p] = "next" /\ pos[p] <= Len(batch[p]) /\ Curr(p).kind = "work" /\ Live(j)
      /\ trace' = [trace EXCEPT ![p] = Append(@, j)] /\ UNCHANGED hist
  BY <1>1 DEF RunWork, HasCurr, At
<1>3. /\ j \in JobIds /\ hist[j].state = "live" /\ Submitted(j)
      /\ trace[p] \in Seq(JobIds) /\ batch[p] \in Seq(Cell) /\ queue[p] \in Seq(Cell)
      /\ pos[p] \in Nat \ {0} /\ pos[p] \in DOMAIN batch[p]
  BY <1>2 DEF Live, Submitted, IInv, TypeOK, ThreadType, HistoryType
<1>4. Place(p, 2, pos[p], j)
  BY <1>1, <1>2, <1>3 DEF Place, Curr
<1>5. OnThread(p, j) /\ p \in Targets(j)
  BY <1>3, <1>4 DEF OnThread, DeliveryInv, OnceInv
<1>6. \A i \in JobIds : p \in Ran(i) <=> \E k \in Nat : Place(p, 1, k, i)
  BY <1>3 DEF Ran, Range, Place
<1>7. p \notin Ran(j)
  <2> SUFFICES ASSUME p \in Ran(j) PROVE FALSE
    OBVIOUS
  <2>1. PICK k \in Nat : Place(p, 1, k, j)
    BY <1>3, <1>6
  <2>2. Before(p, j, j)
    BY <1>3, <1>4, <2>1 DEF Before
  <2> QED BY <1>3, <2>2 DEF DeliveryInv, OnceInv
<1>8. ASSUME NEW i \in JobIds, i < j, Submitted(i), hist[i].by = hist[j].by, p \in Targets(i)
      PROVE  p \in Ran(i)
  <2>1. OnThread(p, i) /\ ~Before(p, j, i)
    BY <1>3, <1>5, <1>8 DEF DeliveryInv, FifoInv
  <2>2. PICK s \in 1 .. 3, k \in Nat : Place(p, s, k, i)
    BY <2>1 DEF OnThread
  <2>3. s # 3
    BY <1>3, <1>4, <2>1, <2>2 DEF Before
  <2>4. s # 2
    <3> SUFFICES ASSUME s = 2 PROVE FALSE
      OBVIOUS
    <3>1. k >= pos[p] /\ batch[p][k].job = i
      BY <2>2 DEF Place
    <3>2. k # pos[p]
      BY <1>1, <1>8, <3>1 DEF Curr, JobIds
    <3>3. pos[p] < k
      BY <1>3, <3>1, <3>2
    <3> QED BY <1>3, <1>4, <2>1, <2>2, <3>3 DEF Before
  <2> QED BY <1>6, <2>2, <2>3, <2>4
<1>9. /\ trace'[p] = Append(trace[p], j)
      /\ \A t \in Threads \ {p} : trace'[t] = trace[t]
  BY <1>2 DEF IInv, TypeOK, HistoryType
<1>10. \A i : i \in Range(trace'[p]) <=> i \in Range(trace[p]) \/ i = j
  <2>1. /\ DOMAIN trace'[p] = DOMAIN trace[p] \cup {Len(trace[p]) + 1}
        /\ \A k \in DOMAIN trace[p] : trace'[p][k] = trace[p][k]
        /\ trace'[p][Len(trace[p]) + 1] = j
    BY <1>3, <1>9
  <2> QED BY <2>1 DEF Range
<1>11. Ran(j)' = Ran(j) \cup {p} /\ \A i \in JobIds \ {j} : Ran(i)' = Ran(i)
  BY <1>9, <1>10 DEF Ran
<1>12. JobView(j)' = [JobView(j) EXCEPT !.ran = Ran(j) \cup {p}]
  <2>1. JobView(j)' = [state |-> ContractState[hist[j].state], by |-> hist[j].by, to |-> Targets(j),
                       ran |-> Ran(j) \cup {p}, dones |-> hist[j].dones, at |-> hist[j].at,
                       last |-> hist[j].finals > 0]
    BY <1>2, <1>11 DEF JobView, Targets
  <2> QED BY <2>1 DEF JobView
<1>13. Views' = [Views EXCEPT ![j] = [JobView(j) EXCEPT !.ran = Ran(j) \cup {p}]]
  BY <1>2, <1>3, <1>11, <1>12, OneView
<1>14. Contract!Work(j, p)
  <2>1. JobView(j).state = "live" /\ p \in JobView(j).to \ JobView(j).ran
    BY <1>3, <1>5, <1>7 DEF JobView, ContractState
  <2>2. \A i \in JobIds : /\ JobView(i).state # "unused" => Submitted(i)
                          /\ JobView(i).by = hist[i].by /\ JobView(i).to = Targets(i)
                          /\ JobView(i).ran = Ran(i)
    BY DEF JobView, ContractState, Submitted
  <2>3. \A i \in Contract!Before(j, p) : p \in Views[i].ran
    BY <1>3, <1>8, <2>2 DEF Contract!Before, Views
  <2>4. Views[j] = JobView(j) /\ JobView(j).ran = Ran(j)
    BY <1>3, <2>2 DEF Views
  <2> QED BY <1>13, <2>1, <2>3, <2>4 DEF Contract!Work, Views
<1> QED BY <1>3, <1>14 DEF Contract!Next

LEMMA ThreeFields ==
  ASSUME NEW f, NEW j \in DOMAIN f, NEW S, NEW l,
         DOMAIN f[j] = {"state", "by", "to", "ran", "dones", "at", "last"}
  PROVE  [f EXCEPT ![j].dones = @ + 1, ![j].at = @ \cup S, ![j].last = l]
            = [f EXCEPT ![j] = [f[j] EXCEPT !.dones = f[j].dones + 1, !.at = f[j].at \cup S, !.last = l]]
OBVIOUS

LEMMA CallbackStep ==
  ASSUME IInv, KnownInv, LegsInv, ContractInv, NEW p \in Threads, RunDone(p)
  PROVE  Contract!Next
<1>1. PICK j, e : j = Curr(p).job /\ e = IsEnd(legs[j] - 1)
  OBVIOUS
<1>2. /\ pc[p] = "next" /\ pos[p] <= Len(batch[p]) /\ Curr(p).kind = "result" /\ Live(j)
      /\ hist' = [hist EXCEPT ![j] = Done(j, p, e, "live")] /\ UNCHANGED trace
  BY <1>1 DEF RunDone, HasCurr, At
<1>3. j \in JobIds /\ hist[j].state = "live" /\ hist[j] \in History /\ Submitted(j) /\ legs[j] \in Int
  BY <1>2 DEF Live, Submitted, IInv, TypeOK, HistoryType, PoolType
<1>4. hist[j].by = p
  <2>1. pos[p] \in DOMAIN batch[p]
    BY <1>2, CurrAt
  <2> QED BY <1>1, <1>2, <2>1 DEF Curr, KnownInv, CellInv, CellOk
<1>5. hist[j].dones < Cardinality(Ran(j)) /\ Cardinality(Targets(j)) = Len(hist[j].to)
  BY <1>1, <1>2, <1>3, MoreWork DEF ContractInv
<1>6. legs[j] > 0 /\ legs[j] + hist[j].dones = Len(hist[j].to) /\ ~(hist[j].finals > 0)
  <2>1. legs[j] > 0
    BY <1>1, <1>2, <1>3, PendingLegs DEF CurrPending
  <2> QED BY <1>3, <2>1 DEF ContractInv, CountInv
<1>7. hist[j].dones \in Nat /\ hist[j].finals \in Nat
  BY <1>3 DEF History
<1>8. e <=> hist[j].dones + 1 = Cardinality(Targets(j))
  <2>1. e <=> legs[j] - 1 = 0
    BY <1>1 DEF IsEnd
  <2> QED BY <1>3, <1>5, <1>6, <1>7, <2>1
<1>9. /\ hist'[j].state = "live" /\ hist'[j].by = hist[j].by /\ hist'[j].to = hist[j].to
      /\ hist'[j].dones = hist[j].dones + 1 /\ hist'[j].at = hist[j].at \cup {p}
      /\ hist'[j].finals = IF e THEN hist[j].finals + 1 ELSE hist[j].finals
      /\ \A i \in JobIds \ {j} : hist'[i] = hist[i]
  BY <1>2, <1>3 DEF IInv, TypeOK, HistoryType, Done
<1>10. hist'[j].finals > 0 <=> e
  BY <1>6, <1>7, <1>9
<1>11. \A i : Ran(i)' = Ran(i)
  BY <1>2 DEF Ran
<1>12. Targets(j)' = Targets(j)
  BY <1>9 DEF Targets
<1>l. PICK l : l = (hist[j].dones + 1 = Cardinality(Targets(j)))
  OBVIOUS
<1>13. JobView(j)' = [JobView(j) EXCEPT !.dones = hist[j].dones + 1, !.at = hist[j].at \cup {p}, !.last = l]
  <2>1. l = (hist'[j].finals > 0)
    BY <1>l, <1>8, <1>10
  <2>2. JobView(j)' = [state |-> ContractState[hist[j].state], by |-> hist[j].by, to |-> Targets(j),
                       ran |-> Ran(j), dones |-> hist[j].dones + 1, at |-> hist[j].at \cup {p}, last |-> l]
    BY <1>3, <1>9, <1>11, <1>12, <2>1 DEF JobView
  <2>3. PICK v : v = (hist[j].finals > 0)
    OBVIOUS
  <2>4. JobView(j) = [state |-> ContractState[hist[j].state], by |-> hist[j].by, to |-> Targets(j),
                      ran |-> Ran(j), dones |-> hist[j].dones, at |-> hist[j].at, last |-> v]
    BY <2>3 DEF JobView
  <2>5. PICK s, b, to, r, d, a :
           /\ s = ContractState[hist[j].state] /\ b = hist[j].by /\ to = Targets(j)
           /\ r = Ran(j) /\ d = hist[j].dones /\ a = hist[j].at
    OBVIOUS
  <2>6. JobView(j) = [state |-> s, by |-> b, to |-> to, ran |-> r, dones |-> d, at |-> a, last |-> v]
    BY <2>4, <2>5
  <2>7. JobView(j)' = [state |-> s, by |-> b, to |-> to, ran |-> r, dones |-> d + 1, at |-> a \cup {p},
                       last |-> l]
    BY <2>2, <2>5
  <2>8. [JobView(j) EXCEPT !.dones = d + 1, !.at = a \cup {p}, !.last = l] = JobView(j)'
    <3>0. PICK d2, a2 : d2 = d + 1 /\ a2 = a \cup {p}
      OBVIOUS
    <3>1. [JobView(j) EXCEPT !.dones = d2]
             = [state |-> s, by |-> b, to |-> to, ran |-> r, dones |-> d2, at |-> a, last |-> v]
      BY <2>6
    <3>2. [[state |-> s, by |-> b, to |-> to, ran |-> r, dones |-> d2, at |-> a, last |-> v] EXCEPT !.at = a2]
             = [state |-> s, by |-> b, to |-> to, ran |-> r, dones |-> d2, at |-> a2, last |-> v]
      OBVIOUS
    <3>3. [[state |-> s, by |-> b, to |-> to, ran |-> r, dones |-> d2, at |-> a2, last |-> v] EXCEPT !.last = l]
             = [state |-> s, by |-> b, to |-> to, ran |-> r, dones |-> d2, at |-> a2, last |-> l]
      OBVIOUS
    <3>4. [[[JobView(j) EXCEPT !.dones = d2] EXCEPT !.at = a2] EXCEPT !.last = l]
             = [state |-> s, by |-> b, to |-> to, ran |-> r, dones |-> d2, at |-> a2, last |-> l]
      BY <3>1, <3>2, <3>3, Zenon
    <3>5. [JobView(j) EXCEPT !.dones = d2, !.at = a2, !.last = l]
             = [[[JobView(j) EXCEPT !.dones = d2] EXCEPT !.at = a2] EXCEPT !.last = l]
      OBVIOUS
    <3> QED BY <2>7, <3>0, <3>4, <3>5
  <2> QED BY <2>5, <2>8
<1>14. /\ JobView(j).state = "live" /\ JobView(j).by = p /\ JobView(j).ran = Ran(j)
       /\ JobView(j).dones = hist[j].dones /\ JobView(j).at = hist[j].at /\ JobView(j).to = Targets(j)
  BY <1>3, <1>4 DEF JobView, ContractState
<1>15. Views' = [Views EXCEPT ![j] = JobView(j)']
  BY <1>3, <1>9, <1>11, OneView
<1>16. Contract!Callback(j, p)
  <2>1. Views[j] = JobView(j)
    BY <1>3 DEF Views
  <2>2. Views' = [Views EXCEPT ![j].dones = @ + 1, ![j].at = @ \cup {p}, ![j].last = l]
    <3>1. j \in DOMAIN Views /\ DOMAIN Views[j] = {"state", "by", "to", "ran", "dones", "at", "last"}
      BY <1>3 DEF Views, JobView
    <3>2. Views' = [Views EXCEPT ![j] = [Views[j] EXCEPT !.dones = Views[j].dones + 1,
                                                         !.at = Views[j].at \cup {p}, !.last = l]]
      BY <1>13, <1>14, <1>15, <2>1
    <3> QED BY <3>1, <3>2, ThreeFields
  <2>3. l = (Views[j].dones + 1 = Cardinality(Views[j].to))
    BY <1>l, <1>14, <2>1
  <2>4. Views' = [Views EXCEPT ![j].dones = @ + 1, ![j].at = @ \cup {p},
                               ![j].last = Views[j].dones + 1 = Cardinality(Views[j].to)]
    BY <2>2, <2>3
  <2>5. /\ Views[j].state = "live" /\ p = Views[j].by
        /\ Views[j].dones < Cardinality(Views[j].ran)
    BY <1>5, <1>14, <2>1
  <2>6. \A S : Contract!Cardinality(S) = Cardinality(S)
    BY DEF Contract!Cardinality, Cardinality
  <2> QED BY <1>3, <2>4, <2>5, <2>6 DEF Contract!Callback, Views
<1> QED BY <1>3, <1>16 DEF Contract!Next

LEMMA RetireStep ==
  ASSUME IInv, EndInv, ContractInv, NEW p \in Threads, DoneReturns(p)
  PROVE  Contract!Next \/ UNCHANGED <<hist, trace>>
<1>1. PICK j : j = Curr(p).job
  OBVIOUS
<1>2. /\ hist' = IF jobEnd[p] THEN [hist EXCEPT ![j].state = "freed"] ELSE hist
      /\ pc[p] = "user" /\ ctx[p] = "done" /\ UNCHANGED trace
  BY <1>1 DEF DoneReturns, At
<1>3. CASE ~jobEnd[p]
  BY <1>2, <1>3
<1>4. CASE jobEnd[p]
  <2>1. Live(j) /\ legs[j] = 0
    BY <1>1, <1>2, <1>4 DEF EndInv, Ending, Busy
  <2>2. j \in JobIds /\ hist[j].state = "live" /\ hist[j] \in History
    BY <2>1 DEF Live, IInv, TypeOK, HistoryType
  <2>3. hist[j].finals > 0
    BY <2>1, <2>2 DEF ContractInv, CountInv, Submitted
  <2>4. /\ hist'[j].state = "freed" /\ hist'[j].by = hist[j].by /\ hist'[j].to = hist[j].to
        /\ hist'[j].dones = hist[j].dones /\ hist'[j].at = hist[j].at /\ hist'[j].finals = hist[j].finals
        /\ \A i \in JobIds \ {j} : hist'[i] = hist[i]
    BY <1>2, <1>4, <2>2 DEF IInv, TypeOK, HistoryType, History
  <2>5. \A i : Ran(i)' = Ran(i)
    BY <1>2 DEF Ran
  <2>6. JobView(j)' = [JobView(j) EXCEPT !.state = "over"]
    <3>1. JobView(j)' = [state |-> "over", by |-> hist[j].by, to |-> Targets(j), ran |-> Ran(j),
                         dones |-> hist[j].dones, at |-> hist[j].at, last |-> hist[j].finals > 0]
      BY <2>4, <2>5 DEF JobView, Targets, ContractState
    <3> QED BY <3>1 DEF JobView
  <2>7. Views' = [Views EXCEPT ![j] = [JobView(j) EXCEPT !.state = "over"]]
    BY <2>2, <2>4, <2>5, <2>6, OneView
  <2>8. JobView(j).state = "live" /\ JobView(j).last /\ Views[j] = JobView(j)
    <3>1. JobView(j).last = (hist[j].finals > 0)
      BY DEF JobView
    <3>2. JobView(j).last
      BY <2>3, <3>1, Zenon
    <3>3. JobView(j).state = "live" /\ Views[j] = JobView(j)
      BY <2>2 DEF JobView, ContractState, Views
    <3> QED BY <3>2, <3>3
  <2>9. Contract!Retire(j)
    BY <2>7, <2>8 DEF Contract!Retire, Views
  <2> QED BY <2>2, <2>9 DEF Contract!Next
<1> QED BY <1>3, <1>4

LEMMA ContractStep ==
  ASSUME IInv, JobInv, SafeInv, AllCounted, OrderInv, ContractInv, [Next]_vars
  PROVE  Contract!Next \/ UNCHANGED <<hist, trace>>
<1>0. KnownInv /\ EndInv /\ LegsInv /\ PushInv /\ DeliveryInv
  BY DEF JobInv, KnownInv, SafeInv, ContractInv
<1>1. ASSUME NEW p \in Procs, Push(p) PROVE Contract!Next \/ UNCHANGED <<hist, trace>>
  <2>1. CASE PushThread(p) \/ PushPool(p) \/ PushLua(p) \/ PushAll(p)
    BY <1>0, <2>1, PushesOne, SubmitStep
  <2>2. CASE UserPush(p) \/ LockMd(p) \/ AllocNode(p) \/ Enqueue(p)
    BY <2>2 DEF UserPush, LockMd, AllocNode, Enqueue, histVars
  <2>3. CASE Reject(p) \/ NullCall(p)
    BY <2>3 DEF Reject, NullCall, Crash, histVars
  <2> QED BY <1>0, <1>1, <2>1, <2>2, <2>3, NoReject DEF Push
<1>2. ASSUME NEW p \in Threads, Exec(p) PROVE Contract!Next \/ UNCHANGED <<hist, trace>>
  <2>1. CASE RunWork(p) \/ RunDone(p) \/ DoneReturns(p)
    BY <1>0, <2>1, WorkStep, CallbackStep, RetireStep
  <2>2. CASE ~RunWork(p) /\ ~RunDone(p) /\ ~DoneReturns(p)
    BY <1>2, <2>2 DEF Exec, StartReturns, WorkReturns, Drain, RunStop, RunStale, Crash, FinishNode,
       Frees, Exit, histVars
  <2> QED BY <2>1, <2>2
<1>3. ASSUME NEW p \in Procs, Waitstops(p) PROVE UNCHANGED <<hist, trace>>
  BY <1>3 DEF Waitstops, CallWaitstops, AllStopped, Poll, vars, histVars
<1>4. CASE Rest \/ UNCHANGED vars
  BY <1>4 DEF Rest, vars, histVars
<1> QED BY <1>1, <1>2, <1>3, <1>4 DEF Next

LEMMA InitContractState == ASSUME Init PROVE Contract!Init
<1>1. \A j \in JobIds : hist[j] = Unused
  BY DEF Init
<1>2. \A j \in JobIds : Ran(j) = {}
  BY DEF Init, Ran, Range
<1>3. \A j \in JobIds : Targets(j) = {}
  BY <1>1 DEF Targets, Unused, Range
<1>4. \A j \in JobIds :
         JobView(j) = [state |-> "unused", by |-> Main, to |-> {}, ran |-> {}, dones |-> 0, at |-> {},
                       last |-> FALSE]
  <2>1. ContractState["unused"] = "unused"
    BY DEF ContractState
  <2>2. \A j \in JobIds : (hist[j].finals > 0) = FALSE
    BY <1>1 DEF Unused
  <2>3. \A j \in JobIds : /\ hist[j].state = "unused" /\ hist[j].by = Main /\ hist[j].dones = 0
                          /\ hist[j].at = {}
    BY <1>1 DEF Unused
  <2> QED BY <1>2, <1>3, <2>1, <2>2, <2>3 DEF JobView
<1>5. Main \in Threads
  BY ThreadsAssumption
<1>6. \A j \in JobIds :
         JobView(j) \in [state : {"unused", "live", "over"}, by : Threads, to : SUBSET Threads,
                         ran : SUBSET Threads, dones : Nat, at : SUBSET Threads, last : BOOLEAN]
  <2>1. Main \in Threads /\ 0 \in Nat /\ FALSE \in BOOLEAN /\ {} \in SUBSET Threads
    BY <1>5
  <2>2. \A b \in BOOLEAN : [state |-> "unused", by |-> Main, to |-> {}, ran |-> {}, dones |-> 0, at |-> {}, last |-> b] \in [state : {"unused", "live", "over"}, by : Threads, to : SUBSET Threads,
                         ran : SUBSET Threads, dones : Nat, at : SUBSET Threads, last : BOOLEAN]
    BY <2>1
  <2> QED BY <1>4, <2>1, <2>2, Zenon
<1> QED BY <1>4, <1>6 DEF Contract!Init, Contract!JobType, Contract!States

\* athd keeps its promise to the user: every behaviour of the scheduler, seen through
\* JobView, is a behaviour of JobContract, if the pool is used as SafeUse says and
\* no broadcast goes to a thread twice.
THEOREM KeepsTheContract ==
  ASSUME SafeUse, DistinctTargets PROVE Spec => ContractSpec
<1>1. Init => Contract!Init
  BY InitContractState
<1>2. UNCHANGED <<hist, trace>> => UNCHANGED [j \in JobIds |-> JobView(j)]
  BY DEF JobView, Targets, Ran
<1>3. IInv /\ JobInv /\ SafeInv /\ AllCounted /\ OrderInv /\ ContractInv /\ [Next]_vars
         => [Contract!Next]_([j \in JobIds |-> JobView(j)])
  BY <1>2, ContractStep
<1>4. Spec => []OrderInv
  <2>1. Init => OrderInv
    BY InitOrder
  <2>2. IInv /\ JobInv /\ OrderInv /\ [Next]_vars => OrderInv'
    BY NextOrder
  <2> QED BY <2>1, <2>2, JobsInductive, PTL DEF Spec
<1> QED BY <1>1, <1>3, <1>4, JobsInductive, SafeInductive, ContractInductive, PTL
    DEF Spec, ContractSpec, Contract!Spec
=============================================================================
