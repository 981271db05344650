-------------------------- MODULE AthdPartsProofs ---------------------------
(***************************************************************************)
(* Proofs about the two parts of athd.h that stand alone, the pools of     *)
(* nodes and the data that threads share; their modules have no name in    *)
(* common, those of ThreadData's specification begin with TD.              *)
(*                                                                         *)
(* NodePool, for any capacity and any finite set of threads: the pointers  *)
(* are always the lists they should be, no thread sleeps in alloc without  *)
(* somebody to wake it when a node is free, and the pool implements        *)
(* ObjectPool.  The last needs what the recursive function Walk computes;  *)
(* FirstNumbers is the induction over the numbers up to the capacity that  *)
(* it takes, by counting, for one set instead of a property.               *)
(*                                                                         *)
(* ThreadData, for any finite number of threads: the start callback runs   *)
(* everywhere although it is dropped by whoever counts to zero, and the    *)
(* shared data is deleted at the end and not before.                       *)
(***************************************************************************)
EXTENDS NodePool, ThreadData, FiniteSetTheorems, TLAPS

(***************************************************************************)
(* NodePool.                                                               *)
(***************************************************************************)

\* Types, without the bound on free_count_, which follows from OnceEach.
TypeInv ==
    /\ next \in [Nodes -> Nodes \cup {Null}]
    /\ free \in Nodes \cup {Null}
    /\ freeCount \in Nat
    /\ pc \in [Procs -> {"out", "asleep", "awake", "link", "one", "all"}]
    /\ chain \in [Procs -> Seq(Nodes)]
    /\ list \in Seq(Nodes)

\* No node is in two places, or in one place twice.
OnceEach ==
    /\ \A i, j \in DOMAIN list : list[i] = list[j] => i = j
    /\ \A p \in Procs : \A i, j \in DOMAIN chain[p] :
          chain[p][i] = chain[p][j] => i = j
    /\ \A p \in Procs : \A i \in DOMAIN list, j \in DOMAIN chain[p] :
          list[i] # chain[p][j]
    /\ \A p, q \in Procs : p # q =>
          \A i \in DOMAIN chain[p], j \in DOMAIN chain[q] :
             chain[p][i] # chain[q][j]

\* A node that was just allocated is not linked yet; the ones before it are.
HalfLinked ==
    \A p \in Procs : pc[p] = "link" =>
       /\ chain[p] # <<>>
       /\ \A i \in DOMAIN chain[p] :
             i < Len(chain[p]) - 1 => next[chain[p][i]] = chain[p][i + 1]

ListInv == TypeInv /\ OnceEach /\ Linked /\ HalfLinked /\ freeCount = Len(list)

-----------------------------------------------------------------------------
\* The lists hold nodes.
LEMMA Elements ==
  ASSUME TypeInv
  PROVE  /\ \A i \in DOMAIN list : list[i] \in Nodes
         /\ \A p \in Procs : \A i \in DOMAIN chain[p] : chain[p][i] \in Nodes
         /\ DOMAIN list = 1 .. Len(list) /\ Len(list) \in Nat
         /\ \A p \in Procs : /\ DOMAIN chain[p] = 1 .. Len(chain[p])
                              /\ Len(chain[p]) \in Nat
BY DEF TypeInv

LEMMA InitListInv == Init => ListInv
<1> SUFFICES ASSUME Init PROVE ListInv
  OBVIOUS
<1> USE CapacityAssumption DEF Init
<1>1. list \in Seq(Nodes) /\ Len(list) = Capacity /\ \A i \in DOMAIN list : list[i] = i
  BY DEF Nodes
<1>2. TypeInv
  BY <1>1 DEF TypeInv, Nodes, Null
<1>3. OnceEach
  BY <1>1 DEF OnceEach
<1>4. Linked
  <2>1. DOMAIN list = 1 .. Capacity /\ list # <<>>
    BY <1>1 DEF Nodes
  <2> QED BY <1>1, <2>1 DEF Linked, IsChain, Nodes
<1>5. HalfLinked
  BY DEF HalfLinked
<1> QED BY <1>1, <1>2, <1>3, <1>4, <1>5 DEF ListInv

LEMMA AllocList ==
  ASSUME ListInv, NEW p \in Procs, Alloc(p)
  PROVE  ListInv'
<1>1. /\ TypeInv /\ OnceEach /\ Linked /\ HalfLinked /\ freeCount = Len(list)
      /\ next \in [Nodes -> Nodes \cup {Null}] /\ list \in Seq(Nodes)
      /\ chain \in [Procs -> Seq(Nodes)] /\ DOMAIN pc = Procs
      /\ pc \in [Procs -> {"out", "asleep", "awake", "link", "one", "all"}]
  BY DEF ListInv, TypeInv
<1>2. /\ list' = Tail(list) /\ free' = next[free] /\ freeCount' = freeCount - 1 /\ next' = next
      /\ chain' = [chain EXCEPT ![p] = Append(chain[p], free)]
      /\ pc' = [pc EXCEPT ![p] = "link"] /\ pc[p] # "link" /\ free # Null
  BY DEF Alloc, AfterAlloc, Goto
<1>3. /\ list # <<>> /\ free = list[1] /\ Len(list) \in Nat \ {0}
      /\ 1 \in DOMAIN list /\ free \in Nodes
  <2>1. list # <<>> /\ free = list[1]
    BY <1>1, <1>2 DEF Linked, IsChain
  <2> QED BY <1>1, <2>1
<1>4. /\ list' \in Seq(Nodes) /\ Len(list') = Len(list) - 1
      /\ \A i \in 1 .. Len(list) - 1 : list'[i] = list[i + 1]
  BY <1>1, <1>2, <1>3
<1>5. /\ chain'[p] \in Seq(Nodes) /\ Len(chain[p]) \in Nat
      /\ Len(chain'[p]) = Len(chain[p]) + 1
      /\ DOMAIN chain'[p] = 1 .. Len(chain[p]) + 1 /\ DOMAIN chain[p] = 1 .. Len(chain[p])
      /\ \A i \in 1 .. Len(chain[p]) : chain'[p][i] = chain[p][i]
      /\ chain'[p][Len(chain[p]) + 1] = free
  <2>1. chain[p] \in Seq(Nodes) /\ chain'[p] = Append(chain[p], free)
    BY <1>1, <1>2
  <2> QED BY <1>3, <2>1
<1>6. \A q \in Procs : q # p => chain'[q] = chain[q] /\ pc'[q] = pc[q]
  BY <1>1, <1>2
<1>7. TypeInv'
  <2>1. freeCount' \in Nat
    BY <1>1, <1>2, <1>3
  <2>2. free' \in Nodes \cup {Null} /\ next' \in [Nodes -> Nodes \cup {Null}]
    BY <1>1, <1>2, <1>3
  <2>3. chain' \in [Procs -> Seq(Nodes)]
    BY <1>1, <1>2, <1>3
  <2>4. pc' \in [Procs -> {"out", "asleep", "awake", "link", "one", "all"}]
    BY <1>1, <1>2
  <2> QED BY <1>4, <2>1, <2>2, <2>3, <2>4 DEF TypeInv
<1>8. freeCount' = Len(list')
  BY <1>1, <1>2, <1>4
<1>9. OnceEach'
  <2>1. /\ \A i \in DOMAIN list' : i + 1 \in DOMAIN list /\ list'[i] = list[i + 1]
        /\ DOMAIN list' \subseteq Int
    <3>1. DOMAIN list' = 1 .. Len(list) - 1 /\ DOMAIN list = 1 .. Len(list)
      BY <1>1, <1>4
    <3> QED BY <1>3, <1>4, <3>1
  <2>2. OnceEach
    BY <1>1
  <2>3. /\ \A u \in Procs : \A m \in DOMAIN chain[u] : chain[u][m] # free
        /\ \A i \in DOMAIN list' : list'[i] # free
    <3>1. \A i \in DOMAIN list' : i + 1 # 1
      BY <1>4
    <3> QED BY <1>3, <2>1, <2>2, <3>1 DEF OnceEach
  <2>4. \A i, j \in DOMAIN list' : list'[i] = list'[j] => i = j
    <3>1. \A i, j \in DOMAIN list' : i + 1 = j + 1 => i = j
      BY <2>1
    <3> QED BY <2>1, <2>2, <3>1 DEF OnceEach
  <2>5. \A j \in DOMAIN chain'[p] : IF j \in DOMAIN chain[p] THEN chain'[p][j] = chain[p][j]
                                                           ELSE /\ chain'[p][j] = free
                                                                /\ j = Len(chain[p]) + 1
    BY <1>5
  <2>6. \A q \in Procs : \A i, j \in DOMAIN chain'[q] : chain'[q][i] = chain'[q][j] => i = j
    <3>1. \A i, j \in DOMAIN chain'[p] : chain'[p][i] = chain'[p][j] => i = j
      BY <2>2, <2>3, <2>5 DEF OnceEach
    <3>2. \A q \in Procs : q # p => \A i, j \in DOMAIN chain'[q] : chain'[q][i] = chain'[q][j] => i = j
      BY <1>6, <2>2 DEF OnceEach
    <3> QED BY <3>1, <3>2
  <2>7. \A q \in Procs : \A i \in DOMAIN list', j \in DOMAIN chain'[q] : list'[i] # chain'[q][j]
    BY <1>6, <2>1, <2>2, <2>3, <2>5 DEF OnceEach
  <2>8. ASSUME NEW q \in Procs, NEW r \in Procs, q # r,
               NEW i \in DOMAIN chain'[q], NEW j \in DOMAIN chain'[r]
        PROVE  chain'[q][i] # chain'[r][j]
    BY <1>6, <2>2, <2>3, <2>5, <2>8 DEF OnceEach
  <2> QED BY <2>4, <2>6, <2>7, <2>8 DEF OnceEach
<1>10. Linked'
  <2>1. free' = IF list' = <<>> THEN Null ELSE list'[1]
    <3>1. free' = IF Len(list) = 1 THEN Null ELSE list[2]
      <4>1. next[list[1]] = IF 1 = Len(list) THEN Null ELSE list[1 + 1]
        BY <1>1, <1>3 DEF Linked, IsChain
      <4> QED BY <1>2, <1>3, <4>1
    <3>2. list' = <<>> <=> Len(list) = 1
      BY <1>3, <1>4
    <3>3. Len(list) # 1 => list'[1] = list[2]
      BY <1>3, <1>4
    <3> QED BY <3>1, <3>2, <3>3
  <2>2. \A i \in DOMAIN list' : next'[list'[i]] = IF i = Len(list') THEN Null ELSE list'[i + 1]
    BY <1>1, <1>2, <1>3, <1>4 DEF Linked, IsChain
  <2>3. ASSUME NEW q \in Procs, pc'[q] # "link", chain'[q] # <<>>
        PROVE  IsChain(chain[q][1], chain[q], Null)'
    <3>1. q # p /\ chain'[q] = chain[q] /\ pc'[q] = pc[q]
      BY <1>1, <1>2, <2>3
    <3>2. IsChain(chain[q][1], chain[q], Null)
      BY <1>1, <2>3, <3>1 DEF Linked
    <3> QED BY <1>2, <3>1, <3>2 DEF IsChain
  <2>4. IsChain(free, list, Null)'
    BY <2>1, <2>2 DEF IsChain
  <2> QED BY <2>3, <2>4 DEF Linked
<1>11. HalfLinked'
  <2> SUFFICES ASSUME NEW q \in Procs, pc'[q] = "link"
               PROVE  /\ chain'[q] # <<>>
                      /\ \A i \in DOMAIN chain'[q] : i < Len(chain'[q]) - 1 =>
                            next'[chain'[q][i]] = chain'[q][i + 1]
    BY DEF HalfLinked
  <2>1. CASE q = p
    <3>1. chain[p] # <<>> => IsChain(chain[p][1], chain[p], Null)
      BY <1>1, <1>2 DEF Linked
    <3>2. ASSUME NEW i \in DOMAIN chain'[p], i < Len(chain[p])
          PROVE  next'[chain'[p][i]] = chain'[p][i + 1]
      <4>1. i \in 1 .. Len(chain[p]) /\ i + 1 \in 1 .. Len(chain[p]) /\ chain[p] # <<>>
        BY <1>5, <3>2
      <4>2. next[chain[p][i]] = chain[p][i + 1]
        BY <1>5, <3>1, <3>2, <4>1 DEF IsChain
      <4> QED BY <1>2, <1>5, <4>1, <4>2
    <3>3. chain'[p] # <<>> /\ Len(chain'[p]) - 1 = Len(chain[p])
      BY <1>5
    <3> QED BY <2>1, <3>2, <3>3
  <2>2. CASE q # p
    BY <1>1, <1>2, <1>6, <2>2 DEF HalfLinked
  <2> QED BY <2>1, <2>2
<1> QED BY <1>7, <1>8, <1>9, <1>10, <1>11 DEF ListInv

LEMMA LinkNodeList ==
  ASSUME ListInv, NEW p \in Procs, LinkNode(p)
  PROVE  ListInv'
<1> USE CapacityAssumption DEF ListInv, TypeInv
<1> DEFINE k == Len(chain[p])
           n == chain[p][k]
<1>1. pc[p] = "link" /\ k \in Nat \ {0} /\ chain[p] \in Seq(Nodes) /\ n \in Nodes
  BY DEF LinkNode, HalfLinked
<1>2. /\ next' = [i \in Nodes |-> IF i = n THEN Null
                               ELSE IF k > 1 /\ i = chain[p][k - 1] THEN n ELSE next[i]]
      /\ UNCHANGED <<free, freeCount, list, chain>>
      /\ pc' = [pc EXCEPT ![p] = "out"]
  BY DEF LinkNode, Last, LastNext, Goto
<1>3. TypeInv'
  BY <1>1, <1>2
<1>4. OnceEach' /\ freeCount' = Len(list')
  BY <1>2 DEF OnceEach
<1>5. \A i \in DOMAIN list : next'[list[i]] = next[list[i]]
  BY <1>1, <1>2 DEF OnceEach
<1>6. \A q \in Procs : q # p => \A i \in DOMAIN chain[q] : next'[chain[q][i]] = next[chain[q][i]]
  BY <1>1, <1>2 DEF OnceEach
<1>7. ASSUME NEW i \in DOMAIN chain[p]
      PROVE  next'[chain[p][i]] = IF i = k THEN Null ELSE chain[p][i + 1]
  <2>1. i \in 1 .. k /\ chain[p][i] \in Nodes /\ k \in DOMAIN chain[p]
    BY <1>1
  <2>2. CASE i = k
    BY <1>2, <2>1, <2>2
  <2>3. CASE i = k - 1
    <3>1. chain[p][i] # n /\ k > 1
      BY <1>1, <2>1, <2>3 DEF OnceEach
    <3> QED BY <1>1, <1>2, <2>1, <2>3, <3>1
  <2>4. CASE i < k - 1
    <3>1. k - 1 \in DOMAIN chain[p]
      BY <1>1, <2>1, <2>4
    <3>2. chain[p][i] # n /\ chain[p][i] # chain[p][k - 1]
      BY <1>1, <2>1, <2>4, <3>1 DEF OnceEach
    <3>3. next[chain[p][i]] = chain[p][i + 1]
      BY <1>1, <2>1, <2>4 DEF HalfLinked
    <3> QED BY <1>1, <1>2, <2>1, <2>4, <3>2, <3>3
  <2> QED BY <1>1, <2>1, <2>2, <2>3, <2>4
<1>8. Linked'
  <2>1. IsChain(free, list, Null)'
    BY <1>2, <1>5 DEF Linked, IsChain
  <2>2. ASSUME NEW q \in Procs, pc'[q] # "link", chain'[q] # <<>>
        PROVE  IsChain(chain[q][1], chain[q], Null)'
    <3>1. CASE q = p
      BY <1>1, <1>2, <1>7, <2>2, <3>1 DEF IsChain
    <3>2. CASE q # p
      <4>1. chain'[q] = chain[q] /\ IsChain(chain[q][1], chain[q], Null)
        BY <1>2, <2>2, <3>2 DEF Linked
      <4> QED BY <1>6, <3>2, <4>1 DEF IsChain
    <3> QED BY <3>1, <3>2
  <2> QED BY <2>1, <2>2 DEF Linked
<1>9. HalfLinked'
  <2> SUFFICES ASSUME NEW q \in Procs, pc'[q] = "link"
               PROVE  /\ chain'[q] # <<>>
                      /\ \A i \in DOMAIN chain'[q] : i < Len(chain'[q]) - 1 =>
                            next'[chain'[q][i]] = chain'[q][i + 1]
    BY DEF HalfLinked
  <2>1. q # p /\ chain'[q] = chain[q] /\ pc[q] = "link"
    BY <1>2
  <2> QED BY <1>6, <2>1 DEF HalfLinked
<1> QED BY <1>3, <1>4, <1>8, <1>9

\* Both ways of giving nodes back put the chain of p before the free list.
LEMMA SpliceList ==
  ASSUME ListInv, NEW p \in Procs, pc[p] = "out", chain[p] # <<>>,
         next' = [next EXCEPT ![chain[p][Len(chain[p])]] = free],
         free' = chain[p][1],
         freeCount' = freeCount + Len(chain[p]),
         list' = chain[p] \o list,
         chain' = [chain EXCEPT ![p] = <<>>],
         NEW point \in {"one", "all"}, pc' = [pc EXCEPT ![p] = point]
  PROVE  ListInv'
<1> USE CapacityAssumption DEF ListInv, TypeInv
<1> DEFINE c == chain[p]
           k == Len(c)
<1>1. c \in Seq(Nodes) /\ k \in Nat \ {0} /\ c[k] \in Nodes /\ c[1] \in Nodes /\ Len(list) \in Nat
  OBVIOUS
<1>2. /\ list' \in Seq(Nodes) /\ Len(list') = k + Len(list)
      /\ \A i \in 1 .. k : list'[i] = c[i]
      /\ \A i \in k + 1 .. k + Len(list) : list'[i] = list[i - k]
  BY <1>1
<1>3. chain'[p] = <<>> /\ \A q \in Procs : q # p => chain'[q] = chain[q] /\ pc'[q] = pc[q]
  OBVIOUS
<1>4. TypeInv'
  BY <1>1, <1>2
<1>5. freeCount' = Len(list')
  BY <1>1, <1>2
<1>6. OnceEach'
  <2>1. ASSUME NEW i \in DOMAIN list', NEW j \in DOMAIN list', list'[i] = list'[j]
        PROVE  i = j
    <3>1. i \in 1 .. k + Len(list) /\ j \in 1 .. k + Len(list)
      BY <1>2
    <3>2. CASE i <= k /\ j <= k
      BY <1>1, <1>2, <2>1, <3>1, <3>2 DEF OnceEach
    <3>3. CASE i > k /\ j > k
      <4>1. i - k \in DOMAIN list /\ j - k \in DOMAIN list
        BY <1>1, <3>1, <3>3
      <4> QED BY <1>1, <1>2, <2>1, <3>1, <3>3, <4>1 DEF OnceEach
    <3>4. CASE i <= k /\ j > k
      <4>1. j - k \in DOMAIN list /\ i \in DOMAIN chain[p]
        BY <1>1, <3>1, <3>4
      <4> QED BY <1>1, <1>2, <2>1, <3>1, <3>4, <4>1 DEF OnceEach
    <3>5. CASE i > k /\ j <= k
      <4>1. i - k \in DOMAIN list /\ j \in DOMAIN chain[p]
        BY <1>1, <3>1, <3>5
      <4> QED BY <1>1, <1>2, <2>1, <3>1, <3>5, <4>1 DEF OnceEach
    <3> QED BY <1>1, <3>1, <3>2, <3>3, <3>4, <3>5
  <2>2. \A q \in Procs : \A i, j \in DOMAIN chain'[q] : chain'[q][i] = chain'[q][j] => i = j
    BY <1>3 DEF OnceEach
  <2>3. ASSUME NEW q \in Procs, NEW i \in DOMAIN list', NEW j \in DOMAIN chain'[q]
        PROVE  list'[i] # chain'[q][j]
    <3>1. q # p /\ i \in 1 .. k + Len(list)
      BY <1>2, <1>3, <2>3
    <3>2. CASE i <= k
      BY <1>1, <1>2, <1>3, <3>1, <3>2 DEF OnceEach
    <3>3. CASE i > k
      <4>1. i - k \in DOMAIN list
        BY <1>1, <3>1, <3>3
      <4> QED BY <1>1, <1>2, <1>3, <3>1, <3>3, <4>1 DEF OnceEach
    <3> QED BY <1>1, <3>1, <3>2, <3>3
  <2>4. \A q, r \in Procs : q # r =>
           \A i \in DOMAIN chain'[q], j \in DOMAIN chain'[r] : chain'[q][i] # chain'[r][j]
    BY <1>3 DEF OnceEach
  <2> QED BY <2>1, <2>2, <2>3, <2>4 DEF OnceEach
<1>7. Linked'
  <2>1. ASSUME NEW i \in 1 .. k
        PROVE  next'[c[i]] = IF i = k THEN free ELSE c[i + 1]
    <3>1. c[i] \in Nodes /\ (i # k => c[i] # c[k])
      BY <1>1 DEF OnceEach
    <3>2. i # k => next[c[i]] = c[i + 1]
      <4>1. IsChain(c[1], c, Null)
        BY DEF Linked
      <4> QED BY <1>1, <4>1 DEF IsChain
    <3> QED BY <1>1, <3>1, <3>2
  <2>2. ASSUME NEW i \in 1 .. Len(list)
        PROVE  next'[list[i]] = IF i = Len(list) THEN Null ELSE list[i + 1]
    <3>1. i \in DOMAIN list /\ k \in DOMAIN chain[p] /\ list[i] \in Nodes
      BY <1>1
    <3>2. list[i] # c[k]
      BY <3>1 DEF OnceEach
    <3>3. next[list[i]] = IF i = Len(list) THEN Null ELSE list[i + 1]
      BY <3>1 DEF Linked, IsChain
    <3> QED BY <1>1, <3>1, <3>2, <3>3
  <2>3. \A i \in 1 .. k + Len(list) :
           next'[list'[i]] = IF i = k + Len(list) THEN Null ELSE list'[i + 1]
    <3>0. TAKE i \in 1 .. k + Len(list)
    <3>1. CASE i < k
      BY <1>1, <1>2, <2>1, <3>1
    <3>2. CASE i = k
      <4>1. free = IF list = <<>> THEN Null ELSE list[1]
        BY DEF Linked, IsChain
      <4>2. next'[list'[i]] = free
        BY <1>1, <1>2, <2>1, <3>2
      <4>3. CASE list = <<>>
        BY <4>1, <4>2, <4>3, <3>2
      <4>4. CASE list # <<>>
        <5>1. Len(list) > 0
          BY <4>4
        <5> QED BY <1>1, <1>2, <3>2, <4>1, <4>2, <4>4, <5>1
      <4> QED BY <4>3, <4>4
    <3>3. CASE i > k
      <4>1. i - k \in 1 .. Len(list)
        BY <1>1, <3>3
      <4>2. list'[i] = list[i - k]
        BY <1>1, <1>2, <3>3
      <4>3. i # k + Len(list) => i + 1 \in k + 1 .. k + Len(list) /\ list'[i + 1] = list[i - k + 1]
        <5>1. i # k + Len(list) => i + 1 \in k + 1 .. k + Len(list) /\ (i + 1) - k = i - k + 1
          BY <1>1, <3>3
        <5> QED BY <1>2, <5>1
      <4>4. next'[list[i - k]] = IF i - k = Len(list) THEN Null ELSE list[i - k + 1]
        BY <2>2, <4>1
      <4>5. i - k = Len(list) <=> i = k + Len(list)
        BY <1>1
      <4> QED BY <4>2, <4>3, <4>4, <4>5
    <3> QED BY <1>1, <3>1, <3>2, <3>3
  <2>4. free' = list'[1] /\ list' # <<>>
    BY <1>1, <1>2
  <2>5. ASSUME NEW q \in Procs, pc'[q] # "link", chain'[q] # <<>>
        PROVE  IsChain(chain[q][1], chain[q], Null)'
    <3>1. q # p /\ chain'[q] = chain[q] /\ pc'[q] = pc[q]
      BY <1>3, <2>5
    <3>2. \A i \in DOMAIN chain[q] : next'[chain[q][i]] = next[chain[q][i]]
      BY <1>1, <3>1 DEF OnceEach
    <3> QED BY <2>5, <3>1, <3>2 DEF Linked, IsChain
  <2>6. DOMAIN list' = 1 .. k + Len(list) /\ Len(list') = k + Len(list)
    BY <1>2
  <2>7. IsChain(free, list, Null)'
    BY <2>3, <2>4, <2>6 DEF IsChain
  <2> QED BY <2>5, <2>7 DEF Linked
<1>8. HalfLinked'
  <2> SUFFICES ASSUME NEW q \in Procs, pc'[q] = "link"
               PROVE  /\ chain'[q] # <<>>
                      /\ \A i \in DOMAIN chain'[q] : i < Len(chain'[q]) - 1 =>
                            next'[chain'[q][i]] = chain'[q][i + 1]
    BY DEF HalfLinked
  <2>1. q # p
    OBVIOUS
  <2>2. \A i \in DOMAIN chain[q] : next'[chain[q][i]] = next[chain[q][i]]
    BY <1>1, <2>1 DEF OnceEach
  <2> QED BY <1>3, <2>1, <2>2 DEF HalfLinked
<1> QED BY <1>4, <1>5, <1>6, <1>7, <1>8

LEMMA NextListInv == ListInv /\ [Next]_vars => ListInv'
<1> SUFFICES ASSUME ListInv, [Next]_vars PROVE ListInv'
  OBVIOUS
<1>1. ASSUME NEW p \in Procs, Free(p) PROVE ListInv'
  <2>1. pc[p] = "out" /\ chain[p] # <<>> /\ Len(chain[p]) = 1
    BY <1>1 DEF Free, HasOne
  <2>2. chain[p] = <<chain[p][1]>>
    BY <2>1 DEF ListInv, TypeInv
  <2> QED BY <1>1, <2>1, <2>2, SpliceList DEF Free, Goto
<1>2. ASSUME NEW p \in Procs, Frees(p) PROVE ListInv'
  BY <1>2, SpliceList DEF Frees, HasSome, Goto, Last, FirstOf, CountOf
<1>3. ASSUME NEW p \in Procs, Sleep(p) \/ WakeSpuriously(p) \/ NotifyOne(p) \/ NotifyAll(p)
      PROVE  ListInv'
  <2>1. UNCHANGED <<next, free, freeCount, list, chain>>
    BY <1>3 DEF Sleep, WakeSpuriously, NotifyOne, NotifyAll, poolVars
  <2>2. /\ pc' \in [Procs -> {"out", "asleep", "awake", "link", "one", "all"}]
        /\ \A q \in Procs : pc'[q] = "link" <=> pc[q] = "link"
    BY <1>3 DEF Sleep, WakeSpuriously, NotifyOne, NotifyAll, Goto, ListInv, TypeInv, Asleep, Woken
  <2>3. TypeInv' /\ OnceEach' /\ HalfLinked' /\ freeCount' = Len(list')
    BY <2>1, <2>2 DEF ListInv, TypeInv, OnceEach, HalfLinked
  <2>4. Linked'
    BY <2>1, <2>2 DEF ListInv, Linked, IsChain
  <2> QED BY <2>3, <2>4 DEF ListInv
<1>4. CASE UNCHANGED vars
  BY <1>4 DEF vars, poolVars, ListInv, TypeInv, OnceEach, HalfLinked, Linked, IsChain
<1> QED BY <1>1, <1>2, <1>3, <1>4, AllocList, LinkNodeList DEF Next, Use

\* The pointers stay the lists they should be in every step.
THEOREM InductiveList == Spec => []ListInv
BY InitListInv, NextListInv, PTL DEF Spec

\* A list in which no node is twice is no longer than there are nodes.
LEMMA FreeCountBound == ListInv => freeCount \in 0 .. Capacity
<1> SUFFICES ASSUME ListInv PROVE freeCount \in 0 .. Capacity
  OBVIOUS
<1>1. list \in Injection(1 .. Len(list), Nodes) /\ Len(list) \in Nat
  <2>1. list \in Seq(Nodes) /\ \A i, j \in DOMAIN list : list[i] = list[j] => i = j
    BY DEF ListInv, TypeInv, OnceEach
  <2>2. list \in [1 .. Len(list) -> Nodes] /\ Len(list) \in Nat /\ DOMAIN list = 1 .. Len(list)
    BY <2>1
  <2> QED BY <2>1, <2>2 DEF Injection, IsInjective
<1>2. IsFiniteSet(Nodes) /\ Cardinality(Nodes) = Capacity
  BY CapacityAssumption, FS_Interval DEF Nodes
<1>3. Cardinality(1 .. Len(list)) <= Cardinality(Nodes)
  BY <1>1, <1>2, FS_Injection
<1>4. Cardinality(1 .. Len(list)) = Len(list)
  <2>1. Len(list) \in Int /\ 1 \in Int
    BY <1>1
  <2>2. Cardinality(1 .. Len(list)) = IF 1 > Len(list) THEN 0 ELSE Len(list) - 1 + 1
    BY <2>1, FS_Interval
  <2> QED BY <1>1, <2>2
<1> QED BY <1>1, <1>2, <1>3, <1>4, CapacityAssumption DEF ListInv

\* The types, and with them the bound of free_count_.
THEOREM TypeCorrect == Spec => []TypeOK
<1>1. ListInv => TypeOK
  BY FreeCountBound DEF ListInv, TypeInv, TypeOK
<1> QED BY <1>1, InductiveList, PTL

\* free_ and every chain lead through exactly their nodes and end in null, for
\* any capacity and number of threads.
THEOREM PointersLinked == Spec => []Linked
<1>1. ListInv => Linked
  BY DEF ListInv
<1> QED BY <1>1, InductiveList, PTL

-----------------------------------------------------------------------------
\* The threads that wait for no one else to wake them, or are about to wake one.
Wakers == {p \in Procs : pc[p] \in {"one", "awake"}}

LEMMA WakersFinite == IsFiniteSet(Wakers) /\ Cardinality(Wakers) \in Nat
BY ProcsAssumption, FS_Subset, FS_CardinalityType DEF Wakers

\* A step that wakes nobody up, and puts nobody to sleep, keeps the balance when
\* it adds no more free nodes than wakers.
LEMMA SameSleepers ==
  ASSUME NoLostWakeup, Asleep' \subseteq Asleep,
         \A p \in Procs : pc[p] = "all" => pc'[p] = "all",
         freeCount <= Cardinality(Wakers) => freeCount' <= Cardinality(Wakers)'
  PROVE  NoLostWakeup'
BY DEF NoLostWakeup, Wakers

LEMMA NextWakeup == ListInv /\ NoLostWakeup /\ [Next]_vars => NoLostWakeup'
<1> SUFFICES ASSUME ListInv, NoLostWakeup, [Next]_vars PROVE NoLostWakeup'
  OBVIOUS
<1> USE DEF ListInv, TypeInv
<1>1. ASSUME NEW p \in Procs, Alloc(p) PROVE NoLostWakeup'
  <2>1. /\ freeCount' = freeCount - 1 /\ pc' = [pc EXCEPT ![p] = "link"]
        /\ pc[p] \in {"out", "awake"}
    BY <1>1 DEF Alloc, Goto
  <2>2. Wakers' = Wakers \ {p}
    BY <2>1 DEF Wakers
  <2>3. Cardinality(Wakers') = IF p \in Wakers THEN Cardinality(Wakers) - 1
                                                ELSE Cardinality(Wakers)
    BY <2>2, WakersFinite, FS_RemoveElement
  <2>4. Asleep' \subseteq Asleep /\ \A q \in Procs : pc[q] = "all" => pc'[q] = "all"
    BY <2>1 DEF Asleep
  <2>5. Cardinality(Wakers') \in Nat
    BY <2>2, WakersFinite, FS_RemoveElement, FS_CardinalityType
  <2> QED BY <2>1, <2>3, <2>4, <2>5, WakersFinite, SameSleepers
<1>2. ASSUME NEW p \in Procs, Sleep(p) PROVE NoLostWakeup'
  <2>1. list = <<>> /\ freeCount' = freeCount /\ pc' = [pc EXCEPT ![p] = "asleep"]
        /\ pc[p] \in {"out", "awake"}
    <3>1. free = Null /\ Null \notin Nodes
      BY <1>2, CapacityAssumption DEF Sleep, Nodes, Null
    <3>2. list # <<>> => list[1] \in Nodes
      OBVIOUS
    <3> QED BY <1>2, <3>1, <3>2 DEF Sleep, Linked, IsChain, Goto, poolVars
  <2>2. freeCount' = 0
    BY <2>1
  <2>3. Wakers' \in SUBSET Procs
    BY DEF Wakers
  <2>4. Cardinality(Wakers') \in Nat
    BY <2>3, ProcsAssumption, FS_Subset, FS_CardinalityType
  <2> QED BY <2>2, <2>4 DEF NoLostWakeup, Wakers
<1>3. ASSUME NEW p \in Procs, WakeSpuriously(p) PROVE NoLostWakeup'
  <2>1. freeCount' = freeCount /\ pc' = [pc EXCEPT ![p] = "awake"] /\ pc[p] = "asleep"
    BY <1>3 DEF WakeSpuriously, Goto, poolVars
  <2>2. Wakers' = Wakers \cup {p}
    BY <2>1 DEF Wakers
  <2>3. Cardinality(Wakers') = IF p \in Wakers THEN Cardinality(Wakers)
                                                ELSE Cardinality(Wakers) + 1
    BY <2>2, WakersFinite, FS_AddElement
  <2>4. Asleep' \subseteq Asleep /\ \A q \in Procs : pc[q] = "all" => pc'[q] = "all"
    BY <2>1 DEF Asleep
  <2> QED BY <2>1, <2>3, <2>4, WakersFinite, SameSleepers
<1>4. ASSUME NEW p \in Procs, LinkNode(p) PROVE NoLostWakeup'
  <2>1. freeCount' = freeCount /\ pc' = [pc EXCEPT ![p] = "out"] /\ pc[p] = "link"
    BY <1>4 DEF LinkNode, Goto
  <2>2. Wakers' = Wakers /\ Asleep' \subseteq Asleep
        /\ \A q \in Procs : pc[q] = "all" => pc'[q] = "all"
    BY <2>1 DEF Wakers, Asleep
  <2> QED BY <2>1, <2>2, SameSleepers
<1>5. ASSUME NEW p \in Procs, Free(p) PROVE NoLostWakeup'
  <2>1. freeCount' = freeCount + 1 /\ pc' = [pc EXCEPT ![p] = "one"] /\ pc[p] = "out"
    BY <1>5 DEF Free, HasOne, Goto
  <2>2. Wakers' = Wakers \cup {p} /\ p \notin Wakers
    BY <2>1 DEF Wakers
  <2>3. Cardinality(Wakers') = Cardinality(Wakers) + 1
    BY <2>2, WakersFinite, FS_AddElement
  <2>4. Asleep' \subseteq Asleep /\ \A q \in Procs : pc[q] = "all" => pc'[q] = "all"
    BY <2>1 DEF Asleep
  <2> QED BY <2>1, <2>3, <2>4, WakersFinite, SameSleepers
<1>6. ASSUME NEW p \in Procs, Frees(p) PROVE NoLostWakeup'
  BY <1>6 DEF Frees, Goto, NoLostWakeup
<1>7. ASSUME NEW p \in Procs, NotifyOne(p) PROVE NoLostWakeup'
  <2>1. freeCount' = freeCount /\ pc[p] = "one"
    BY <1>7 DEF NotifyOne, poolVars
  <2>2. CASE Asleep = {}
    BY <1>7, <2>2 DEF NotifyOne, Asleep, Goto, NoLostWakeup
  <2>3. CASE Asleep # {}
    <3>1. PICK w \in Asleep : pc' = [pc EXCEPT ![p] = "out", ![w] = "awake"]
      BY <1>7, <2>3 DEF NotifyOne
    <3>2. w \in Procs /\ pc[w] = "asleep" /\ w # p
      BY <2>1 DEF Asleep
    <3>3. Wakers' = (Wakers \ {p}) \cup {w} /\ p \in Wakers /\ w \notin Wakers \ {p}
      BY <2>1, <3>1, <3>2 DEF Wakers
    <3>4. /\ IsFiniteSet(Wakers \ {p})
          /\ Cardinality(Wakers \ {p}) = Cardinality(Wakers) - 1
      BY <3>3, WakersFinite, FS_RemoveElement
    <3>5. Cardinality(Wakers') = Cardinality(Wakers \ {p}) + 1
      BY <3>3, <3>4, FS_AddElement
    <3>6. Asleep' \subseteq Asleep /\ \A q \in Procs : pc[q] = "all" => pc'[q] = "all"
      BY <2>1, <3>1, <3>2 DEF Asleep
    <3> QED BY <2>1, <3>4, <3>5, <3>6, WakersFinite, SameSleepers
  <2> QED BY <2>2, <2>3
<1>8. ASSUME NEW p \in Procs, NotifyAll(p) PROVE NoLostWakeup'
  BY <1>8 DEF NotifyAll, Woken, Asleep, NoLostWakeup
<1>9. CASE UNCHANGED vars
  BY <1>9 DEF vars, poolVars, NoLostWakeup, Asleep
<1> QED BY <1>1, <1>2, <1>3, <1>4, <1>5, <1>6, <1>7, <1>8, <1>9 DEF Next, Use

\* While a node is free no thread sleeps in alloc for ever unnoticed: the notify
\* calls made after the unlock are enough, for any number of threads.
THEOREM WakeupsSuffice == Spec => []NoLostWakeup
<1>1. Init => NoLostWakeup
  BY DEF Init, NoLostWakeup, Asleep
<1> QED BY <1>1, NextWakeup, InductiveList, PTL DEF Spec

-----------------------------------------------------------------------------
(* The contract of a pool.                                                 *)

\* Induction over the first numbers, by counting: from a number that is not in S the
\* step before leads down, to as many numbers again, one of which is missing.
LEMMA FirstNumbers ==
  ASSUME NEW N \in Nat, NEW S, 0 \in S, \A k \in 0 .. N : k + 1 <= N /\ k \in S => k + 1 \in S
  PROVE  0 .. N \subseteq S
<1> SUFFICES ASSUME NEW m \in 0 .. N, m \notin S PROVE FALSE
  OBVIOUS
<1> DEFINE T == {k \in 0 .. N : \E j \in 0 .. k : j \notin S}
           down == [k \in T |-> k - 1]
<1>1. N \in T
  OBVIOUS
<1>2. IsFiniteSet(T)
  <2>1. IsFiniteSet(0 .. N)
    BY FS_Interval
  <2> QED BY <2>1, FS_Subset
<1>3. \A k \in T : k - 1 \in T \ {N}
  <2> SUFFICES ASSUME NEW k \in T PROVE k - 1 \in T \ {N}
    OBVIOUS
  <2>1. PICK j \in 0 .. k : j \notin S
    OBVIOUS
  <2>2. k \in 0 .. N /\ j # 0 /\ j - 1 \in 0 .. N /\ (j - 1) + 1 = j
    BY <2>1
  <2>3. j - 1 \notin S
    BY <2>1, <2>2
  <2>4. k - 1 \in 0 .. N /\ j - 1 \in 0 .. k - 1 /\ k - 1 # N
    BY <2>1, <2>2
  <2> QED BY <2>3, <2>4
<1>4. down \in Injection(T, T \ {N})
  <2>1. down \in [T -> T \ {N}]
    BY <1>3
  <2>2. \A a, b \in T : down[a] = down[b] => a = b
    OBVIOUS
  <2> QED BY <2>1, <2>2 DEF Injection, IsInjective
<1> HIDE DEF T, down
<1>5. /\ IsFiniteSet(T \ {N}) /\ Cardinality(T \ {N}) = Cardinality(T) - 1
      /\ Cardinality(T) \in Nat
  BY <1>1, <1>2, FS_RemoveElement, FS_CardinalityType
<1>6. Cardinality(T) <= Cardinality(T \ {N})
  BY <1>4, <1>5, FS_Injection
<1> QED BY <1>5, <1>6

\* What Walk is: there is a function as it demands.
LEMMA WalkDef ==
  ASSUME ListInv
  PROVE  Walk = [k \in Nat |-> IF k = 0 THEN free
                               ELSE IF Walk[k - 1] = Null THEN Null ELSE next[Walk[k - 1]]]
<1> DEFINE g == [k \in Nat |-> IF k < Len(list) THEN list[k + 1] ELSE Null]
<1>1. /\ list \in Seq(Nodes) /\ Len(list) \in Nat /\ Null \notin Nodes
      /\ free = IF list = <<>> THEN Null ELSE list[1]
      /\ \A i \in 1 .. Len(list) : next[list[i]] = IF i = Len(list) THEN Null ELSE list[i + 1]
  <2>1. list \in Seq(Nodes) /\ Null \notin Nodes
    BY CapacityAssumption DEF ListInv, TypeInv, Nodes, Null
  <2>2. IsChain(free, list, Null) /\ Len(list) \in Nat /\ DOMAIN list = 1 .. Len(list)
    BY <2>1 DEF ListInv, Linked
  <2> QED BY <2>1, <2>2 DEF IsChain
<1>2. ASSUME NEW k \in Nat
      PROVE  g[k] = IF k = 0 THEN free
                    ELSE IF g[k - 1] = Null THEN Null ELSE next[g[k - 1]]
  <2>1. CASE k = 0
    <3>1. list = <<>> <=> Len(list) = 0
      BY <1>1
    <3> QED BY <1>1, <2>1, <3>1
  <2>2. CASE k # 0 /\ k - 1 < Len(list)
    <3>1. k - 1 \in Nat /\ k \in 1 .. Len(list) /\ g[k - 1] = list[k] /\ list[k] \in Nodes
      BY <1>1, <2>2
    <3>2. next[list[k]] = IF k = Len(list) THEN Null ELSE list[k + 1]
      BY <1>1, <3>1
    <3> QED BY <1>1, <2>2, <3>1, <3>2
  <2>3. CASE k # 0 /\ ~(k - 1 < Len(list))
    <3>1. k - 1 \in Nat /\ ~(k < Len(list))
      BY <1>1, <2>3
    <3> QED BY <2>3, <3>1
  <2> QED BY <2>1, <2>2, <2>3
<1>3. g = [k \in Nat |-> IF k = 0 THEN free
                         ELSE IF g[k - 1] = Null THEN Null ELSE next[g[k - 1]]]
  BY <1>2
<1> HIDE DEF g
<1>4. \E f : f = [k \in Nat |-> IF k = 0 THEN free
                                ELSE IF f[k - 1] = Null THEN Null ELSE next[f[k - 1]]]
  BY <1>3
<1> QED BY <1>4 DEF Walk

\* The free list is never longer than the pool.
LEMMA ListLength == ListInv => Len(list) <= Capacity
BY FreeCountBound DEF ListInv

\* What Walk reaches are the nodes of the list, and then null.
LEMMA WalkList ==
  ASSUME ListInv
  PROVE  FreeNodes = Range(list)
<1>1. /\ list \in Seq(Nodes) /\ Null \notin Nodes /\ Len(list) \in Nat
      /\ DOMAIN list = 1 .. Len(list)
  BY CapacityAssumption DEF ListInv, TypeInv, Nodes, Null
<1>2. /\ free = IF list = <<>> THEN Null ELSE list[1]
      /\ \A i \in 1 .. Len(list) : next[list[i]] = IF i = Len(list) THEN Null ELSE list[i + 1]
  BY <1>1 DEF ListInv, Linked, IsChain
<1>3. Len(list) <= Capacity
  BY <1>1, ListLength
<1>4. \A k \in Nat : Walk[k] = IF k = 0 THEN free
                                ELSE IF Walk[k - 1] = Null THEN Null ELSE next[Walk[k - 1]]
  BY WalkDef
<1> DEFINE S == {k \in Nat : Walk[k] = IF k < Len(list) THEN list[k + 1] ELSE Null}
<1>5. 0 \in S
  <2>1. list = <<>> <=> ~(0 < Len(list))
    BY <1>1
  <2>2. Walk[0] = free
    BY <1>4
  <2> QED BY <1>2, <2>1, <2>2
<1>6. ASSUME NEW k \in 0 .. Capacity, k + 1 <= Capacity, k \in S
      PROVE  k + 1 \in S
  <2>1. k \in Nat /\ k + 1 \in Nat /\ k + 1 # 0 /\ (k + 1) - 1 = k
    BY CapacityAssumption
  <2>2. Walk[k + 1] = IF Walk[k] = Null THEN Null ELSE next[Walk[k]]
    BY <1>4, <2>1
  <2>3. Walk[k] = IF k < Len(list) THEN list[k + 1] ELSE Null
    BY <1>6
  <2>4. CASE k < Len(list)
    <3>1. k + 1 \in 1 .. Len(list) /\ list[k + 1] \in Nodes
      BY <1>1, <2>1, <2>4
    <3>2. Walk[k + 1] = IF k + 1 = Len(list) THEN Null ELSE list[(k + 1) + 1]
      BY <1>1, <1>2, <2>2, <2>3, <2>4, <3>1
    <3>3. k + 1 = Len(list) <=> ~(k + 1 < Len(list))
      <4>1. PICK L \in Nat : L = Len(list)
        BY <1>1
      <4>2. k + 1 <= L
        BY <2>1, <2>4, <4>1
      <4>3. k + 1 = L <=> ~(k + 1 < L)
        BY <2>1, <4>1, <4>2
      <4> QED BY <4>1, <4>3
    <3>4. Walk[k + 1] = IF k + 1 < Len(list) THEN list[(k + 1) + 1] ELSE Null
      BY <3>2, <3>3
    <3> QED BY <2>1, <3>4
  <2>5. CASE ~(k < Len(list))
    <3>1. ~(k + 1 < Len(list))
      BY <1>1, <2>1, <2>5
    <3> QED BY <2>1, <2>2, <2>3, <2>5, <3>1
  <2> QED BY <2>4, <2>5
<1>7. \A k \in 0 .. Capacity : Walk[k] = IF k < Len(list) THEN list[k + 1] ELSE Null
  <2> HIDE DEF S
  <2>1. 0 .. Capacity \subseteq S
    BY <1>5, <1>6, CapacityAssumption, FirstNumbers
  <2> QED BY <2>1 DEF S
<1>8. ASSUME NEW n \in FreeNodes PROVE n \in Range(list)
  <2>1. PICK k \in 0 .. Capacity : n = Walk[k] /\ n # Null
    BY DEF FreeNodes
  <2>2. k < Len(list) /\ n = list[k + 1]
    BY <1>7, <2>1
  <2>3. k + 1 \in 1 .. Len(list)
    BY <1>1, <2>2, CapacityAssumption
  <2> QED BY <1>1, <2>2, <2>3 DEF Range
<1>9. ASSUME NEW n \in Range(list) PROVE n \in FreeNodes
  <2>1. PICK i \in 1 .. Len(list) : n = list[i] /\ n \in Nodes
    BY <1>1 DEF Range
  <2>2. i - 1 \in 0 .. Capacity /\ i - 1 < Len(list) /\ (i - 1) + 1 = i
    BY <1>1, <1>3, CapacityAssumption
  <2>3. Walk[i - 1] = n /\ n # Null
    BY <1>1, <1>7, <2>1, <2>2
  <2> QED BY <2>2, <2>3 DEF FreeNodes
<1> QED BY <1>8, <1>9

\* What next_ links behind free_ are the nodes of the list.
Listed == FreeNodes = Range(list)

\* At first every node is free.
LEMMA PoolInit == Init => Contract!Init
<1> SUFFICES ASSUME Init PROVE Contract!Init
  OBVIOUS
<1>1. FreeNodes = Range(list)
  BY InitListInv, WalkList
<1>2. Range(list) = Nodes
  BY DEF Init, Range
<1>3. \A p \in Procs : Range(chain[p]) = {}
  BY DEF Init, Range
<1> QED BY <1>1, <1>2, <1>3 DEF Contract!Init

\* Who owns what changes for one thread only.
LEMMA OneOwner ==
  ASSUME ListInv, NEW p \in Procs, NEW c, chain' = [chain EXCEPT ![p] = c]
  PROVE  [q \in Procs |-> Range(chain'[q])]
           = [[q \in Procs |-> Range(chain[q])] EXCEPT ![p] = Range(c)]
<1>1. chain \in [Procs -> Seq(Nodes)]
  BY DEF ListInv, TypeInv
<1>2. chain'[p] = c /\ \A q \in Procs \ {p} : chain'[q] = chain[q]
  BY <1>1
<1> DEFINE old == [q \in Procs |-> Range(chain[q])]
           new == [q \in Procs |-> Range(chain'[q])]
<1>3. new \in [Procs -> {Range(chain'[q]) : q \in Procs}]
  OBVIOUS
<1>4. \A q \in Procs : new[q] = [old EXCEPT ![p] = Range(c)][q]
  <2> SUFFICES ASSUME NEW q \in Procs PROVE new[q] = [old EXCEPT ![p] = Range(c)][q]
    OBVIOUS
  <2>1. CASE q = p
    BY <1>2, <2>1
  <2>2. CASE q # p
    BY <1>2, <2>2
  <2> QED BY <2>1, <2>2
<1>5. DOMAIN new = Procs /\ DOMAIN [old EXCEPT ![p] = Range(c)] = Procs
  OBVIOUS
<1>6. new = [q \in Procs |-> new[q]]
  OBVIOUS
<1>7. [old EXCEPT ![p] = Range(c)] = [q \in Procs |-> [old EXCEPT ![p] = Range(c)][q]]
  OBVIOUS
<1>8. new = [old EXCEPT ![p] = Range(c)]
  <2> HIDE DEF old, new
  <2> QED BY <1>4, <1>6, <1>7
<1> QED BY <1>8

\* A step takes a node, gives some back, or changes nothing that the contract sees.
LEMMA PoolStep ==
  ListInv /\ Listed /\ Listed' /\ [Next]_vars =>
     [Contract!Next]_<<FreeNodes, [p \in Procs |-> Range(chain[p])]>>
<1> SUFFICES ASSUME ListInv, Listed, Listed', [Next]_vars
             PROVE  [Contract!Next]_<<FreeNodes, [p \in Procs |-> Range(chain[p])]>>
  OBVIOUS
<1>1. FreeNodes = Range(list) /\ FreeNodes' = Range(list')
  BY DEF Listed
<1>2. list \in Seq(Nodes) /\ chain \in [Procs -> Seq(Nodes)] /\ OnceEach
  BY DEF ListInv, TypeInv
<1>3. ASSUME NEW p \in Procs, Alloc(p) PROVE Contract!Next
  <2>1. PICK n : n = free /\ n # Null
    BY <1>3 DEF Alloc
  <2>2. list # <<>> /\ n = list[1] /\ n \in Nodes
    BY <1>2, <2>1 DEF ListInv, Linked, IsChain
  <2>3. list' = Tail(list) /\ chain' = [chain EXCEPT ![p] = Append(chain[p], n)]
    BY <1>2, <1>3, <2>1 DEF Alloc
  <2>4. Range(list') = Range(list) \ {n} /\ n \in Range(list)
    <3>1. /\ 1 \in DOMAIN list /\ DOMAIN list = 1 .. Len(list) /\ Len(list) \in Nat
          /\ DOMAIN list' = 1 .. Len(list) - 1
          /\ \A i \in 1 .. Len(list) - 1 : list'[i] = list[i + 1]
      BY <1>2, <2>2, <2>3
    <3>2. ASSUME NEW m \in Range(list') PROVE m \in Range(list) \ {n}
      <4>1. PICK i \in 1 .. Len(list) - 1 : m = list[i + 1]
        BY <3>1 DEF Range
      <4>2. i + 1 \in DOMAIN list /\ i + 1 # 1
        BY <3>1
      <4>3. m # n
        BY <1>2, <2>2, <3>1, <4>1, <4>2 DEF OnceEach
      <4> QED BY <4>1, <4>2, <4>3 DEF Range
    <3>3. ASSUME NEW m \in Range(list) \ {n} PROVE m \in Range(list')
      <4>1. PICK i \in 1 .. Len(list) : m = list[i]
        BY <3>1 DEF Range
      <4>2. i - 1 \in 1 .. Len(list) - 1 /\ (i - 1) + 1 = i
        BY <2>2, <3>1, <4>1
      <4>3. list'[i - 1] = m
        BY <3>1, <4>1, <4>2
      <4> QED BY <3>1, <4>2, <4>3 DEF Range
    <3>4. n \in Range(list)
      BY <2>2, <3>1 DEF Range
    <3> QED BY <3>2, <3>3, <3>4
  <2>5. Range(Append(chain[p], n)) = Range(chain[p]) \cup {n}
    <3>1. PICK c \in Seq(Nodes) : c = chain[p]
      BY <1>2
    <3>2. /\ DOMAIN c = 1 .. Len(c) /\ DOMAIN Append(c, n) = 1 .. Len(c) + 1 /\ Len(c) \in Nat
          /\ \A i \in 1 .. Len(c) : Append(c, n)[i] = c[i]
          /\ Append(c, n)[Len(c) + 1] = n
      BY <2>2
    <3>3. ASSUME NEW m \in Range(Append(c, n)) PROVE m \in Range(c) \cup {n}
      <4>1. PICK i \in 1 .. Len(c) + 1 : m = Append(c, n)[i]
        BY <3>2, <3>3 DEF Range
      <4>2. i \in 1 .. Len(c) \/ i = Len(c) + 1
        BY <3>2, <4>1
      <4> QED BY <3>2, <4>1, <4>2 DEF Range
    <3>4. ASSUME NEW m \in Range(c) PROVE m \in Range(Append(c, n))
      <4>1. PICK i \in 1 .. Len(c) : m = c[i]
        BY <3>2, <3>4 DEF Range
      <4>2. i \in 1 .. Len(c) + 1 /\ m = Append(c, n)[i]
        BY <3>2, <4>1
      <4> QED BY <3>2, <4>2 DEF Range
    <3>5. n \in Range(Append(c, n))
      <4>1. Len(c) + 1 \in 1 .. Len(c) + 1
        BY <3>2
      <4> QED BY <3>2, <4>1 DEF Range
    <3>6. Range(Append(c, n)) = Range(c) \cup {n}
      BY <3>3, <3>4, <3>5
    <3> QED BY <3>1, <3>6
  <2>6. Contract!Take(p, n)
    BY <1>1, <2>3, <2>4, <2>5, OneOwner DEF Contract!Take
  <2> QED BY <2>2, <2>6 DEF Contract!Next
<1>4. ASSUME NEW p \in Procs, Free(p) \/ Frees(p) PROVE Contract!Next
  <2>1. PICK c \in Seq(Nodes) : c = chain[p]
    BY <1>2
  <2>2. c # <<>> /\ list' = c \o list /\ chain' = [chain EXCEPT ![p] = <<>>]
    <3>1. CASE Free(p)
      <4>1. Len(c) = 1
        BY <2>1, <3>1 DEF Free, HasOne
      <4>2. c = <<c[1]>>
        BY <4>1
      <4>3. list' = <<c[1]>> \o list /\ chain' = [chain EXCEPT ![p] = <<>>]
        BY <2>1, <3>1 DEF Free
      <4>4. list' = c \o list
        BY <4>2, <4>3
      <4> QED BY <4>1, <4>3, <4>4
    <3>2. CASE Frees(p)
      BY <2>1, <3>2 DEF Frees, HasSome
    <3> QED BY <1>4, <3>1, <3>2
  <2>3. Range(c \o list) = Range(list) \cup Range(c)
    <3>1. /\ DOMAIN c = 1 .. Len(c) /\ DOMAIN list = 1 .. Len(list)
          /\ DOMAIN (c \o list) = 1 .. Len(c) + Len(list)
          /\ Len(c) \in Nat /\ Len(list) \in Nat
          /\ \A i \in 1 .. Len(c) + Len(list) :
                (c \o list)[i] = IF i <= Len(c) THEN c[i] ELSE list[i - Len(c)]
      BY <1>2
    <3>2. ASSUME NEW m \in Range(c \o list) PROVE m \in Range(list) \cup Range(c)
      <4>1. PICK i \in 1 .. Len(c) + Len(list) : m = (c \o list)[i]
        BY <3>1 DEF Range
      <4>2. CASE i <= Len(c)
        <5>1. i \in DOMAIN c /\ m = c[i]
          BY <3>1, <4>1, <4>2
        <5> QED BY <5>1 DEF Range
      <4>3. CASE i > Len(c)
        <5>1. i - Len(c) \in DOMAIN list /\ m = list[i - Len(c)]
          BY <3>1, <4>1, <4>3
        <5> QED BY <5>1 DEF Range
      <4> QED BY <3>1, <4>2, <4>3
    <3>3. ASSUME NEW m \in Range(c) PROVE m \in Range(c \o list)
      <4>1. PICK i \in 1 .. Len(c) : m = c[i]
        BY <3>1, <3>3 DEF Range
      <4>2. i \in 1 .. Len(c) + Len(list) /\ (c \o list)[i] = m
        BY <3>1, <4>1
      <4> QED BY <3>1, <4>2 DEF Range
    <3>4. ASSUME NEW m \in Range(list) PROVE m \in Range(c \o list)
      <4>1. PICK i \in 1 .. Len(list) : m = list[i]
        BY <3>1, <3>4 DEF Range
      <4>2. /\ i + Len(c) \in 1 .. Len(c) + Len(list) /\ ~(i + Len(c) <= Len(c))
            /\ (i + Len(c)) - Len(c) = i
        BY <3>1, <4>1
      <4>3. (c \o list)[i + Len(c)] = m
        BY <3>1, <4>1, <4>2
      <4> QED BY <3>1, <4>2, <4>3 DEF Range
    <3> QED BY <3>2, <3>3, <3>4
  <2>4. Range(c) # {} /\ Range(c) \subseteq Nodes
    BY <2>2 DEF Range
  <2>5. Range(<<>>) = {} /\ Range(c) \ Range(c) = {}
    BY DEF Range
  <2>6. Contract!GiveBack(p, Range(c))
    BY <1>1, <2>1, <2>2, <2>3, <2>4, <2>5, OneOwner DEF Contract!GiveBack
  <2> QED BY <2>4, <2>6 DEF Contract!Next
<1>5. ASSUME UNCHANGED <<list, chain>>
      PROVE  UNCHANGED <<FreeNodes, [p \in Procs |-> Range(chain[p])]>>
  BY <1>1, <1>5
<1>6. CASE \E p \in Procs : Sleep(p) \/ WakeSpuriously(p) \/ LinkNode(p)
                             \/ NotifyOne(p) \/ NotifyAll(p)
  BY <1>5, <1>6 DEF Sleep, WakeSpuriously, LinkNode, NotifyOne, NotifyAll, poolVars
<1>7. CASE UNCHANGED vars
  BY <1>5, <1>7 DEF vars, poolVars
<1> QED BY <1>3, <1>4, <1>6, <1>7 DEF Next, Use

\* The pool with its pointers implements ObjectPool, for any capacity and number of
\* threads: a node is free, or belongs to the one thread that alloc gave it to.
THEOREM ImplementsThePool == Spec => PoolSpec
<1>1. ListInv => Listed
  BY WalkList DEF Listed
<1> QED BY <1>1, PoolStep, PoolInit, InductiveList, PTL DEF Spec, PoolSpec, Contract!Spec

(***************************************************************************)
(* ThreadData.                                                             *)
(***************************************************************************)
\* Threads that have not counted themselves down yet.
NotStarted == {t \in Threads : place[t] \in {"new", "startcall", "startdec"}}
NotStopped == {t \in Threads : place[t] \notin {"stopread", "delete", "gone"}}

CountInv ==
    /\ startCount = Cardinality(NotStarted)
    /\ stopCount = Cardinality(NotStopped)

StartInv ==
    /\ start => given.start
    /\ \A t \in Threads : place[t] # "new" => (t \in started <=> given.start)
    /\ \A t \in Threads : place[t] = "new" => t \notin started
    /\ startCount # 0 => (start <=> given.start)
    /\ \A t \in Threads : place[t] = "startdrop" => startCount = 0

StopInv ==
    /\ ~alive => stopCount = 0
    /\ \A t \in Threads : place[t] = "delete" => stopCount = 0
    /\ alive /\ stopCount = 0 /\ fault = "none" =>
          \E t \in Threads : place[t] \in {"stopread", "delete"}

TDInv == TDTypeOK /\ CountInv /\ StartInv /\ StopInv

-----------------------------------------------------------------------------
\* Both sets are finite, and a count of zero says that nobody is in the set.
LEMMA Finite ==
  /\ IsFiniteSet(NotStarted) /\ IsFiniteSet(NotStopped)
  /\ Cardinality(NotStarted) \in 0 .. Cardinality(Threads)
  /\ Cardinality(NotStopped) \in 0 .. Cardinality(Threads)
<1>1. NotStarted \in SUBSET Threads /\ NotStopped \in SUBSET Threads
  BY DEF NotStarted, NotStopped
<1>2. IsFiniteSet(Threads)
  BY ThreadsAssumption
<1>3. IsFiniteSet(NotStarted) /\ IsFiniteSet(NotStopped)
  BY <1>1, <1>2, FS_Subset
<1>4. Cardinality(NotStarted) <= Cardinality(Threads) /\ Cardinality(NotStopped) <= Cardinality(Threads)
  BY <1>1, <1>2, FS_Subset
<1>5. /\ Cardinality(NotStarted) \in Nat /\ Cardinality(NotStopped) \in Nat
      /\ Cardinality(Threads) \in Nat
  BY <1>2, <1>3, FS_CardinalityType
<1> QED BY <1>3, <1>4, <1>5

\* The same of the next state.
LEMMA FinitePrime ==
  /\ Cardinality(NotStarted') \in 0 .. Cardinality(Threads)
  /\ Cardinality(NotStopped') \in 0 .. Cardinality(Threads)
<1>1. NotStarted' \in SUBSET Threads /\ NotStopped' \in SUBSET Threads
  BY DEF NotStarted, NotStopped
<1>2. IsFiniteSet(Threads)
  BY ThreadsAssumption
<1>3. IsFiniteSet(NotStarted') /\ IsFiniteSet(NotStopped')
  BY <1>1, <1>2, FS_Subset
<1>4. Cardinality(NotStarted') <= Cardinality(Threads) /\ Cardinality(NotStopped') <= Cardinality(Threads)
  BY <1>1, <1>2, FS_Subset
<1>5. /\ Cardinality(NotStarted') \in Nat /\ Cardinality(NotStopped') \in Nat
      /\ Cardinality(Threads) \in Nat
  BY <1>2, <1>3, FS_CardinalityType
<1> QED BY <1>4, <1>5

LEMMA Zero ==
  ASSUME CountInv
  PROVE  /\ startCount = 0 => NotStarted = {}
         /\ stopCount = 0 <=> NotStopped = {}
BY Finite, FS_EmptySet DEF CountInv

LEMMA TDInitInv == TDInit => TDInv
<1> SUFFICES ASSUME TDInit PROVE TDInv
  OBVIOUS
<1>1. NotStarted = Threads /\ NotStopped = Threads
  BY DEF TDInit, NotStarted, NotStopped
<1>2. CountInv
  BY <1>1 DEF TDInit, CountInv, Num
<1>3. Cardinality(Threads) \in Nat /\ Cardinality(Threads) # 0
  BY ThreadsAssumption, FS_CardinalityType, FS_EmptySet
<1>4. TDTypeOK
  BY <1>3, CallbacksAssumption DEF TDInit, TDTypeOK, Points, Num
<1>5. StartInv
  BY <1>3 DEF TDInit, StartInv
<1>6. StopInv
  BY <1>3 DEF TDInit, StopInv, Num
<1> QED BY <1>2, <1>4, <1>5, <1>6 DEF TDInv

\* A step of thread_func counts a thread down exactly when it decrements.
LEMMA CountStep ==
  ASSUME TDInv, NEW t \in Threads, ThreadFunc(t)
  PROVE  CountInv'
<1> USE DEF TDInv, TDTypeOK
<1>1. CASE StartDec(t)
  <2>1. NotStarted' = NotStarted \ {t} /\ t \in NotStarted /\ NotStopped' = NotStopped
    BY <1>1 DEF StartDec, At, GoOn, NotStarted, NotStopped
  <2>2. Cardinality(NotStarted') = Cardinality(NotStarted) - 1
    BY <2>1, Finite, FS_RemoveElement
  <2> QED BY <1>1, <2>1, <2>2 DEF StartDec, CountInv
<1>2. CASE StopDec(t)
  <2>1. NotStopped' = NotStopped \ {t} /\ t \in NotStopped /\ NotStarted' = NotStarted
    BY <1>2 DEF StopDec, At, GoOn, NotStarted, NotStopped
  <2>2. Cardinality(NotStopped') = Cardinality(NotStopped) - 1
    BY <2>1, Finite, FS_RemoveElement
  <2> QED BY <1>2, <2>1, <2>2 DEF StopDec, CountInv
<1>3. CASE ~StartDec(t) /\ ~StopDec(t)
  <2>1. UNCHANGED <<startCount, stopCount>>
    BY <1>3 DEF ThreadFunc, Begin, StartDone, StartRead, Drop, Leave, StopTest,
          EmptyCall, StopDone, StopRead, Delete, Race, UseAfterFree, Fail
  <2>2. NotStarted' = NotStarted /\ NotStopped' = NotStopped
    <3>1. CASE Begin(t) \/ StartDone(t) \/ StartRead(t) \/ Drop(t) \/ Leave(t)
      BY <3>1 DEF Begin, StartDone, StartRead, Drop, Leave, At, GoOn, NotStarted, NotStopped
    <3>2. CASE StopTest(t) \/ StopDone(t) \/ StopRead(t) \/ Delete(t)
      BY <3>2 DEF StopTest, StopDone, StopRead, Delete, At, GoOn, NotStarted, NotStopped
    <3>3. CASE EmptyCall(t) \/ Race(t) \/ UseAfterFree(t)
      BY <3>3 DEF EmptyCall, Race, UseAfterFree, Fail, NotStarted, NotStopped
    <3> QED BY <1>3, <3>1, <3>2, <3>3 DEF ThreadFunc
  <2> QED BY <2>1, <2>2 DEF CountInv
<1> QED BY <1>1, <1>2, <1>3

LEMMA TypeStep ==
  ASSUME TDInv, NEW t \in Threads, ThreadFunc(t)
  PROVE  TDTypeOK'
<1> USE DEF TDInv, TDTypeOK, Points
<1>1. startCount' \in 0 .. Cardinality(Threads) /\ stopCount' \in 0 .. Cardinality(Threads)
  BY CountStep, FinitePrime DEF CountInv
<1>2. CASE Begin(t) \/ StartDone(t) \/ StartDec(t) \/ StartRead(t) \/ Drop(t) \/ Leave(t)
  BY <1>1, <1>2 DEF Begin, StartDone, StartDec, StartRead, Drop, Leave, GoOn
<1>3. CASE StopTest(t) \/ StopDone(t) \/ StopDec(t) \/ StopRead(t) \/ Delete(t)
  BY <1>1, <1>3 DEF StopTest, StopDone, StopDec, StopRead, Delete, GoOn
<1>4. CASE EmptyCall(t) \/ Race(t) \/ UseAfterFree(t)
  BY <1>1, <1>4 DEF EmptyCall, Race, UseAfterFree, Fail
<1> QED BY <1>2, <1>3, <1>4 DEF ThreadFunc

\* A thread that still has to run the start callback finds it: as long as it has
\* not counted itself down, nobody has counted to zero.
LEMMA StartStep ==
  ASSUME TDInv, NEW t \in Threads, ThreadFunc(t)
  PROVE  StartInv'
<1> USE DEF TDInv, TDTypeOK, StartInv
<1>1. CASE Begin(t)
  <2>1. t \in NotStarted
    BY <1>1 DEF Begin, At, NotStarted
  <2>2. startCount # 0 /\ (start <=> given.start)
    BY <2>1, Zero
  <2>3. place'[t] # "startdrop" /\ \A u \in Threads : u # t => place'[u] = place[u]
    BY <1>1 DEF Begin, GoOn
  <2>4. started' = IF start THEN started \cup {t} ELSE started
    BY <1>1 DEF Begin
  <2>5. UNCHANGED <<given, start, startCount>>
    BY <1>1 DEF Begin
  <2>6. place'[t] # "new" /\ (t \in started' <=> given.start)
    BY <1>1, <2>2, <2>4 DEF Begin, At, GoOn
  <2>7. ASSUME NEW u \in Threads, u # t
        PROVE  /\ place'[u] # "new" => (u \in started' <=> given.start)
               /\ place'[u] = "new" => u \notin started'
    BY <2>3, <2>4, <2>7
  <2> QED BY <2>2, <2>3, <2>5, <2>6, <2>7
<1>2. CASE StartDec(t)
  <2>1. t \in NotStarted
    BY <1>2 DEF StartDec, At, NotStarted
  <2>2. startCount # 0
    BY <2>1, Zero
  <2> QED BY <1>2, <2>2 DEF StartDec, At, GoOn
<1>3. CASE StartRead(t)
  <2>1. /\ place[t] = "startread" /\ UNCHANGED <<given, start, startCount, started>>
        /\ place'[t] = IF startCount = 0 THEN "startdrop" ELSE "run"
        /\ \A u \in Threads : u # t => place'[u] = place[u]
    BY <1>3 DEF StartRead, At, GoOn, AllHaveStarted
  <2> QED BY <2>1
<1>4. CASE Drop(t)
  <2>1. /\ place[t] = "startdrop" /\ UNCHANGED <<given, startCount, started>>
        /\ place'[t] = "run" /\ ~start'
        /\ \A u \in Threads : u # t => place'[u] = place[u]
    BY <1>4 DEF Drop, At, GoOn
  <2> QED BY <2>1
<1>6. CASE StartDone(t) \/ Leave(t) \/ StopTest(t) \/ StopDone(t) \/ StopDec(t)
           \/ StopRead(t) \/ Delete(t)
  <2>1. /\ place[t] # "new" /\ place'[t] \notin {"new", "startdrop"}
        /\ UNCHANGED <<given, start, startCount, started>>
        /\ \A u \in Threads : u # t => place'[u] = place[u]
    BY <1>6 DEF StartDone, Leave, StopTest, StopDone, StopDec, StopRead, Delete, At, GoOn
  <2> QED BY <2>1
<1>5. CASE EmptyCall(t) \/ Race(t) \/ UseAfterFree(t)
  <2>1. UNCHANGED <<place, given, start, startCount, started>>
    BY <1>5 DEF EmptyCall, Race, UseAfterFree, Fail
  <2> QED BY <2>1
<1> QED BY <1>1, <1>2, <1>3, <1>4, <1>5, <1>6 DEF ThreadFunc

\* Whoever counted to zero is still on the way to the delete, or it has happened.
LEMMA StopStep ==
  ASSUME TDInv, NEW t \in Threads, ThreadFunc(t)
  PROVE  StopInv'
<1> USE DEF TDInv, TDTypeOK, StopInv
<1>1. CASE StopDec(t)
  <2>1. t \in NotStopped
    BY <1>1 DEF StopDec, At, NotStopped
  <2>2. stopCount # 0
    BY <2>1, Zero
  <2>3. place'[t] = "stopread" /\ \A u \in Threads : u # t => place'[u] = place[u]
    BY <1>1 DEF StopDec, GoOn
  <2> QED BY <1>1, <2>2, <2>3 DEF StopDec
<1>2. CASE StopRead(t)
  <2>1. /\ place'[t] = IF stopCount = 0 THEN "delete" ELSE "gone"
        /\ \A u \in Threads : u # t => place'[u] = place[u]
    BY <1>2 DEF StopRead, GoOn, AllHaveStopped
  <2> QED BY <1>2, <2>1 DEF StopRead
<1>3. CASE Delete(t)
  BY <1>3 DEF Delete, At, GoOn
<1>4. CASE Begin(t) \/ StartDone(t) \/ StartDec(t) \/ StartRead(t) \/ Drop(t) \/ Leave(t) \/ StopTest(t) \/ StopDone(t)
  <2>1. UNCHANGED <<stopCount, alive, fault>>
    BY <1>4 DEF Begin, StartDone, StartDec, StartRead, Drop, Leave, StopTest, StopDone
  <2>2. /\ place[t] \notin {"stopread", "delete"} /\ place'[t] # "delete"
        /\ \A u \in Threads : u # t => place'[u] = place[u]
    <3>1. CASE Begin(t) \/ StartDone(t) \/ StartDec(t) \/ StartRead(t)
      BY <3>1 DEF Begin, StartDone, StartDec, StartRead, At, GoOn
    <3>2. CASE Drop(t) \/ Leave(t) \/ StopTest(t) \/ StopDone(t)
      BY <3>2 DEF Drop, Leave, StopTest, StopDone, At, GoOn
    <3> QED BY <1>4, <3>1, <3>2
  <2> QED BY <2>1, <2>2
<1>5. CASE EmptyCall(t) \/ Race(t) \/ UseAfterFree(t)
  BY <1>5 DEF EmptyCall, Race, UseAfterFree, Fail
<1> QED BY <1>1, <1>2, <1>3, <1>4, <1>5 DEF ThreadFunc

LEMMA TDNextInv == TDInv /\ [TDNext]_tdVars => TDInv'
<1> SUFFICES ASSUME TDInv, [TDNext]_tdVars PROVE TDInv'
  OBVIOUS
<1>1. ASSUME NEW t \in Threads, ThreadFunc(t) PROVE TDInv'
  BY <1>1, CountStep, TypeStep, StartStep, StopStep DEF TDInv
<1>2. CASE Over \/ UNCHANGED tdVars
  <2>1. UNCHANGED tdVars
    BY <1>2 DEF Over
  <2>2. NotStarted' = NotStarted /\ NotStopped' = NotStopped
    BY <2>1 DEF tdVars, NotStarted, NotStopped
  <2> QED BY <2>1, <2>2 DEF tdVars, TDInv, TDTypeOK, CountInv, StartInv, StopInv
<1> QED BY <1>1, <1>2 DEF TDNext

-----------------------------------------------------------------------------
\* TDInv holds initially and every step of thread_func keeps it.
THEOREM TDInductive == TDSpec => []TDInv
BY TDInitInv, TDNextInv, PTL DEF TDSpec

\* The two counters never wrap below zero, for any number of threads.
THEOREM TDTypeCorrect == TDSpec => []TDTypeOK
<1>1. TDInv => TDTypeOK
  BY DEF TDInv
<1> QED BY <1>1, TDInductive, PTL

\* thread_func with flag 1: every thread of a pool runs the start callback, and
\* whoever drops start_ does so when nobody can still want it.
THEOREM StartCallbackRuns == TDSpec => []StartRuns
<1>1. TDInv => StartRuns
  <2> SUFFICES ASSUME TDInv, NEW t \in Threads
               PROVE  /\ place[t] # "new" => (t \in started <=> given.start)
                      /\ place[t] = "startdrop" =>
                            \A u \in Threads : place[u] \notin {"new", "startcall"}
    BY DEF StartRuns
  <2>1. place[t] = "startdrop" => NotStarted = {}
    BY Zero DEF TDInv, StartInv
  <2> QED BY <2>1 DEF TDInv, StartInv, NotStarted
<1> QED BY <1>1, TDInductive, PTL

\* thread_func with flag 2: the tdata is deleted after the last decrement and
\* never leaks.
THEOREM DeletedWhenAllStopped == TDSpec => []DeletedAtEnd
<1>1. TDInv => DeletedAtEnd
  <2> SUFFICES ASSUME TDInv PROVE DeletedAtEnd
    OBVIOUS
  <2>1. ~alive => NotStopped = {}
    BY Zero DEF TDInv, StopInv
  <2>2. (\A t \in Threads : place[t] = "gone") => stopCount = 0
    BY Zero DEF TDInv, NotStopped
  <2> QED BY <2>1, <2>2 DEF TDInv, StopInv, DeletedAtEnd, NotStopped, TDTypeOK
<1> QED BY <1>1, TDInductive, PTL
=============================================================================
