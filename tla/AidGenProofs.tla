---------------------------- MODULE AidGenProofs ----------------------------
(***************************************************************************)
(* Proofs about AidGen, for any number of threads, any widths of the parts *)
(* of an id and any clock: a call gives up only after the clock was set    *)
(* back by more than it may wait, one round of sequence numbers never      *)
(* makes an id twice, and ids increase while calls are orderly.            *)
(***************************************************************************)
EXTENDS AidGen, TLAPS

TypeInv ==
    /\ pc \in [Threads -> {"out", "load", "wait", "again", "seq", "store", "make", "failed"}]
    /\ clock \in 0 .. MaxClock /\ algTs \in 0 .. MaxClock
    /\ seq \in Nat
    /\ realTs \in [Threads -> 0 .. MaxClock]
    /\ myTs \in [Threads -> 0 .. MaxClock]
    /\ mySeq \in [Threads -> Nat]
    /\ calls \in 0 .. MaxCalls
    /\ recent \in Nat /\ backs \in 0 .. Backs /\ orderly \in BOOLEAN
    /\ issued \in Seq([id : Nat, taken : Nat])

\* No time that anybody has read is ahead of the clock by more than it was set
\* back.
TimeInv ==
    /\ algTs <= clock + backs
    /\ \A t \in Threads : realTs[t] <= clock + backs /\ myTs[t] <= clock + backs
    /\ \A t \in Threads : pc[t] = "failed" => backs > MaxWait

\* Every value of seq_ was taken by at most one call, and ends the id it made.
Taken(t) == pc[t] \in {"store", "make"}

SeqInv ==
    /\ \A i \in DOMAIN issued :
          /\ issued[i].taken < seq
          /\ \E ts \in Nat : issued[i].id = ts * SeqSize + Masked(issued[i].taken)
    /\ \A i, j \in DOMAIN issued : issued[i].taken = issued[j].taken => i = j
    /\ \A t \in Threads : Taken(t) =>
          /\ mySeq[t] < seq
          /\ \A i \in DOMAIN issued : issued[i].taken # mySeq[t]
          /\ \A u \in Threads : Taken(u) /\ mySeq[u] = mySeq[t] => u = t

IInv == TypeInv /\ TimeInv /\ SeqInv

-----------------------------------------------------------------------------
\* Arithmetic of the parts of an id.
LEMMA Rest ==
  ASSUME NEW n \in Nat
  PROVE  /\ Masked(n) \in 0 .. SeqSize - 1
         /\ n \div SeqSize \in Nat
         /\ n = (n \div SeqSize) * SeqSize + Masked(n)
BY SizesAssumption DEF Masked

LEMMA SameRest ==
  ASSUME NEW S \in Nat \ {0}, NEW x \in Nat, NEW y \in Nat,
         NEW r \in 0 .. S - 1, NEW s \in 0 .. S - 1,
         x * S + r = y * S + s
  PROVE  r = s
<1>1. x * S - y * S = (x - y) * S
  OBVIOUS
<1>2. CASE x = y
  BY <1>2
<1>3. CASE x > y
  <2>1. (x - y) * S >= S
    BY <1>3
  <2> QED BY <1>1, <2>1
<1>4. CASE x < y
  <2>1. (y - x) * S >= S
    BY <1>4
  <2>2. y * S - x * S = (y - x) * S
    OBVIOUS
  <2> QED BY <2>1, <2>2
<1> QED BY <1>2, <1>3, <1>4

LEMMA ProductInNat ==
  ASSUME NEW a \in Nat, NEW b \in Nat
  PROVE  a * b \in Nat
OBVIOUS

LEMMA ElementOfSeq ==
  ASSUME NEW S, NEW s \in Seq(S), NEW i \in DOMAIN s
  PROVE  s[i] \in S
OBVIOUS

\* What the history holds.
LEMMA IssuedTypes ==
  ASSUME TypeInv, NEW i \in DOMAIN issued
  PROVE  issued[i].taken \in Nat
<1>1. issued[i] \in [id : Nat, taken : Nat]
  <2>1. issued \in Seq([id : Nat, taken : Nat])
    BY DEF TypeInv
  <2> QED BY <2>1, ElementOfSeq
<1> QED BY <1>1

LEMMA IdParts ==
  ASSUME NEW ts \in Nat, NEW n \in Nat
  PROVE  /\ Id(ts, n) \in Nat
         /\ \E high \in Nat : Id(ts, n) = high * SeqSize + Masked(n)
<1>1. Epoch \in Nat /\ TsSize \in Nat \ {0} /\ MachineSize \in Nat /\ Machine \in Nat
  BY SizesAssumption, TimesAssumption
<1>2. (ts - Epoch) % TsSize \in Nat
  BY <1>1
<1>3. ((ts - Epoch) % TsSize) * MachineSize + Machine \in Nat
  BY <1>1, <1>2
<1> DEFINE high == ((ts - Epoch) % TsSize) * MachineSize + Machine
<1>4. Id(ts, n) = high * SeqSize + Masked(n)
  BY DEF Id
<1>5. high * SeqSize \in Nat /\ Masked(n) \in Nat
  <2>1. high \in Nat /\ SeqSize \in Nat /\ SeqSize - 1 \in Int
    BY <1>3, SizesAssumption
  <2> HIDE DEF high
  <2>2. Masked(n) \in Nat
    BY <2>1, Rest
  <2> QED BY <2>1, <2>2, ProductInNat
<1> QED BY <1>3, <1>4, <1>5

-----------------------------------------------------------------------------
LEMMA InitIInv == Init => IInv
BY TimesAssumption DEF Init, IInv, TypeInv, TimeInv, SeqInv, Taken

LEMMA NextTypeTime == IInv /\ [Next]_vars => TypeInv' /\ TimeInv'
<1> SUFFICES ASSUME IInv, [Next]_vars PROVE TypeInv' /\ TimeInv'
  OBVIOUS
<1> USE TimesAssumption DEF IInv, TypeInv, TimeInv, Goto, env, locals
<1>1. CASE Tick
  BY <1>1 DEF Tick
<1>2. CASE SetBack
  <2>1. orderly' \in BOOLEAN
    BY <1>2 DEF SetBack
  <2>2. /\ clock > 0 /\ clock' = clock - 1 /\ backs < Backs /\ backs' = backs + 1
        /\ UNCHANGED <<pc, algTs, seq, locals, calls, recent, issued>>
    BY <1>2 DEF SetBack
  <2> QED BY <2>1, <2>2
<1>3. ASSUME NEW t \in Threads, ReadClock(t) PROVE TypeInv' /\ TimeInv'
  BY <1>3 DEF ReadClock
<1>4. ASSUME NEW t \in Threads, LoadTs(t) PROVE TypeInv' /\ TimeInv'
  BY <1>4 DEF LoadTs
<1>5. ASSUME NEW t \in Threads, WaitUntil(t) PROVE TypeInv' /\ TimeInv'
  BY <1>5 DEF WaitUntil
<1>6. ASSUME NEW t \in Threads, NeverAdvances(t) PROVE TypeInv' /\ TimeInv'
  BY <1>6 DEF NeverAdvances
<1>7. ASSUME NEW t \in Threads, ReadAgain(t) PROVE TypeInv' /\ TimeInv'
  BY <1>7 DEF ReadAgain
<1>8. ASSUME NEW t \in Threads, FetchAdd(t) PROVE TypeInv' /\ TimeInv'
  BY <1>8 DEF FetchAdd
<1>9. ASSUME NEW t \in Threads, StoreTs(t) PROVE TypeInv' /\ TimeInv'
  BY <1>9 DEF StoreTs, NewTs
<1>10. ASSUME NEW t \in Threads, Return(t) PROVE TypeInv' /\ TimeInv'
  <2>1. Id(myTs[t], mySeq[t]) \in Nat
    <3>1. myTs[t] \in Nat /\ mySeq[t] \in Nat
      OBVIOUS
    <3> QED BY <3>1, IdParts
  <2>2. issued' \in Seq([id : Nat, taken : Nat])
    BY <1>10, <2>1 DEF Return
  <2> QED BY <1>10, <2>2 DEF Return
<1>11. CASE UNCHANGED vars
  BY <1>11 DEF vars
<1> QED BY <1>1, <1>2, <1>3, <1>4, <1>5, <1>6, <1>7, <1>8, <1>9, <1>10, <1>11
        DEF Next, Gen, Over

LEMMA NextSeq == IInv /\ [Next]_vars => SeqInv'
<1> SUFFICES ASSUME IInv, [Next]_vars PROVE SeqInv'
  OBVIOUS
<1>1. /\ issued \in Seq([id : Nat, taken : Nat]) /\ seq \in Nat
      /\ DOMAIN pc = Threads /\ mySeq \in [Threads -> Nat] /\ myTs \in [Threads -> 0 .. MaxClock]
  BY DEF IInv, TypeInv
<1>2. \A i \in DOMAIN issued : issued[i].taken \in Nat
  BY IssuedTypes DEF IInv
<1>3. SeqInv
  BY DEF IInv
<1>4. ASSUME NEW t \in Threads, FetchAdd(t) PROVE SeqInv'
  <2>1. /\ seq' = seq + 1 /\ issued' = issued /\ mySeq'[t] = seq /\ ~Taken(t)
        /\ \A u \in Threads : u # t => mySeq'[u] = mySeq[u] /\ pc'[u] = pc[u]
    BY <1>1, <1>4 DEF FetchAdd, Goto, Taken
  <2>2. \A u \in Threads : u # t => (Taken(u)' <=> Taken(u))
    BY <2>1 DEF Taken
  <2>3. \A i \in DOMAIN issued : issued[i].taken < seq' /\ issued[i].taken # seq
    BY <1>1, <1>2, <1>3, <2>1 DEF SeqInv
  <2>4. \A u \in Threads : Taken(u) => mySeq[u] < seq' /\ mySeq[u] # seq
    BY <1>1, <1>3, <2>1 DEF SeqInv
  <2>5. seq < seq'
    BY <1>1, <2>1
  <2>6. \A i \in DOMAIN issued' :
           /\ issued'[i].taken < seq'
           /\ \E ts \in Nat : issued'[i].id = ts * SeqSize + Masked(issued'[i].taken)
    BY <1>3, <2>1, <2>3 DEF SeqInv
  <2>7. \A i, j \in DOMAIN issued' : issued'[i].taken = issued'[j].taken => i = j
    BY <1>3, <2>1 DEF SeqInv
  <2>8. ASSUME NEW u \in Threads, Taken(u)'
        PROVE  /\ mySeq'[u] < seq'
               /\ \A i \in DOMAIN issued' : issued'[i].taken # mySeq'[u]
               /\ \A v \in Threads : Taken(v)' /\ mySeq'[v] = mySeq'[u] => v = u
    <3>1. CASE u = t
      BY <2>1, <2>2, <2>3, <2>4, <2>5, <3>1
    <3>2. CASE u # t
      BY <1>3, <2>1, <2>2, <2>3, <2>4, <2>8, <3>2 DEF SeqInv
    <3> QED BY <3>1, <3>2
  <2> QED BY <2>6, <2>7, <2>8 DEF SeqInv
<1>5. ASSUME NEW t \in Threads, Return(t) PROVE SeqInv'
  <2> DEFINE new == [id |-> Id(myTs[t], mySeq[t]), taken |-> mySeq[t]]
             k   == Len(issued)
  <2>1. /\ seq' = seq /\ mySeq' = mySeq /\ Taken(t)
        /\ ~Taken(t)' /\ \A u \in Threads : u # t => (Taken(u)' <=> Taken(u))
        /\ issued' = Append(issued, new)
    BY <1>1, <1>5 DEF Return, Goto, Taken, locals
  <2>2. new \in [id : Nat, taken : Nat] /\ \E ts \in Nat : new.id = ts * SeqSize + Masked(new.taken)
    <3>1. myTs[t] \in Nat /\ mySeq[t] \in Nat
      BY <1>1
    <3>2. new.id = Id(myTs[t], mySeq[t]) /\ new.taken = mySeq[t]
      OBVIOUS
    <3> HIDE DEF new
    <3>3. PICK ts \in Nat : Id(myTs[t], mySeq[t]) = ts * SeqSize + Masked(mySeq[t])
      BY <3>1, IdParts
    <3>4. new \in [id : Nat, taken : Nat]
      BY <3>1, IdParts DEF new
    <3> QED BY <3>2, <3>3, <3>4
  <2>3. new.taken = mySeq[t]
    OBVIOUS
  <2> HIDE DEF new
  <2>4. /\ DOMAIN issued = 1 .. k /\ k \in Nat /\ DOMAIN issued' = 1 .. k + 1
        /\ \A i \in 1 .. k : issued'[i] = issued[i]
        /\ issued'[k + 1] = new
    BY <1>1, <2>1, <2>2
  <2>5. \A i \in DOMAIN issued' : i = k + 1 \/ i \in DOMAIN issued
    BY <2>4
  <2>6. /\ \A i \in DOMAIN issued : issued[i].taken # new.taken /\ issued'[i] = issued[i]
        /\ new.taken < seq
    BY <1>3, <2>1, <2>3, <2>4 DEF SeqInv
  <2>7. \A i \in DOMAIN issued' :
           /\ issued'[i].taken < seq'
           /\ \E ts \in Nat : issued'[i].id = ts * SeqSize + Masked(issued'[i].taken)
    BY <1>3, <2>1, <2>2, <2>4, <2>5, <2>6 DEF SeqInv
  <2>8. \A i, j \in DOMAIN issued' : issued'[i].taken = issued'[j].taken => i = j
    BY <1>3, <2>4, <2>5, <2>6 DEF SeqInv
  <2>9. ASSUME NEW u \in Threads, Taken(u)'
        PROVE  /\ mySeq'[u] < seq'
               /\ \A i \in DOMAIN issued' : issued'[i].taken # mySeq'[u]
               /\ \A v \in Threads : Taken(v)' /\ mySeq'[v] = mySeq'[u] => v = u
    <3>1. u # t /\ Taken(u) /\ mySeq[u] # new.taken
      BY <1>3, <2>1, <2>3, <2>9 DEF SeqInv
    <3>2. \A i \in DOMAIN issued' : issued'[i].taken # mySeq[u]
      BY <1>3, <2>4, <2>5, <2>6, <3>1 DEF SeqInv
    <3> QED BY <1>3, <2>1, <3>1, <3>2 DEF SeqInv
  <2> QED BY <2>7, <2>8, <2>9 DEF SeqInv
<1>6. ASSUME seq' = seq, issued' = issued, mySeq' = mySeq,
             \A u \in Threads : Taken(u)' <=> Taken(u)
      PROVE  SeqInv'
  BY <1>3, <1>6 DEF SeqInv
<1>7. ASSUME NEW t \in Threads,
             \/ ReadClock(t) \/ LoadTs(t) \/ WaitUntil(t) \/ NeverAdvances(t)
             \/ ReadAgain(t) \/ StoreTs(t)
      PROVE  SeqInv'
  <2>1. \A u \in Threads : Taken(u)' <=> Taken(u)
    BY <1>1, <1>7
       DEF ReadClock, LoadTs, WaitUntil, NeverAdvances, ReadAgain, StoreTs, Goto, Taken
  <2>2. seq' = seq /\ issued' = issued /\ mySeq' = mySeq
    BY <1>7 DEF ReadClock, LoadTs, WaitUntil, NeverAdvances, ReadAgain, StoreTs, locals
  <2> QED BY <1>6, <2>1, <2>2
<1>8. CASE Tick \/ SetBack \/ UNCHANGED vars
  BY <1>6, <1>8 DEF Tick, SetBack, vars, locals, Taken
<1> QED BY <1>4, <1>5, <1>7, <1>8 DEF Next, Gen, Over

THEOREM Inductive == Spec => []IInv
BY InitIInv, NextTypeTime, NextSeq, PTL DEF Spec, IInv

\* The types: algorithm time stays within the bounds of the clock, the sequence number
\* within its bits.
THEOREM TypeCorrect == Spec => []TypeOK
<1>1. IInv => TypeOK
  BY DEF IInv, TypeInv, TypeOK
<1> QED BY <1>1, Inductive, PTL

\* aid_gen throws only after the clock was set back by more than it may wait.
THEOREM FailsOnlyOnSetBack == Spec => []NeverFails
<1>1. IInv => NeverFails
  BY DEF IInv, TimeInv, NeverFails
<1> QED BY <1>1, Inductive, PTL

\* One round of sequence numbers never makes an id twice, whatever the threads
\* have read of the two times.
THEOREM RoundsAreUnique == Spec => []RoundUnique
<1>1. IInv => RoundUnique
  <2> SUFFICES ASSUME IInv, NEW i \in DOMAIN issued, NEW j \in DOMAIN issued, i # j,
                      issued[i].taken \div SeqSize = issued[j].taken \div SeqSize,
                      issued[i].id = issued[j].id
               PROVE  FALSE
    BY DEF RoundUnique
  <2> DEFINE m == issued[i].taken
             n == issued[j].taken
  <2>1. m \in Nat /\ n \in Nat /\ m # n
    <3>1. m # n
      BY DEF IInv, SeqInv
    <3> QED BY <3>1, IssuedTypes DEF IInv
  <2>2. PICK x \in Nat : issued[i].id = x * SeqSize + Masked(m)
    BY DEF IInv, SeqInv
  <2>3. PICK y \in Nat : issued[j].id = y * SeqSize + Masked(n)
    BY DEF IInv, SeqInv
  <2>4. Masked(m) = Masked(n)
    <3>1. Masked(m) \in 0 .. SeqSize - 1 /\ Masked(n) \in 0 .. SeqSize - 1 /\ SeqSize \in Nat \ {0}
      BY <2>1, Rest, SizesAssumption
    <3> QED BY <2>2, <2>3, <3>1, SameRest
  <2>5. m = (m \div SeqSize) * SeqSize + Masked(m) /\ n = (n \div SeqSize) * SeqSize + Masked(n)
    BY <2>1, Rest
  <2> QED BY <2>1, <2>4, <2>5
<1> QED BY <1>1, Inductive, PTL
-----------------------------------------------------------------------------
(* Ids in order.                                                           *)

\* The years that the bits of the timestamp last are not over.
Fits == MaxClock - Epoch < TsSize

Active(t) == pc[t] \in {"load", "seq", "store", "make"}

\* The call that took the last sequence number is this one of its round.
Place == Masked(seq - 1) + 1

\* While calls are orderly: one at a time, and none waits for the clock.
OneCall ==
    /\ backs = 0 /\ Epoch <= algTs /\ algTs <= clock
    /\ \A t \in Threads : pc[t] \in {"out", "load", "seq", "store", "make"}
    /\ \A t, u \in Threads : Active(t) /\ Active(u) => t = u

\* What the call has read; behind fetch_add it has the last sequence number.
CallReads ==
    \A t \in Threads :
       /\ Active(t) => algTs <= realTs[t] /\ realTs[t] <= clock
       /\ pc[t] \in {"seq", "make"} => myTs[t] = algTs
       /\ pc[t] \in {"store", "make"} => seq > 0 /\ mySeq[t] = seq - 1
       /\ pc[t] = "store" => Masked(seq - 1) = 0

\* The calls of this round that began at algorithm time are among those that began
\* since the clock moved; a full round therefore meets a later clock.
RoundRate ==
    /\ (\A t \in Threads : ~Active(t)) /\ seq > 0 /\ algTs = clock => Place <= recent
    /\ \A t \in Threads :
          /\ pc[t] \in {"load", "seq"} /\ seq > 0 =>
                /\ realTs[t] = algTs => Place < SeqSize
                /\ algTs = clock => Place + 1 <= recent
          /\ pc[t] \in {"load", "seq"} /\ realTs[t] = clock => recent >= 1
          /\ pc[t] = "store" /\ realTs[t] = clock => recent >= 1
          /\ pc[t] = "make" /\ algTs = clock => Place <= recent

\* The ids are below the one in the making.
IdsBelow ==
    /\ \A i, j \in DOMAIN issued : i < j => issued[i].id < issued[j].id
    /\ (\A t \in Threads : pc[t] \notin {"store", "make"}) =>
          \A i \in DOMAIN issued : seq > 0 /\ issued[i].id <= Id(algTs, seq - 1)
    /\ \A t \in Threads, i \in DOMAIN issued :
          /\ pc[t] = "store" => issued[i].id < Id(realTs[t], mySeq[t])
          /\ pc[t] = "make" => issued[i].id < Id(myTs[t], mySeq[t])

OrderInv == orderly => OneCall /\ CallReads /\ RoundRate /\ IdsBelow

-----------------------------------------------------------------------------
\* Arithmetic of the order of ids.
LEMMA ProductGrows ==
  ASSUME NEW x \in Nat, NEW y \in Nat, NEW S \in Nat, x < y
  PROVE  x * S + S <= y * S
<1>1. PICK d \in Nat : y = x + 1 + d
  <2>1. y - x - 1 \in Nat /\ y = x + 1 + (y - x - 1)
    OBVIOUS
  <2> QED BY <2>1
<1>2. (x + 1 + d) * S = x * S + S + d * S
  OBVIOUS
<1>3. d * S \in Nat /\ x * S \in Nat
  BY ProductInNat
<1> QED BY <1>1, <1>2, <1>3

LEMMA SmallRest ==
  ASSUME NEW S \in Nat \ {0}, NEW x \in 0 .. S - 1
  PROVE  x % S = x
<1>1. x % S \in 0 .. S - 1 /\ x \div S \in Nat /\ x = (x \div S) * S + (x % S)
  OBVIOUS
<1>2. x = 0 * S + x
  OBVIOUS
<1> QED BY <1>1, <1>2, SameRest

LEMMA NextRest ==
  ASSUME NEW n \in Nat
  PROVE  /\ Masked(n + 1) = 0 => Masked(n) + 1 = SeqSize
         /\ Masked(n + 1) # 0 => Masked(n + 1) = Masked(n) + 1
<1>1. PICK S : S = SeqSize
  OBVIOUS
<1>2. PICK r, q : r = Masked(n) /\ q = n \div SeqSize
  OBVIOUS
<1>3. PICK s, p : s = Masked(n + 1) /\ p = (n + 1) \div SeqSize
  OBVIOUS
<1>4. S \in Nat \ {0} /\ r \in 0 .. S - 1 /\ q \in Nat /\ n = q * S + r
  BY <1>1, <1>2, Rest, SizesAssumption
<1>5. n + 1 \in Nat /\ s \in 0 .. S - 1 /\ p \in Nat /\ n + 1 = p * S + s
  BY <1>1, <1>3, Rest
<1>6. CASE r + 1 < S
  <2>1. r + 1 \in 0 .. S - 1 /\ q * S + (r + 1) = p * S + s
    <3>1. q * S \in Nat /\ p * S \in Nat
      BY <1>4, <1>5, ProductInNat
    <3> QED BY <1>4, <1>5, <1>6, <3>1
  <2>2. s = r + 1
    BY <1>4, <1>5, <2>1, SameRest
  <2> QED BY <1>1, <1>2, <1>3, <1>4, <2>2
<1>7. CASE r + 1 >= S
  <2>1. r + 1 = S
    BY <1>4, <1>7
  <2>2. q * S + S = (q + 1) * S /\ q * S \in Nat /\ (q + 1) * S \in Nat
    BY <1>4
  <2>3. (q + 1) * S + 0 = p * S + s /\ q + 1 \in Nat
    <3>1. p * S \in Nat
      BY <1>4, <1>5, ProductInNat
    <3> QED BY <1>4, <1>5, <2>1, <2>2, <3>1
  <2>4. s = 0
    BY <1>4, <1>5, <2>3, SameRest
  <2> QED BY <1>1, <1>2, <1>3, <2>1, <2>4
<1> QED BY <1>4, <1>6, <1>7

\* Within the years that the timestamp has bits for, ids are in the order of their
\* times, and those of one time in the order of their sequence numbers.
LEMMA IdOrder ==
  ASSUME NEW s \in Nat, NEW t \in Nat, NEW m \in Nat, NEW n \in Nat,
         Epoch <= s, s <= t, t - Epoch < TsSize,
         s < t \/ Masked(m) < Masked(n)
  PROVE  Id(s, m) < Id(t, n)
<1>1. /\ Epoch \in Nat /\ TsSize \in Nat \ {0} /\ MachineSize \in Nat \ {0}
      /\ Machine \in 0 .. MachineSize - 1 /\ SeqSize \in Nat \ {0}
  BY SizesAssumption, TimesAssumption
<1>2. PICK M : M = MachineSize
  OBVIOUS
<1>3. PICK x, y : x = s - Epoch /\ y = t - Epoch
  OBVIOUS
<1>4. x \in 0 .. TsSize - 1 /\ y \in 0 .. TsSize - 1 /\ x <= y /\ (s < t => x < y)
  BY <1>1, <1>3
<1>5. x % TsSize = x /\ y % TsSize = y
  BY <1>1, <1>4, SmallRest
<1>6. PICK h, k : h = x * M + Machine /\ k = y * M + Machine
  OBVIOUS
<1>7. Id(s, m) = h * SeqSize + Masked(m) /\ Id(t, n) = k * SeqSize + Masked(n)
  BY <1>2, <1>3, <1>5, <1>6 DEF Id
<1>8. x \in Nat /\ y \in Nat /\ M \in Nat \ {0} /\ Machine \in Nat
  BY <1>1, <1>2, <1>4
<1>9. x * M \in Nat /\ y * M \in Nat /\ h \in Nat /\ k \in Nat
  <2>1. x * M \in Nat /\ y * M \in Nat
    BY <1>8, ProductInNat
  <2> QED BY <2>1, <1>6, <1>8
<1>10. Masked(m) \in 0 .. SeqSize - 1 /\ Masked(n) \in 0 .. SeqSize - 1
  BY Rest
<1>11. CASE x < y
  <2>1. x * M + M <= y * M
    BY <1>8, <1>11, ProductGrows
  <2>2. h < k
    BY <1>6, <1>8, <1>9, <2>1
  <2>3. h * SeqSize + SeqSize <= k * SeqSize
    BY <1>1, <1>9, <2>2, ProductGrows
  <2>4. h * SeqSize \in Nat /\ k * SeqSize \in Nat
    BY <1>1, <1>9, ProductInNat
  <2> QED BY <1>1, <1>7, <1>10, <2>3, <2>4
<1>12. CASE x = y
  <2>1. h = k /\ Masked(m) < Masked(n)
    BY <1>3, <1>6, <1>4, <1>12
  <2>2. h * SeqSize \in Nat
    BY <1>1, <1>9, ProductInNat
  <2> QED BY <1>1, <1>7, <1>10, <2>1, <2>2
<1> QED BY <1>4, <1>8, <1>11, <1>12

-----------------------------------------------------------------------------
LEMMA InitOrder == Init => OrderInv
BY TimesAssumption
   DEF Init, OrderInv, OneCall, CallReads, RoundRate, IdsBelow, Active


LEMMA TickOrder == ASSUME IInv, OrderInv, Tick PROVE OrderInv'
<1> SUFFICES ASSUME orderly' PROVE OneCall' /\ CallReads' /\ RoundRate' /\ IdsBelow'
  BY DEF OrderInv
<1>1. /\ orderly /\ clock' = clock + 1 /\ recent' = 0
      /\ UNCHANGED <<pc, algTs, seq, realTs, myTs, mySeq, backs, issued>>
  BY DEF Tick, locals
<1>2. OneCall /\ CallReads /\ RoundRate /\ IdsBelow
  BY <1>1 DEF OrderInv
<1>3. clock \in Nat /\ algTs \in Nat /\ realTs \in [Threads -> Nat] /\ \A t \in Threads : realTs[t] \in Nat
  BY TimesAssumption DEF IInv, TypeInv
<1>4. OneCall' /\ CallReads'
  BY <1>1, <1>2, <1>3 DEF OneCall, CallReads, Active
<1>5. RoundRate'
  <2>1. algTs # clock'
    BY <1>1, <1>2, <1>3 DEF OneCall
  <2>2. \A t \in Threads : Active(t) => realTs[t] # clock'
    BY <1>1, <1>2, <1>3 DEF CallReads
  <2> QED BY <1>1, <1>2, <2>1, <2>2 DEF RoundRate, Active, Place
<1>6. IdsBelow'
  BY <1>1, <1>2 DEF IdsBelow, Id, Masked
<1> QED BY <1>4, <1>5, <1>6

LEMMA ReadClockOrder ==
  ASSUME IInv, OrderInv, NEW t \in Threads, ReadClock(t) PROVE OrderInv'
<1> SUFFICES ASSUME orderly' PROVE OneCall' /\ CallReads' /\ RoundRate' /\ IdsBelow'
  BY DEF OrderInv
<1>1. /\ orderly /\ recent < SeqSize /\ \A o \in Threads : pc[o] = "out"
      /\ recent' = recent + 1 /\ realTs' = [realTs EXCEPT ![t] = clock]
      /\ pc' = [pc EXCEPT ![t] = "load"]
      /\ UNCHANGED <<clock, backs, algTs, seq, myTs, mySeq, issued>>
  BY DEF ReadClock, Goto
<1>2. OneCall /\ CallReads /\ RoundRate /\ IdsBelow
  BY <1>1 DEF OrderInv
<1>3. /\ clock \in Nat /\ algTs \in Nat /\ recent \in Nat /\ seq \in Nat /\ SeqSize \in Nat
      /\ pc \in [Threads -> {"out", "load", "wait", "again", "seq", "store", "make", "failed"}]
      /\ realTs \in [Threads -> 0 .. MaxClock]
  BY TimesAssumption, SizesAssumption DEF IInv, TypeInv
<1>4. /\ pc'[t] = "load" /\ realTs'[t] = clock
      /\ \A u \in Threads : u # t => pc'[u] = "out"
  BY <1>1, <1>3
<1>5. OneCall' /\ CallReads'
  BY <1>1, <1>2, <1>3, <1>4 DEF OneCall, CallReads, Active
<1>6. RoundRate'
  <2>1. seq > 0 /\ algTs = clock => Place <= recent
    BY <1>1, <1>2 DEF RoundRate, Active
  <2>2. seq > 0 => Place \in Nat
    <3> SUFFICES ASSUME seq > 0 PROVE Place \in Nat
      OBVIOUS
    <3>1. PICK n \in Nat : n = seq - 1
      BY <1>3
    <3>2. Masked(n) \in 0 .. SeqSize - 1
      BY Rest
    <3> QED BY <1>3, <3>1, <3>2 DEF Place
  <2>3. Place' = Place
    BY <1>1 DEF Place, Masked
  <2> QED BY <1>1, <1>3, <1>4, <2>1, <2>2, <2>3 DEF RoundRate, Active
<1>7. IdsBelow'
  BY <1>1, <1>2, <1>4 DEF IdsBelow, Id, Masked
<1> QED BY <1>5, <1>6, <1>7

LEMMA LoadTsOrder ==
  ASSUME IInv, OrderInv, NEW t \in Threads, LoadTs(t) PROVE OrderInv'
<1> SUFFICES ASSUME orderly' PROVE OneCall' /\ CallReads' /\ RoundRate' /\ IdsBelow'
  BY DEF OrderInv
<1>1. /\ orderly /\ pc[t] = "load" /\ myTs' = [myTs EXCEPT ![t] = algTs]
      /\ pc' = [pc EXCEPT ![t] = IF realTs[t] < algTs THEN "wait" ELSE "seq"]
      /\ UNCHANGED <<clock, backs, algTs, seq, realTs, mySeq, recent, issued>>
  BY DEF LoadTs, Goto, Behind, env
<1>2. OneCall /\ CallReads /\ RoundRate /\ IdsBelow
  BY <1>1 DEF OrderInv
<1>3. /\ algTs \in Nat /\ myTs \in [Threads -> 0 .. MaxClock] /\ realTs[t] \in Nat
      /\ pc \in [Threads -> {"out", "load", "wait", "again", "seq", "store", "make", "failed"}]
  BY TimesAssumption DEF IInv, TypeInv
<1>4. ~(realTs[t] < algTs)
  BY <1>1, <1>2, <1>3 DEF CallReads, Active
<1>5. /\ pc'[t] = "seq" /\ myTs'[t] = algTs
      /\ \A u \in Threads : u # t => pc'[u] = pc[u] /\ myTs'[u] = myTs[u]
  BY <1>1, <1>3, <1>4
<1>6. \A u \in Threads : Active(u)' <=> Active(u)
  BY <1>1, <1>5 DEF Active
<1>7. OneCall'
  BY <1>1, <1>2, <1>5, <1>6 DEF OneCall
<1>8. CallReads'
  BY <1>1, <1>2, <1>5, <1>6 DEF CallReads, Masked
<1>9. RoundRate'
  BY <1>1, <1>2, <1>5, <1>6 DEF RoundRate, Place, Masked
<1>10. IdsBelow'
  BY <1>1, <1>2, <1>5 DEF IdsBelow, Id, Masked
<1> QED BY <1>7, <1>8, <1>9, <1>10

\* The last sequence number and the place of its call when fetch_add takes another.
LEMMA NextPlace ==
  ASSUME seq \in Nat, seq > 0
  PROVE  /\ Place \in Nat
         /\ Masked(seq) = 0 => Place = SeqSize
         /\ Masked(seq) # 0 => Masked(seq) = Place /\ Masked(seq - 1) < Masked(seq)
<1>1. PICK n \in Nat : n = seq - 1 /\ n + 1 = seq
  <2>1. seq - 1 \in Nat /\ (seq - 1) + 1 = seq
    OBVIOUS
  <2> QED BY <2>1
<1>2. Masked(n) \in Nat
  BY Rest, SizesAssumption
<1> QED BY <1>1, <1>2, NextRest DEF Place

LEMMA FetchAddOrder ==
  ASSUME Fits, IInv, OrderInv, NEW t \in Threads, FetchAdd(t) PROVE OrderInv'
<1> SUFFICES ASSUME orderly' PROVE OneCall' /\ CallReads' /\ RoundRate' /\ IdsBelow'
  BY DEF OrderInv
<1>1. /\ orderly /\ pc[t] = "seq" /\ mySeq' = [mySeq EXCEPT ![t] = seq] /\ seq' = seq + 1
      /\ pc' = [pc EXCEPT ![t] = IF Masked(seq) = 0 THEN "store" ELSE "make"]
      /\ UNCHANGED <<clock, backs, algTs, realTs, myTs, recent, issued>>
  BY DEF FetchAdd, Goto, env
<1>2. OneCall /\ CallReads /\ RoundRate /\ IdsBelow
  BY <1>1 DEF OrderInv
<1>3. /\ seq \in Nat /\ algTs \in 0 .. MaxClock /\ clock \in 0 .. MaxClock /\ recent \in Nat
      /\ mySeq \in [Threads -> Nat] /\ realTs[t] \in 0 .. MaxClock /\ MaxClock \in Nat
      /\ SeqSize \in Nat /\ Epoch \in Nat /\ TsSize \in Nat
      /\ pc \in [Threads -> {"out", "load", "wait", "again", "seq", "store", "make", "failed"}]
  BY TimesAssumption, SizesAssumption DEF IInv, TypeInv
<1>4. /\ pc'[t] = IF Masked(seq) = 0 THEN "store" ELSE "make"
      /\ mySeq'[t] = seq
      /\ \A u \in Threads : u # t => pc'[u] = pc[u] /\ mySeq'[u] = mySeq[u]
  BY <1>1, <1>3
<1>5. \A u \in Threads : Active(u)' <=> Active(u)
  BY <1>1, <1>4 DEF Active
<1>6. Active(t) /\ \A u \in Threads : u # t => pc[u] = "out" /\ pc'[u] = "out"
  <2>1. Active(t)
    BY <1>1 DEF Active
  <2> QED BY <1>2, <1>4, <2>1 DEF OneCall, Active
<1>7. OneCall'
  BY <1>1, <1>2, <1>4, <1>5 DEF OneCall
<1>8. seq' > 0 /\ seq' - 1 = seq /\ Place' = Masked(seq) + 1
  <2>1. seq' > 0 /\ seq' - 1 = seq
    BY <1>1, <1>3
  <2> QED BY <2>1 DEF Place, Masked
<1>9. CallReads'
  <2>1. algTs <= realTs[t] /\ realTs[t] <= clock /\ myTs[t] = algTs
    BY <1>1, <1>2, <1>6 DEF CallReads
  <2>2. Masked(seq' - 1) = Masked(seq)
    BY <1>8
  <2>3. \A u \in Threads : u # t => ~Active(u)' /\ pc'[u] = "out"
    BY <1>6 DEF Active
  <2> QED BY <1>1, <1>4, <1>8, <2>1, <2>2, <2>3 DEF CallReads, Masked
<1>10. RoundRate'
  <2>1. realTs[t] = clock => recent >= 1
    BY <1>1, <1>2 DEF RoundRate
  <2>2. ASSUME Masked(seq) # 0, algTs = clock PROVE Masked(seq) + 1 <= recent
    <3>1. seq > 0
      BY <1>3, <2>2, SmallRest, SizesAssumption DEF Masked
    <3>2. Place + 1 <= recent
      BY <1>1, <1>2, <2>2, <3>1 DEF RoundRate
    <3> QED BY <1>3, <2>2, <3>1, <3>2, NextPlace
  <2>3. Active(t)' /\ \A u \in Threads : u # t => pc'[u] = "out"
    BY <1>5, <1>6
  <2> QED BY <1>1, <1>4, <1>8, <2>1, <2>2, <2>3 DEF RoundRate
<1>11. IdsBelow'
  <2>1. \A i, j \in DOMAIN issued' : i < j => issued'[i].id < issued'[j].id
    BY <1>1, <1>2 DEF IdsBelow
  <2>2. ASSUME NEW i \in DOMAIN issued
        PROVE  /\ Masked(seq) = 0 => issued[i].id < Id(realTs[t], seq)
               /\ Masked(seq) # 0 => issued[i].id < Id(algTs, seq)
    <3>1. seq > 0 /\ issued[i].id <= Id(algTs, seq - 1)
      <4>1. \A u \in Threads : pc[u] \notin {"store", "make"}
        BY <1>1, <1>6
      <4> QED BY <1>2, <4>1 DEF IdsBelow
    <3>2. seq - 1 \in Nat /\ algTs \in Nat /\ realTs[t] \in Nat
      BY <1>3, <3>1
    <3>3. issued[i].id \in Nat /\ Id(algTs, seq - 1) \in Nat
      <4>1. issued \in Seq([id : Nat, taken : Nat])
        BY DEF IInv, TypeInv
      <4>2. issued[i] \in [id : Nat, taken : Nat]
        BY <4>1, ElementOfSeq
      <4> QED BY <3>2, <4>2, IdParts
    <3>4. Epoch <= algTs /\ algTs <= realTs[t] /\ realTs[t] - Epoch < TsSize /\ algTs - Epoch < TsSize
      <4>1. Epoch <= algTs /\ algTs <= realTs[t]
        BY <1>2, <1>6 DEF OneCall, CallReads
      <4> QED BY <1>3, <4>1 DEF Fits
    <3>5. CASE Masked(seq) = 0
      <4>1. Place = SeqSize
        BY <1>3, <3>1, <3>5, NextPlace
      <4>2. realTs[t] # algTs
        BY <1>1, <1>2, <1>3, <3>1, <4>1 DEF RoundRate
      <4>3. algTs < realTs[t]
        BY <1>3, <3>4, <4>2
      <4>4. Id(algTs, seq - 1) < Id(realTs[t], seq)
        BY <1>3, <3>2, <3>4, <4>3, IdOrder
      <4>5. Id(realTs[t], seq) \in Nat
        BY <1>3, <3>2, IdParts
      <4> QED BY <3>1, <3>3, <3>5, <4>4, <4>5
    <3>6. CASE Masked(seq) # 0
      <4>1. Masked(seq - 1) < Masked(seq)
        BY <1>3, <3>1, <3>6, NextPlace
      <4>2. Id(algTs, seq - 1) < Id(algTs, seq)
        BY <1>3, <3>2, <3>4, <4>1, IdOrder
      <4>3. Id(algTs, seq) \in Nat
        BY <1>3, <3>2, IdParts
      <4> QED BY <3>1, <3>3, <3>6, <4>2, <4>3
    <3> QED BY <3>5, <3>6
  <2>3. myTs[t] = algTs
    BY <1>1, <1>2 DEF CallReads
  <2>4. pc'[t] \in {"store", "make"}
    BY <1>4
  <2>5. /\ pc'[t] = "store" => Masked(seq) = 0
        /\ pc'[t] = "make" => Masked(seq) # 0
    BY <1>4
  <2>6. \A u \in Threads, i \in DOMAIN issued' :
          /\ pc'[u] = "store" => issued'[i].id < Id(realTs'[u], mySeq'[u])
          /\ pc'[u] = "make" => issued'[i].id < Id(myTs'[u], mySeq'[u])
    BY <1>1, <1>4, <1>6, <2>2, <2>3, <2>5
  <2> QED BY <2>1, <2>4, <2>6 DEF IdsBelow, Id, Masked
<1> QED BY <1>7, <1>9, <1>10, <1>11

LEMMA StoreTsOrder ==
  ASSUME IInv, OrderInv, NEW t \in Threads, StoreTs(t) PROVE OrderInv'
<1> SUFFICES ASSUME orderly' PROVE OneCall' /\ CallReads' /\ RoundRate' /\ IdsBelow'
  BY DEF OrderInv
<1>1. /\ orderly /\ pc[t] = "store" /\ algTs' = realTs[t]
      /\ myTs' = [myTs EXCEPT ![t] = realTs[t]] /\ pc' = [pc EXCEPT ![t] = "make"]
      /\ UNCHANGED <<clock, backs, seq, realTs, mySeq, recent, issued>>
  BY DEF StoreTs, NewTs, Goto, env
<1>2. OneCall /\ CallReads /\ RoundRate /\ IdsBelow
  BY <1>1 DEF OrderInv
<1>3. /\ algTs \in 0 .. MaxClock /\ clock \in 0 .. MaxClock /\ MaxClock \in Nat /\ Epoch \in Nat
      /\ seq \in Nat /\ recent \in Nat
      /\ realTs[t] \in 0 .. MaxClock /\ myTs \in [Threads -> 0 .. MaxClock]
      /\ pc \in [Threads -> {"out", "load", "wait", "again", "seq", "store", "make", "failed"}]
  BY TimesAssumption DEF IInv, TypeInv
<1>4. /\ pc'[t] = "make" /\ myTs'[t] = realTs[t]
      /\ \A u \in Threads : u # t => pc'[u] = pc[u] /\ myTs'[u] = myTs[u]
  BY <1>1, <1>3
<1>5. \A u \in Threads : Active(u)' <=> Active(u)
  BY <1>1, <1>4 DEF Active
<1>6. Active(t) /\ \A u \in Threads : u # t => pc[u] = "out" /\ pc'[u] = "out"
  <2>1. Active(t)
    BY <1>1 DEF Active
  <2> QED BY <1>2, <1>4, <2>1 DEF OneCall, Active
<1>7. algTs <= realTs[t] /\ realTs[t] <= clock /\ seq > 0 /\ mySeq[t] = seq - 1 /\ Masked(seq - 1) = 0
  BY <1>1, <1>2, <1>6 DEF CallReads
<1>8. OneCall'
  <2>1. Epoch <= realTs[t]
    BY <1>2, <1>3, <1>7 DEF OneCall
  <2> QED BY <1>1, <1>2, <1>4, <1>5, <1>7, <2>1 DEF OneCall
<1>9. \A u \in Threads : u # t => ~Active(u)' /\ pc'[u] = "out"
  BY <1>6 DEF Active
<1>10. CallReads'
  BY <1>1, <1>3, <1>4, <1>7, <1>9 DEF CallReads
<1>11. RoundRate'
  <2>1. realTs[t] = clock => recent >= 1
    BY <1>1, <1>2 DEF RoundRate
  <2>2. Place' = 1
    BY <1>1, <1>7 DEF Place, Masked
  <2>3. Active(t)'
    BY <1>5, <1>6
  <2> QED BY <1>1, <1>3, <1>4, <1>9, <2>1, <2>2, <2>3 DEF RoundRate
<1>12. IdsBelow'
  <2>1. \A u \in Threads, i \in DOMAIN issued' :
          /\ pc'[u] = "store" => issued'[i].id < Id(realTs'[u], mySeq'[u])
          /\ pc'[u] = "make" => issued'[i].id < Id(myTs'[u], mySeq'[u])
    BY <1>1, <1>2, <1>4, <1>9 DEF IdsBelow
  <2>2. pc'[t] \in {"store", "make"}
    BY <1>4
  <2> QED BY <1>1, <1>2, <2>1, <2>2 DEF IdsBelow, Id, Masked
<1> QED BY <1>8, <1>10, <1>11, <1>12

LEMMA ReturnOrder ==
  ASSUME IInv, OrderInv, NEW t \in Threads, Return(t) PROVE OrderInv'
<1> SUFFICES ASSUME orderly' PROVE OneCall' /\ CallReads' /\ RoundRate' /\ IdsBelow'
  BY DEF OrderInv
<1> DEFINE new == [id |-> Id(myTs[t], mySeq[t]), taken |-> mySeq[t]]
           k   == Len(issued)
<1>1. /\ orderly /\ pc[t] = "make" /\ issued' = Append(issued, new)
      /\ pc' = [pc EXCEPT ![t] = "out"]
      /\ UNCHANGED <<clock, backs, algTs, seq, realTs, myTs, mySeq, recent>>
  BY DEF Return, Goto, env, locals
<1>2. OneCall /\ CallReads /\ RoundRate /\ IdsBelow
  BY <1>1 DEF OrderInv
<1>3. /\ pc \in [Threads -> {"out", "load", "wait", "again", "seq", "store", "make", "failed"}]
      /\ issued \in Seq([id : Nat, taken : Nat]) /\ myTs[t] \in Nat /\ mySeq[t] \in Nat
  BY TimesAssumption DEF IInv, TypeInv
<1>4. Active(t) /\ \A u \in Threads : pc'[u] = "out"
  <2>1. Active(t)
    BY <1>1 DEF Active
  <2> QED BY <1>1, <1>2, <1>3, <2>1 DEF OneCall, Active
<1>5. OneCall' /\ CallReads'
  BY <1>1, <1>2, <1>4 DEF OneCall, CallReads, Active
<1>6. RoundRate'
  <2>1. Place' = Place
    BY <1>1 DEF Place, Masked
  <2> QED BY <1>1, <1>2, <1>4, <2>1 DEF RoundRate, Active
<1>7. IdsBelow'
  <2>1. myTs[t] = algTs /\ seq > 0 /\ mySeq[t] = seq - 1
    BY <1>1, <1>2 DEF CallReads
  <2>2. PICK id \in Nat : id = Id(myTs[t], mySeq[t])
    BY <1>3, IdParts
  <2>3. new \in [id : Nat, taken : Nat] /\ new.id = id
    BY <1>3, <2>2
  <2>4. \A i \in DOMAIN issued : issued[i].id < id
    BY <1>1, <1>2, <2>2 DEF IdsBelow
  <2> HIDE DEF new
  <2>5. /\ DOMAIN issued = 1 .. k /\ k \in Nat /\ DOMAIN issued' = 1 .. k + 1
        /\ \A i \in 1 .. k : issued'[i] = issued[i]
        /\ issued'[k + 1] = new
    BY <1>1, <1>3, <2>3
  <2> HIDE DEF k
  <2>6. \A i, j \in DOMAIN issued' : i < j => issued'[i].id < issued'[j].id
    <3>1. \A i, j \in DOMAIN issued : i < j => issued[i].id < issued[j].id
      BY <1>2 DEF IdsBelow
    <3>2. \A j \in DOMAIN issued' : j = k + 1 \/ j \in DOMAIN issued
      BY <2>5
    <3>3. \A i, j \in DOMAIN issued' : i < j => i \in DOMAIN issued
      BY <2>5
    <3> QED BY <2>3, <2>4, <2>5, <3>1, <3>2, <3>3
  <2>7. \A i \in DOMAIN issued : issued[i].id \in Nat
    <3>1. \A i \in DOMAIN issued : issued[i] \in [id : Nat, taken : Nat]
      BY <1>3, ElementOfSeq
    <3> QED BY <3>1
  <2>8. \A i \in DOMAIN issued' : issued'[i].id <= id
    BY <2>3, <2>4, <2>5, <2>7
  <2>9. Id(algTs, seq - 1)' = id /\ seq' > 0
    BY <1>1, <2>1, <2>2 DEF Id, Masked
  <2> QED BY <1>4, <2>6, <2>8, <2>9 DEF IdsBelow
<1> QED BY <1>5, <1>6, <1>7

LEMMA NextOrder == Fits => (IInv /\ OrderInv /\ [Next]_vars => OrderInv')
<1> SUFFICES ASSUME Fits, IInv, OrderInv, [Next]_vars PROVE OrderInv'
  OBVIOUS
<1>1. CASE Tick
  BY <1>1, TickOrder
<1>2. CASE SetBack
  BY <1>2 DEF SetBack, OrderInv
<1>3. ASSUME NEW t \in Threads, Gen(t) PROVE OrderInv'
  <2>1. CASE WaitUntil(t) \/ NeverAdvances(t) \/ ReadAgain(t)
    <3>1. orderly' = orderly /\ pc[t] \in {"wait", "again"}
      BY <2>1 DEF WaitUntil, NeverAdvances, ReadAgain, env
    <3> QED BY <3>1 DEF OrderInv, OneCall
  <2> QED BY <1>3, <2>1, ReadClockOrder, LoadTsOrder, FetchAddOrder, StoreTsOrder, ReturnOrder
          DEF Gen
<1>4. CASE UNCHANGED vars
  BY <1>4 DEF vars, env, locals, OrderInv, OneCall, CallReads, RoundRate, IdsBelow, Active,
              Place, Masked, Id
<1> QED BY <1>1, <1>2, <1>3, <1>4 DEF Next, Over

\* As long as calls come one after the other, at the rate that the sequence numbers
\* allow and with a clock that is not set back, ids increase, for any widths, up to
\* the end of the timestamp.
THEOREM OrderlyIdsIncrease ==
  ASSUME Fits
  PROVE  Spec => []Increasing
<1>1. IInv /\ OrderInv /\ [Next]_vars => OrderInv'
  BY NextOrder
<1>2. OrderInv => Increasing
  BY DEF OrderInv, IdsBelow, Increasing
<1> QED BY <1>1, <1>2, InitOrder, Inductive, PTL DEF Spec
=============================================================================
