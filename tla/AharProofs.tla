----------------------------- MODULE AharProofs -----------------------------
(***************************************************************************)
(* Proofs about Ahar, for any threads, names, ids and objects.             *)
(*                                                                         *)
(* The order of messages.  Numbers grow along the messages that a thread   *)
(* has had, has in its mailbox and may get from the harbor, and those in   *)
(* the harbor are not yet in a mailbox (Sorted).  A message goes to the    *)
(* end of each queue, so each step keeps this.                             *)
(*                                                                         *)
(* Objects.  While an object does not move, the table says for a message   *)
(* to it what it said when the message was sent (StayInv); a message has   *)
(* jobs only from the step that takes it out of the harbor, and handlers   *)
(* are never removed.                                                      *)
(*                                                                         *)
(* Handlers.  A message has a handler once at most among its jobs that     *)
(* have run and those that wait (Apart), each job is for a handler that    *)
(* its thread has, and only one of Lua has called callbacks (Valid).       *)
(*                                                                         *)
(* smsg_ready.  job_count_ is the number of threads whose auto_listen has  *)
(* no result yet and of results that wait for Main (AckInv), and the job   *)
(* auto_listen is in the mailbox until then (BootInv).  So the last result *)
(* comes once, when all threads have listened.                             *)
(***************************************************************************)
EXTENDS Ahar, FiniteSetTheorems, FunctionTheorems, SequenceTheorems, TLAPS

-----------------------------------------------------------------------------
(* How often something is in a sequence.                                   *)

\* The places of a sequence where something of X is are finitely many.
LEMMA PlacesFinite ==
  ASSUME NEW S, NEW s \in Seq(S), NEW X
  PROVE  IsFiniteSet({i \in 1 .. Len(s) : s[i] \in X}) /\ Count(s, X) \in Nat
<1>1. Len(s) \in Nat
  OBVIOUS
<1>2. IsFiniteSet(1 .. Len(s))
  BY <1>1, FS_Interval
<1>3. IsFiniteSet({i \in 1 .. Len(s) : s[i] \in X})
  BY <1>2, FS_Subset
<1> QED BY <1>3, FS_CardinalityType DEF Count

\* Nothing is in the empty sequence.
LEMMA CountEmpty == \A X : Count(<<>>, X) = 0
<1> SUFFICES ASSUME NEW X PROVE Count(<<>>, X) = 0
  OBVIOUS
<1>1. {i \in 1 .. Len(<<>>) : <<>>[i] \in X} = {}
  OBVIOUS
<1> QED BY <1>1, FS_EmptySet DEF Count

\* What is in a sequence is there at least once.
LEMMA CountThere ==
  ASSUME NEW S, NEW s \in Seq(S), NEW k \in 1 .. Len(s)
  PROVE  Count(s, {s[k]}) >= 1
<1> DEFINE at == {i \in 1 .. Len(s) : s[i] \in {s[k]}}
<1>1. IsFiniteSet(at) /\ Cardinality(at) \in Nat /\ k \in at
  BY PlacesFinite, FS_CardinalityType
<1> HIDE DEF at
<1>2. Cardinality(at) # 0
  BY <1>1, FS_EmptySet
<1>3. Cardinality(at) >= 1
  BY <1>1, <1>2
<1> QED BY <1>3 DEF Count, at

\* What is at no place of a sequence is there 0 times.
LEMMA CountNowhere ==
  ASSUME NEW s, NEW X, \A i \in 1 .. Len(s) : s[i] \notin X
  PROVE  Count(s, X) = 0
<1>1. {i \in 1 .. Len(s) : s[i] \in X} = {}
  OBVIOUS
<1> QED BY <1>1, FS_EmptySet DEF Count

\* One more behind the others counts if it is the same.
LEMMA CountAppend ==
  ASSUME NEW S, NEW s \in Seq(S), NEW y \in S, NEW X
  PROVE  Count(Append(s, y), X) = Count(s, X) + (IF y \in X THEN 1 ELSE 0)
<1> DEFINE old == {i \in 1 .. Len(s) : s[i] \in X}
           new == {i \in 1 .. Len(Append(s, y)) : Append(s, y)[i] \in X}
<1>1. PICK n \in Nat : n = Len(s)
  OBVIOUS
<1>2. /\ Len(Append(s, y)) = n + 1 /\ Append(s, y)[n + 1] = y
      /\ \A i \in 1 .. n : Append(s, y)[i] = s[i]
  BY <1>1
<1>3. new = IF y \in X THEN old \cup {n + 1} ELSE old
  <2>1. 1 .. n + 1 = (1 .. n) \cup {n + 1}
    BY <1>1
  <2> QED BY <1>1, <1>2, <2>1
<1>4. n + 1 \notin old /\ IsFiniteSet(old) /\ Cardinality(old) \in Nat
  <2>1. n + 1 \notin old
    BY <1>1
  <2>2. IsFiniteSet(old)
    BY PlacesFinite
  <2> HIDE DEF old
  <2> QED BY <2>1, <2>2, FS_CardinalityType
<1> HIDE DEF old, new
<1>5. Cardinality(new) = Cardinality(old) + (IF y \in X THEN 1 ELSE 0)
  <2>1. CASE y \in X
    BY <1>3, <1>4, <2>1, FS_AddElement
  <2>2. CASE y \notin X
    BY <1>3, <1>4, <2>2
  <2> QED BY <2>1, <2>2
<1> QED BY <1>5 DEF Count, old, new

\* The first one that leaves counted if it was the same.
LEMMA CountTail ==
  ASSUME NEW S, NEW s \in Seq(S), s # <<>>, NEW X
  PROVE  Count(Tail(s), X) = Count(s, X) - (IF s[1] \in X THEN 1 ELSE 0)
<1> DEFINE old == {i \in 1 .. Len(s) : s[i] \in X}
           new == {i \in 1 .. Len(Tail(s)) : Tail(s)[i] \in X}
           shift == [i \in new |-> i + 1]
<1>1. PICK n \in Nat : n = Len(s) /\ n # 0
  OBVIOUS
<1>2. Len(Tail(s)) = n - 1 /\ \A i \in 1 .. n - 1 : Tail(s)[i] = s[i + 1]
  BY <1>1
<1>3. IsFiniteSet(old) /\ IsFiniteSet(new) /\ Cardinality(old) \in Nat
  <2>1. Tail(s) \in Seq(S)
    OBVIOUS
  <2> QED BY <2>1, PlacesFinite, FS_CardinalityType
<1>4. shift \in Bijection(new, old \ {1})
  <2>1. shift \in [new -> old \ {1}]
    BY <1>1, <1>2
  <2>2. \A a, b \in new : shift[a] = shift[b] => a = b
    OBVIOUS
  <2>3. \A b \in old \ {1} : \E a \in new : shift[a] = b
    <3> SUFFICES ASSUME NEW b \in old \ {1} PROVE \E a \in new : shift[a] = b
      OBVIOUS
    <3>1. b - 1 \in 1 .. n - 1 /\ (b - 1) + 1 = b /\ s[b] \in X
      BY <1>1
    <3>2. b - 1 \in new
      BY <1>2, <3>1
    <3> QED BY <3>1, <3>2
  <2> QED BY <2>1, <2>2, <2>3 DEF Bijection, Injection, Surjection, IsInjective
<1>5. s[1] \in X <=> 1 \in old
  BY <1>1
<1> HIDE DEF old, new, shift
<1>6. Cardinality(new) = Cardinality(old \ {1})
  BY <1>3, <1>4, FS_Bijection DEF ExistsBijection
<1>7. Cardinality(new) = Cardinality(old) - (IF s[1] \in X THEN 1 ELSE 0)
  <2>1. CASE s[1] \in X
    BY <1>3, <1>5, <1>6, <2>1, FS_RemoveElement
  <2>2. CASE s[1] \notin X
    <3>1. old \ {1} = old
      BY <1>5, <2>2
    <3>2. Cardinality(new) = Cardinality(old)
      BY <1>6, <3>1
    <3>3. PICK c \in Nat : c = Cardinality(old)
      BY <1>3
    <3> QED BY <2>2, <3>2, <3>3
  <2> QED BY <2>1, <2>2
<1> QED BY <1>7 DEF Count, old, new

\* More of a kind behind the others.
LEMMA CountConcat ==
  ASSUME NEW S, NEW s \in Seq(S), NEW c \in Seq(S), NEW X, NEW in \in BOOLEAN,
         \A i \in 1 .. Len(c) : c[i] \in X <=> in
  PROVE  Count(s \o c, X) = Count(s, X) + (IF in THEN Len(c) ELSE 0)
<1> DEFINE all == s \o c
           old == {i \in 1 .. Len(s) : s[i] \in X}
           new == {i \in 1 .. Len(all) : all[i] \in X}
<1>1. PICK n \in Nat, k \in Nat : n = Len(s) /\ k = Len(c)
  OBVIOUS
<1>2. /\ Len(all) = n + k
      /\ \A i \in 1 .. n : i \in 1 .. n + k /\ all[i] = s[i]
      /\ \A i \in n + 1 .. n + k : i \in 1 .. n + k /\ all[i] \in X <=> in
  <2>1. /\ Len(s \o c) = n + k
        /\ \A i \in 1 .. n + k : (s \o c)[i] = IF i <= n THEN s[i] ELSE c[i - n]
    BY <1>1
  <2>2. \A i \in n + 1 .. n + k : i \in 1 .. n + k /\ ~(i <= n) /\ i - n \in 1 .. k
    BY <1>1
  <2>3. \A i \in 1 .. n : i \in 1 .. n + k /\ i <= n
    BY <1>1
  <2>4. \A i \in 1 .. k : c[i] \in X <=> in
    BY <1>1
  <2>5. \A i \in n + 1 .. n + k : (s \o c)[i] = c[i - n]
    BY <2>1, <2>2
  <2>6. \A i \in n + 1 .. n + k : (s \o c)[i] \in X <=> in
    BY <2>2, <2>4, <2>5
  <2>7. \A i \in 1 .. n : (s \o c)[i] = s[i]
    BY <2>1, <2>3
  <2> QED BY <2>1, <2>2, <2>3, <2>6, <2>7
<1> HIDE DEF all
<1>3. old \subseteq 1 .. n /\ IsFiniteSet(old) /\ Cardinality(old) \in Nat
  BY <1>1, PlacesFinite, FS_CardinalityType
<1>4. 1 .. n + k = (1 .. n) \cup (n + 1 .. n + k)
  BY <1>1
<1>5. CASE ~in
  <2>1. new = old
    BY <1>1, <1>2, <1>4, <1>5
  <2>2. Cardinality(new) = Cardinality(old) + 0
    <3>1. PICK m \in Nat : m = Cardinality(old)
      BY <1>3
    <3>2. Cardinality(new) = Cardinality(old)
      BY <2>1
    <3> HIDE DEF old, new
    <3> QED BY <3>1, <3>2
  <2> HIDE DEF old, new
  <2> QED BY <1>5, <2>2 DEF Count, all, old, new
<1>6. CASE in
  <2>1. new = old \cup (n + 1 .. n + k)
    BY <1>1, <1>2, <1>4, <1>6
  <2>2. IsFiniteSet(n + 1 .. n + k) /\ Cardinality(n + 1 .. n + k) = k
    <3>1. /\ n + 1 \in Int /\ n + k \in Int
          /\ (IF n + 1 > n + k THEN 0 ELSE (n + k) - (n + 1) + 1) = k
      BY <1>1
    <3> QED BY <3>1, FS_Interval
  <2>3. old \cap (n + 1 .. n + k) = {}
    BY <1>1, <1>3
  <2> HIDE DEF old, new
  <2>4. Cardinality(new) = Cardinality(old) + k
    <3>1. PICK more : more = n + 1 .. n + k
      OBVIOUS
    <3>2. /\ IsFiniteSet(more) /\ Cardinality(more) = k /\ old \cap more = {}
          /\ new = old \cup more
      BY <2>1, <2>2, <2>3, <3>1
    <3>3. Cardinality(new) = Cardinality(old) + Cardinality(more) - Cardinality(old \cap more)
      BY <1>3, <3>2, FS_Union
    <3>4. Cardinality(old \cap more) = 0
      BY <3>2, FS_EmptySet
    <3> QED BY <1>3, <3>2, <3>3, <3>4
  <2> QED BY <1>1, <1>6, <2>4 DEF Count, all, old, new
<1> QED BY <1>5, <1>6

-----------------------------------------------------------------------------
(* The order of messages for one thread.                                   *)

\* The messages that have run (log), have a job (box) or wait in the harbor are in
\* order, those in the harbor strictly and behind the others, and none is above n.
Sorted(log, box, wait, n) ==
    /\ \A i \in 1 .. Len(log) : log[i] \in 1 .. n
    /\ \A i \in 1 .. Len(box) : box[i].kind = "msg" => box[i].msg \in 1 .. n
    /\ \A i \in 1 .. Len(wait) : wait[i] \in 1 .. n
    /\ \A i, j \in 1 .. Len(log) : i < j => log[i] <= log[j]
    /\ \A i \in 1 .. Len(log), j \in 1 .. Len(box) :
          box[j].kind = "msg" => log[i] <= box[j].msg
    /\ \A i, j \in 1 .. Len(box) :
          i < j /\ box[i].kind = "msg" /\ box[j].kind = "msg" => box[i].msg <= box[j].msg
    /\ \A i \in 1 .. Len(log), j \in 1 .. Len(wait) : log[i] < wait[j]
    /\ \A i \in 1 .. Len(box), j \in 1 .. Len(wait) :
          box[i].kind = "msg" => box[i].msg < wait[j]
    /\ \A i, j \in 1 .. Len(wait) : i < j => wait[i] < wait[j]

\* A job leaves the mailbox.
LEMMA SortedTail ==
  ASSUME NEW log, NEW box \in Seq(Job), NEW wait, NEW n,
         Sorted(log, box, wait, n), box # <<>>
  PROVE  Sorted(log, Tail(box), wait, n)
<1>1. PICK k \in Nat : k = Len(box) /\ k # 0
  OBVIOUS
<1>2. Len(Tail(box)) = k - 1 /\ \A i \in 1 .. k - 1 : Tail(box)[i] = box[i + 1]
  BY <1>1
<1>3. \A i \in 1 .. k - 1 : i + 1 \in 1 .. k
  BY <1>1
<1>4. \A i, j \in 1 .. k - 1 : i < j => i + 1 < j + 1
  OBVIOUS
<1> QED BY <1>1, <1>2, <1>3, <1>4 DEF Sorted

\* A job that is no message's comes to it.
LEMMA SortedOther ==
  ASSUME NEW log, NEW box \in Seq(Job), NEW wait, NEW n, NEW y \in Job, y.kind # "msg",
         Sorted(log, box, wait, n)
  PROVE  Sorted(log, Append(box, y), wait, n)
<1>1. PICK k \in Nat : k = Len(box)
  OBVIOUS
<1>2. /\ Len(Append(box, y)) = k + 1 /\ Append(box, y)[k + 1] = y
      /\ \A i \in 1 .. k : Append(box, y)[i] = box[i]
  BY <1>1
<1>3. PICK new : new = Append(box, y)
  OBVIOUS
<1>4. \A i \in 1 .. k + 1 : i \in 1 .. k \/ i = k + 1
  BY <1>1
<1>5. \A i \in 1 .. Len(new) : new[i].kind = "msg" => i \in 1 .. Len(box) /\ new[i] = box[i]
  BY <1>1, <1>2, <1>3, <1>4
<1>6. Sorted(log, new, wait, n)
  BY <1>5 DEF Sorted
<1> QED BY <1>3, <1>6

\* The first job of the mailbox runs.
LEMMA SortedRun ==
  ASSUME NEW n \in Nat, NEW log \in Seq(Nat), NEW box \in Seq(Job), NEW wait \in Seq(Nat),
         Sorted(log, box, wait, n), box # <<>>, Head(box).kind = "msg"
  PROVE  Sorted(Append(log, Head(box).msg), Tail(box), wait, n)
<1>1. PICK k \in Nat : k = Len(box) /\ k # 0
  OBVIOUS
<1>2. Len(Tail(box)) = k - 1 /\ \A i \in 1 .. k - 1 : Tail(box)[i] = box[i + 1]
  BY <1>1
<1>3. PICK m : m = Head(box).msg
  OBVIOUS
<1>4. box[1].kind = "msg" /\ box[1].msg = m /\ 1 \in 1 .. k
  BY <1>1, <1>3
<1>5. m \in 1 .. n
  BY <1>1, <1>4 DEF Sorted
<1>6. PICK l \in Nat : l = Len(log)
  OBVIOUS
<1>7. /\ Len(Append(log, m)) = l + 1 /\ Append(log, m)[l + 1] = m
      /\ \A i \in 1 .. l : Append(log, m)[i] = log[i]
  BY <1>5, <1>6
<1>8. PICK run, rest : run = Append(log, m) /\ rest = Tail(box)
  OBVIOUS
<1>9. \A i \in 1 .. k - 1 : i + 1 \in 1 .. k /\ 1 < i + 1
  BY <1>1
<1>10. \A i \in 1 .. l + 1 : i \in 1 .. l \/ i = l + 1
  BY <1>6
<1>11. Sorted(log, rest, wait, n)
  BY <1>8, SortedTail
<1>12. \A j \in 1 .. Len(rest) : rest[j].kind = "msg" => m <= rest[j].msg
  BY <1>1, <1>2, <1>4, <1>8, <1>9 DEF Sorted
<1>13. \A i \in 1 .. l : log[i] <= m
  BY <1>1, <1>4, <1>6 DEF Sorted
<1>14. \A j \in 1 .. Len(wait) : m < wait[j]
  BY <1>1, <1>4 DEF Sorted
<1>15. \A i, j \in 1 .. l + 1 : i < j => i \in 1 .. l /\ (j \in 1 .. l \/ j = l + 1)
  <2> SUFFICES ASSUME NEW i \in 1 .. l + 1, NEW j \in 1 .. l + 1, i < j
               PROVE  i \in 1 .. l /\ (j \in 1 .. l \/ j = l + 1)
    OBVIOUS
  <2>1. i \in Nat /\ j \in Nat /\ 1 <= i /\ i < j /\ j <= l + 1
    BY <1>6
  <2>2. i <= l /\ i \in 1 .. l
    BY <1>6, <2>1
  <2>3. j <= l => j \in 1 .. l
    BY <1>6, <2>1
  <2>4. j <= l \/ j = l + 1
    BY <2>1, SMTT(20)
  <2> QED BY <2>2, <2>3, <2>4
<1>16. \A i, j \in 1 .. Len(run) : i < j => run[i] <= run[j]
  BY <1>6, <1>7, <1>8, <1>11, <1>13, <1>15 DEF Sorted
<1>17. /\ \A i \in 1 .. Len(run) : run[i] \in 1 .. n
       /\ \A i \in 1 .. Len(run), j \in 1 .. Len(rest) : rest[j].kind = "msg" => run[i] <= rest[j].msg
       /\ \A i \in 1 .. Len(run), j \in 1 .. Len(wait) : run[i] < wait[j]
  BY <1>5, <1>6, <1>7, <1>8, <1>10, <1>11, <1>12, <1>14 DEF Sorted
<1>18. Sorted(run, rest, wait, n)
  BY <1>11, <1>16, <1>17 DEF Sorted
<1> QED BY <1>3, <1>8, <1>18

\* The jobs of a message are numbered by its handlers.
LEMMA JobsOfType ==
  ASSUME NEW m, NEW hinfo \in Seq({"cpp", "lua"})
  PROVE  /\ JobsOf(m, hinfo) \in Seq(JobsFor(m)) /\ Len(JobsOf(m, hinfo)) = Len(hinfo)
         /\ \A h \in 1 .. Len(hinfo) : JobsOf(m, hinfo)[h] = JobFor(m, h)
<1>1. PICK k \in Nat : k = Len(hinfo) /\ DOMAIN hinfo = 1 .. k
  OBVIOUS
<1>2. PICK T : T = JobsFor(m)
  OBVIOUS
<1>3. \A h \in 1 .. k : JobFor(m, h) \in T
  BY <1>2 DEF JobFor, JobsFor
<1>4. JobsOf(m, hinfo) = [h \in 1 .. k |-> JobFor(m, h)]
  BY <1>1 DEF JobsOf
<1>5. /\ [h \in 1 .. k |-> JobFor(m, h)] \in Seq(T) /\ Len([h \in 1 .. k |-> JobFor(m, h)]) = k
      /\ \A h \in 1 .. k : [i \in 1 .. k |-> JobFor(m, i)][h] = JobFor(m, h)
  BY <1>3
<1> QED BY <1>1, <1>2, <1>4, <1>5

\* The first message of the harbor gets its jobs on the thread.
LEMMA SortedSend ==
  ASSUME NEW n \in Nat, NEW log \in Seq(Nat), NEW box \in Seq(Job), NEW wait \in Seq(Nat),
         Sorted(log, box, wait, n), wait # <<>>, NEW hinfo \in Seq({"cpp", "lua"})
  PROVE  Sorted(log, box \o JobsOf(Head(wait), hinfo), Tail(wait), n)
<1>1. PICK h \in Nat : h = Len(wait) /\ h # 0
  OBVIOUS
<1>2. Len(Tail(wait)) = h - 1 /\ \A i \in 1 .. h - 1 : Tail(wait)[i] = wait[i + 1]
  BY <1>1
<1>3. PICK m \in Nat : m = Head(wait) /\ m = wait[1] /\ 1 \in 1 .. h
  BY <1>1
<1>4. PICK b \in Nat, k \in Nat : b = Len(box) /\ k = Len(hinfo)
  OBVIOUS
<1>5. PICK rest, new : rest = Tail(wait) /\ new = box \o JobsOf(m, hinfo)
  OBVIOUS
<1>6. /\ Len(new) = b + k
      /\ \A i \in 1 .. b : i \in 1 .. b + k /\ new[i] = box[i]
      /\ \A i \in 1 .. b + k : i > b => new[i].kind = "msg" /\ new[i].msg = m
  <2>1. PICK T : T = Job \cup JobsFor(m)
    OBVIOUS
  <2>2. PICK c \in Seq(JobsFor(m)) :
           c = JobsOf(m, hinfo) /\ Len(c) = k /\ \A i \in 1 .. k : c[i] = JobFor(m, i)
    BY <1>4, JobsOfType
  <2>3. box \in Seq(T) /\ c \in Seq(T)
    <3>1. \A q : q \in Seq(Job) => q \in Seq(Job \cup JobsFor(m))
      OBVIOUS
    <3>2. \A q : q \in Seq(JobsFor(m)) => q \in Seq(Job \cup JobsFor(m))
      OBVIOUS
    <3> QED BY <2>1, <3>1, <3>2
  <2>4. /\ Len(box \o c) = Len(box) + Len(c) /\ Len(box) \in Nat /\ Len(c) \in Nat
        /\ \A i \in 1 .. Len(box) + Len(c) :
              (box \o c)[i] = IF i <= Len(box) THEN box[i] ELSE c[i - Len(box)]
    BY <2>3
  <2>5. \A i \in 1 .. b + k : i > b => ~(i <= b) /\ i - b \in 1 .. k
    BY <1>4
  <2>6. \A i \in 1 .. k : c[i].kind = "msg" /\ c[i].msg = m
    BY <2>2 DEF JobFor
  <2>7. \A i \in 1 .. b : i \in 1 .. b + k /\ i <= b
    BY <1>4
  <2>8. Len(new) = b + k /\ \A i \in 1 .. b + k : new[i] = IF i <= b THEN box[i] ELSE c[i - b]
    BY <1>4, <1>5, <2>2, <2>4
  <2>9. \A i \in 1 .. b + k : i > b => new[i] = c[i - b]
    BY <2>5, <2>8
  <2>10. \A i \in 1 .. b + k : i > b => new[i].kind = "msg" /\ new[i].msg = m
    BY <2>5, <2>6, <2>9
  <2> QED BY <2>7, <2>8, <2>10
<1>7. \A i \in 1 .. b + k : i \in 1 .. b \/ i > b
  BY <1>4
<1>8. \A i \in 1 .. Len(rest) : i + 1 \in 1 .. h /\ 1 < i + 1 /\ rest[i] = wait[i + 1]
  BY <1>1, <1>2, <1>5
<1>9. \A i \in 1 .. Len(new) :
         new[i].kind = "msg" =>
            (i \in 1 .. b /\ new[i] = box[i]) \/ (i > b /\ new[i].msg = m)
  BY <1>6, <1>7
<1>10. m \in 1 .. n /\ \A j \in 1 .. Len(rest) : rest[j] \in 1 .. n /\ m < rest[j]
  BY <1>1, <1>3, <1>8 DEF Sorted
<1>11. \A i \in 1 .. Len(log) : log[i] < m
  BY <1>1, <1>3 DEF Sorted
<1>12. \A i \in 1 .. b : box[i].kind = "msg" => box[i].msg < m
  BY <1>1, <1>3, <1>4 DEF Sorted
<1>13. \A i \in 1 .. Len(new) : new[i].kind = "msg" => new[i].msg \in 1 .. n
  BY <1>4, <1>9, <1>10 DEF Sorted
<1>14. \A i \in 1 .. Len(log), j \in 1 .. Len(new) : new[j].kind = "msg" => log[i] <= new[j].msg
  <2>1. \A i \in 1 .. Len(log) : log[i] \in Nat
    OBVIOUS
  <2> SUFFICES ASSUME NEW i \in 1 .. Len(log), NEW j \in 1 .. Len(new), new[j].kind = "msg"
               PROVE  log[i] <= new[j].msg
    OBVIOUS
  <2>2. CASE j \in 1 .. b /\ new[j] = box[j]
    BY <1>4, <2>2 DEF Sorted
  <2>3. CASE new[j].msg = m
    BY <1>3, <1>11, <2>1, <2>3
  <2> QED BY <1>9, <2>2, <2>3
<1>15. \A i, j \in 1 .. Len(new) :
          i < j /\ new[i].kind = "msg" /\ new[j].kind = "msg" => new[i].msg <= new[j].msg
  <2> SUFFICES ASSUME NEW i \in 1 .. Len(new), NEW j \in 1 .. Len(new), i < j,
                      new[i].kind = "msg", new[j].kind = "msg"
               PROVE  new[i].msg <= new[j].msg
    OBVIOUS
  <2>1. CASE i \in 1 .. b /\ j \in 1 .. b
    <3>1. new[i] = box[i] /\ new[j] = box[j]
      BY <1>6, <2>1
    <3> QED BY <1>4, <2>1, <3>1 DEF Sorted
  <2>2. CASE i \in 1 .. b /\ j > b
    <3>1. new[i] = box[i] /\ new[j].msg = m
      BY <1>4, <1>6, <1>7, <2>2
    <3>2. box[i].msg < m /\ box[i].msg \in 1 .. n
      BY <1>4, <1>12, <2>2, <3>1 DEF Sorted
    <3> QED BY <1>3, <3>1, <3>2
  <2>3. CASE i > b
    <3>1. j > b
      BY <1>4, <1>6, <2>3
    <3>2. new[i].msg = m /\ new[j].msg = m
      BY <1>4, <1>6, <1>7, <2>3, <3>1
    <3> QED BY <1>3, <3>2
  <2> QED BY <1>4, <1>6, <2>1, <2>2, <2>3
<1>16. /\ \A i \in 1 .. Len(rest) : rest[i] \in 1 .. n
       /\ \A i \in 1 .. Len(log), j \in 1 .. Len(rest) : log[i] < rest[j]
       /\ \A i, j \in 1 .. Len(rest) : i < j => rest[i] < rest[j]
  <2>1. \A i, j \in 1 .. Len(rest) : i < j => i + 1 < j + 1
    OBVIOUS
  <2> QED BY <1>1, <1>8, <2>1 DEF Sorted
<1>17. \A i \in 1 .. Len(new), j \in 1 .. Len(rest) : new[i].kind = "msg" => new[i].msg < rest[j]
  BY <1>1, <1>4, <1>8, <1>9, <1>10 DEF Sorted
<1>18. Sorted(log, new, rest, n)
  BY <1>13, <1>14, <1>15, <1>16, <1>17 DEF Sorted
<1> QED BY <1>3, <1>5, <1>18

\* A new message comes to the harbor.
LEMMA SortedPost ==
  ASSUME NEW n \in Nat, NEW log \in Seq(Nat), NEW box \in Seq(Job), NEW wait \in Seq(Nat),
         Sorted(log, box, wait, n)
  PROVE  Sorted(log, box, Append(wait, n + 1), n + 1)
<1>1. PICK h \in Nat : h = Len(wait)
  OBVIOUS
<1>2. PICK new : new = Append(wait, n + 1)
  OBVIOUS
<1>3. /\ Len(new) = h + 1 /\ new[h + 1] = n + 1
      /\ \A i \in 1 .. h : new[i] = wait[i]
  BY <1>1, <1>2
<1>4. \A i \in 1 .. h + 1 : i \in 1 .. h \/ i = h + 1
  BY <1>1
<1>5. \A i \in 1 .. n : i \in 1 .. n + 1 /\ i < n + 1
  OBVIOUS
<1>6. \A i, j \in 1 .. h + 1 : i < j => i \in 1 .. h
  BY <1>1
<1>7. \A i \in 1 .. Len(new) : new[i] \in 1 .. n + 1
  <2> SUFFICES ASSUME NEW i \in 1 .. Len(new) PROVE new[i] \in 1 .. n + 1
    OBVIOUS
  <2>1. CASE i \in 1 .. h
    BY <1>1, <1>3, <1>5, <2>1 DEF Sorted
  <2>2. CASE i = h + 1
    BY <1>3, <2>2
  <2> QED BY <1>3, <1>4, <2>1, <2>2
<1>8. \A i, j \in 1 .. Len(new) : i < j => new[i] < new[j]
  BY <1>1, <1>3, <1>4, <1>5, <1>6 DEF Sorted
<1>9. /\ \A i \in 1 .. Len(log), j \in 1 .. Len(new) : log[i] < new[j]
      /\ \A i \in 1 .. Len(box), j \in 1 .. Len(new) : box[i].kind = "msg" => box[i].msg < new[j]
  BY <1>1, <1>3, <1>4, <1>5 DEF Sorted
<1>10. Sorted(log, box, new, n + 1)
  BY <1>5, <1>7, <1>8, <1>9 DEF Sorted
<1> QED BY <1>2, <1>10

\* What waits in the harbor has no job yet.
LEMMA NoneYet ==
  ASSUME NEW n \in Nat, NEW log \in Seq(Nat), NEW box \in Seq(Job), NEW wait \in Seq(Nat),
         Sorted(log, box, wait, n), NEW m \in Nat,
         (\E j \in 1 .. Len(wait) : m = wait[j]) \/ m > n
  PROVE  Count(log, {m}) = 0 /\ Count(box, JobsFor(m)) = 0
<1>1. \A i \in 1 .. Len(log) : log[i] < m
  <2>1. CASE m > n
    <3>1. \A i \in 1 .. Len(log) : log[i] \in 1 .. n
      BY DEF Sorted
    <3> QED BY <2>1, <3>1
  <2>2. CASE \E j \in 1 .. Len(wait) : m = wait[j]
    BY <2>2 DEF Sorted
  <2> QED BY <2>1, <2>2
<1>2. \A i \in 1 .. Len(box) : box[i].kind = "msg" => box[i].msg < m
  <2>1. CASE m > n
    BY <2>1 DEF Sorted
  <2>2. CASE \E j \in 1 .. Len(wait) : m = wait[j]
    BY <2>2 DEF Sorted
  <2> QED BY <2>1, <2>2
<1>3. \A i \in 1 .. Len(log) : log[i] \notin {m}
  BY <1>1
<1>4. \A i \in 1 .. Len(box) : box[i] \notin JobsFor(m)
  <2>1. \A y \in JobsFor(m) : y.kind = "msg" /\ y.msg = m
    BY DEF JobsFor
  <2> QED BY <1>2, <2>1
<1> QED BY <1>3, <1>4, CountNowhere

-----------------------------------------------------------------------------
(* The invariant.                                                          *)

\* Which threads still owe the result of their auto_listen.
Pending == {t \in Threads : boot[t] \in {"pushed", "listening"}}

\* A job that is no message's has neither a message nor a handler.
Plain(job) == job.kind # "msg" => job = Auto1(job.kind)

\* The job of auto_listen is in the mailbox until it has ended, first in it while it
\* runs.
BootInv ==
    /\ \A t \in Threads : boot[t] = "before" <=> boot[Main] = "before"
    /\ boot[Main] = "before" => acks = 0
    /\ \A t \in Threads :
          Count(mbox[t], {Auto1("auto")}) = IF t \in Pending THEN 1 ELSE 0
    /\ \A t \in Threads :
          boot[t] = "listening" => mbox[t] # <<>> /\ Head(mbox[t]) = Auto1("auto")
    /\ \A t \in Threads : \A i \in 1 .. Len(mbox[t]) :
          Plain(mbox[t][i])

\* job_count_ counts the threads whose result is still to come and the results that
\* wait for Main.
AckInv == acks = Cardinality(Pending) + Count(mbox[Main], {Auto1("ack")})

\* aapp_run has sent smsg_ready.
Posted == boot[Main] # "before" /\ acks = 0

SentInv == Len(sent) <= calls + (IF Posted THEN 1 ELSE 0)

FlowInv == \A t \in Threads : Sorted(ranlog[t], mbox[t], harbor, Len(sent))

\* A message whose object has not moved is for the thread the object is in.
StayInv ==
    \A m \in 1 .. MaxMsgs : stays[m] # None =>
       /\ m \in 1 .. Len(sent) /\ sent[m].rid # None
       /\ route[sent[m].rid] = stays[m]

IInv ==
    /\ TypeOK /\ BootInv /\ AckInv /\ SentInv /\ FlowInv /\ StayInv
    /\ StaysPut

\* What the lemmas about one thread's sequences ask for.
LEMMA Shapes ==
  ASSUME TypeOK, NEW t \in Threads
  PROVE  /\ ranlog[t] \in Seq(Nat) /\ ranlog[t] \in Seq(1 .. MaxMsgs)
         /\ mbox[t] \in Seq(Job) /\ harbor \in Seq(Nat)
         /\ Len(sent) \in Nat /\ MaxMsgs \in Nat /\ MaxMsgs = MaxCalls + 1
<1>1. \A q : q \in Seq(1 .. MaxMsgs) => q \in Seq(Nat)
  <2>1. 1 .. MaxMsgs \subseteq Nat
    BY NamesAssumption DEF MaxMsgs
  <2> SUFFICES ASSUME NEW q \in Seq(1 .. MaxMsgs) PROVE q \in Seq(Nat)
    OBVIOUS
  <2>2. Len(q) \in Nat /\ q = [i \in 1 .. Len(q) |-> q[i]]
    OBVIOUS
  <2>3. \A i \in 1 .. Len(q) : q[i] \in Nat
    <3>1. PICK T : T = 1 .. MaxMsgs
      OBVIOUS
    <3>2. q \in Seq(T) /\ T \subseteq Nat
      BY <2>1, <3>1
    <3>3. \A i \in 1 .. Len(q) : q[i] \in T
      BY <3>2
    <3> QED BY <3>2, <3>3
  <2>4. [i \in 1 .. Len(q) |-> q[i]] \in Seq(Nat)
    BY <2>2, <2>3
  <2> QED BY <2>2, <2>4
<1> QED BY <1>1, NamesAssumption DEF TypeOK, MaxMsgs

\* The jobs of auto_listen and of its result are no message's.
LEMMA OwnJobs ==
  /\ Auto1("auto") \in Job /\ Auto1("ack") \in Job
  /\ Auto1("auto").kind = "auto" /\ Auto1("ack").kind = "ack"
  /\ Plain(Auto1("auto")) /\ Plain(Auto1("ack"))
  /\ Auto1("auto") # Auto1("ack")
  /\ \A m : Auto1("auto") \notin JobsFor(m) /\ Auto1("ack") \notin JobsFor(m)
<1>1. 0 \in 0 .. MaxMsgs
  BY NamesAssumption DEF MaxMsgs
<1>2. /\ Auto1("auto").kind = "auto" /\ Auto1("ack").kind = "ack"
      /\ \A m : \A y \in JobsFor(m) : y.kind = "msg"
  BY DEF Auto1, JobsFor
<1>3. Auto1("auto") \in Job /\ Auto1("ack") \in Job
  BY <1>1 DEF Auto1, Job
<1>4. Auto1("auto") # Auto1("ack") /\ \A m : Auto1("auto") \notin JobsFor(m) /\ Auto1("ack") \notin JobsFor(m)
  BY <1>2
<1>5. Plain(Auto1("auto")) /\ Plain(Auto1("ack"))
  BY <1>2 DEF Plain
<1> QED BY <1>2, <1>3, <1>4, <1>5

\* There are finitely many threads, so also those that owe a result.
LEMMA PendingFinite ==
  /\ IsFiniteSet(Pending) /\ Cardinality(Pending) \in Nat
  /\ Cardinality(Pending) <= Cardinality(Threads) /\ Cardinality(Threads) \in Nat
<1>1. Pending \subseteq Threads
  BY DEF Pending
<1> QED BY <1>1, NamesAssumption, FS_Subset, FS_CardinalityType

\* The invariant holds at the start.
LEMMA InitInv == Init => IInv
<1> SUFFICES ASSUME Init PROVE IInv
  OBVIOUS
<1>1. TypeOK
  <2>1. /\ None \in Names \cup {None} /\ 0 \in 0 .. MaxCalls /\ 0 \in 0 .. Cardinality(Threads)
        /\ Main \in Threads
    BY NamesAssumption, PendingFinite
  <2>2. 0 <= MaxMsgs
    BY NamesAssumption DEF MaxMsgs
  <2> QED BY <2>1, <2>2 DEF Init, TypeOK
<1>2. \A t \in Threads : \A x : Count(mbox[t], x) = 0 /\ Count(ranlog[t], x) = 0
  BY CountEmpty DEF Init
<1>3. Pending = {}
  BY DEF Init, Pending
<1>4. BootInv
  <2>1. \A t \in Threads : boot[t] = "before" /\ mbox[t] = <<>> /\ t \notin Pending
    BY <1>3 DEF Init
  <2>2. acks = 0 /\ boot[Main] = "before"
    BY <2>1, NamesAssumption DEF Init
  <2>3. \A t \in Threads : Count(mbox[t], {Auto1("auto")}) = 0
    BY <1>2
  <2>4. \A t \in Threads : \A i \in 1 .. Len(mbox[t]) : Plain(mbox[t][i])
    BY <2>1
  <2> QED BY <2>1, <2>2, <2>3, <2>4 DEF BootInv
<1>5. AckInv
  BY <1>2, <1>3, NamesAssumption, FS_EmptySet DEF Init, AckInv
<1>6. SentInv /\ StayInv
  BY DEF Init, SentInv, StayInv, Posted
<1>7. FlowInv
  BY DEF Init, FlowInv, Sorted
<1>8. StaysPut
  BY DEF Init, StaysPut
<1> QED BY <1>1, <1>4, <1>5, <1>6, <1>7, <1>8 DEF IInv

-----------------------------------------------------------------------------
(* What leaves the messages alone.                                         *)

\* The start of a process does not see anything else.
LEMMA BootFrame ==
  ASSUME BootInv, AckInv, UNCHANGED <<boot, mbox, acks>>
  PROVE  BootInv' /\ AckInv' /\ Pending' = Pending /\ (Posted' <=> Posted)
<1>1. Pending' = Pending
  BY DEF Pending
<1> QED BY <1>1 DEF BootInv, AckInv, Posted

\* A mailbox changes in jobs that are no message's.
LEMMA MailStep ==
  ASSUME TypeOK, FlowInv, StayInv, StaysPut,
         UNCHANGED <<harbor, sent, stays, ranlog, called, route, hands>>,
         \A t \in Threads :
            /\ Sorted(ranlog[t], mbox'[t], harbor, Len(sent))
            /\ \A m : Count(mbox'[t], JobsFor(m)) = Count(mbox[t], JobsFor(m))
  PROVE  FlowInv' /\ StayInv' /\ StaysPut'
<1>1. \A t \in Threads : \A m : JobsOn(t, m)' = JobsOn(t, m)
  BY DEF JobsOn
<1>2. FlowInv'
  BY DEF FlowInv
<1>3. StayInv'
  BY DEF StayInv
<1>4. StaysPut'
  BY <1>1 DEF StaysPut
<1> QED BY <1>2, <1>3, <1>4

\* The jobs of a message on a thread can be counted.
LEMMA JobsOnType ==
  ASSUME TypeOK, NEW t \in Threads, NEW m
  PROVE  /\ Count(ranlog[t], {m}) \in Nat /\ Count(mbox[t], JobsFor(m)) \in Nat
         /\ JobsOn(t, m) \in Nat
<1>1. PICK log \in Seq(Nat) : log = ranlog[t]
  BY Shapes
<1>2. PICK box \in Seq(Job) : box = mbox[t]
  BY Shapes
<1>3. Count(log, {m}) \in Nat /\ Count(box, JobsFor(m)) \in Nat
  BY PlacesFinite
<1>4. JobsOn(t, m) = Count(log, {m}) + Count(box, JobsFor(m))
  BY <1>1, <1>2 DEF JobsOn
<1> QED BY <1>1, <1>2, <1>3, <1>4

\* A message's name has an id, of which each thread has some number of handlers.
LEMMA SentType ==
  ASSUME TypeOK, NEW m \in 1 .. Len(sent)
  PROVE  /\ sent[m] \in Message /\ sent[m].name \in Names /\ sent[m].rid \in Objects \cup {None}
         /\ Crc[sent[m].name] \in Ids
<1>1. sent[m] \in Message
  BY DEF TypeOK
<1>2. sent[m].name \in Names /\ sent[m].rid \in Objects \cup {None}
  BY <1>1 DEF Message
<1> QED BY <1>1, <1>2 DEF Ids

\* What only changes the tables of names and handlers keeps the invariant.
LEMMA TablesStep ==
  ASSUME IInv, TypeOK', calls' >= calls,
         UNCHANGED <<route, harbor, mbox, boot, acks, sent, stays, ranlog, called>>
  PROVE  IInv'
<1>1. BootInv' /\ AckInv' /\ (Posted' <=> Posted)
  BY BootFrame DEF IInv
<1>2. SentInv'
  BY <1>1 DEF IInv, SentInv, TypeOK
<1>3. FlowInv' /\ StayInv'
  BY DEF IInv, FlowInv, StayInv
<1>4. \A t \in Threads : \A m : JobsOn(t, m)' = JobsOn(t, m)
  BY DEF JobsOn
<1>5. StaysPut'
  BY <1>4 DEF IInv, StaysPut
<1> QED BY <1>1, <1>2, <1>3, <1>5 DEF IInv

\* Registering a name keeps the type of minfo_by_id_.
LEMMA RegMsgType ==
  ASSUME TypeOK, NEW n \in Names
  PROVE  RegMsg(n) \in [Ids -> Names \cup {None}]
BY DEF TypeOK, RegMsg

\* Handlers are added behind the others, never removed.
Extends(new, old) ==
    \A id \in Ids, t \in Threads :
       /\ Len(new[id][t]) >= Len(old[id][t])
       /\ \A h \in 1 .. Len(old[id][t]) : new[id][t][h] = old[id][t][h]

\* The same table extends itself.
LEMMA SameExtends ==
  ASSUME TypeOK, hands' = hands
  PROVE  Extends(hands', hands)
<1> SUFFICES ASSUME NEW id \in Ids, NEW t \in Threads PROVE Len(hands[id][t]) >= Len(hands[id][t])
  BY DEF Extends
<1>1. hands[id][t] \in Seq({"cpp", "lua"})
  BY DEF TypeOK
<1>2. PICK k \in Nat : k = Len(hands[id][t])
  BY <1>1, LenProperties
<1> QED BY <1>2

\* A new handler takes none away.
LEMMA AddHandMore ==
  ASSUME TypeOK, NEW t \in Threads, NEW n \in Names, NEW lang \in {"cpp", "lua"}
  PROVE  /\ AddHand(t, n, lang) \in [Ids -> [Threads -> Seq({"cpp", "lua"})]]
         /\ Extends(AddHand(t, n, lang), hands)
<1>0. PICK L : L = {"cpp", "lua"}
  OBVIOUS
<1>1. hands \in [Ids -> [Threads -> Seq(L)]] /\ Crc[n] \in Ids /\ lang \in L
  BY <1>0 DEF TypeOK, Ids
<1>2. PICK old \in [Threads -> Seq(L)] : old = hands[Crc[n]]
  BY <1>1
<1>3. PICK new \in Seq(L) :
         /\ new = Append(old[t], lang) /\ Len(new) = Len(old[t]) + 1
         /\ \A h \in 1 .. Len(old[t]) : new[h] = old[t][h]
  <2>1. PICK q \in Seq(L) : q = old[t]
    BY <1>2
  <2>2. /\ Append(q, lang) \in Seq(L) /\ Len(Append(q, lang)) = Len(q) + 1
        /\ \A h \in 1 .. Len(q) : Append(q, lang)[h] = q[h]
    BY <1>1
  <2> QED BY <2>1, <2>2
<1>4. PICK row \in [Threads -> Seq(L)] : row = [old EXCEPT ![t] = new]
  <2>1. [old EXCEPT ![t] = new] \in [Threads -> Seq(L)]
    BY <1>2, <1>3
  <2> QED BY <2>1
<1>5. AddHand(t, n, lang) = [hands EXCEPT ![Crc[n]] = row]
  BY <1>1, <1>2, <1>3, <1>4 DEF AddHand
<1>6. [hands EXCEPT ![Crc[n]] = row] \in [Ids -> [Threads -> Seq(L)]]
  BY <1>1, <1>4
<1>7. ASSUME NEW id \in Ids, NEW u \in Threads
      PROVE  LET now == [hands EXCEPT ![Crc[n]] = row] IN
             /\ Len(now[id][u]) >= Len(hands[id][u])
             /\ \A h \in 1 .. Len(hands[id][u]) : now[id][u][h] = hands[id][u][h]
  <2>1. PICK k \in Nat : k = Len(hands[id][u])
    BY <1>1
  <2>2. CASE id = Crc[n] /\ u = t
    <3>1. [hands EXCEPT ![Crc[n]] = row][id][u] = new /\ hands[id][u] = old[t]
      BY <1>1, <1>2, <1>4, <2>2
    <3>2. k + 1 >= k
      BY <2>1
    <3> QED BY <1>3, <2>1, <3>1, <3>2
  <2>3. CASE ~(id = Crc[n] /\ u = t)
    <3>1. [hands EXCEPT ![Crc[n]] = row][id][u] = hands[id][u]
      BY <1>1, <1>2, <1>4, <2>3
    <3>2. k >= k
      BY <2>1
    <3> QED BY <2>1, <3>1, <3>2
  <2> QED BY <2>2, <2>3
<1>8. Extends([hands EXCEPT ![Crc[n]] = row], hands)
  BY <1>7 DEF Extends
<1> QED BY <1>0, <1>5, <1>6, <1>8

\* A Lua state that learns a name keeps the type of its table.
LEMMA KnowsType ==
  ASSUME TypeOK, NEW t \in Threads, NEW n \in Names
  PROVE  Knows(t, n) \in [Threads -> [Ids -> Names \cup {None}]]
<1>1. Crc[n] \in Ids
  BY DEF Ids
<1> QED BY <1>1 DEF TypeOK, Knows

\* One more callback keeps the type of the counts.
LEMMA CbsType ==
  ASSUME TypeOK, NEW t \in Threads, NEW n \in Names
  PROVE  [cbs EXCEPT ![t][n] = @ + 1] \in [Threads -> [Names -> Nat]]
BY DEF TypeOK

\* A call is counted up to the bound.
LEMMA CallType ==
  ASSUME TypeOK, NEW t \in Threads, Call(t)
  PROVE  calls' \in 0 .. MaxCalls /\ calls' >= calls /\ calls' = calls + 1 /\ calls \in Nat
BY NamesAssumption DEF TypeOK, Call

\* A listen from C++ keeps the invariant.
LEMMA CppListenInv ==
  ASSUME IInv, NEW t \in Threads, NEW n \in Listens, CppListen(t, n)
  PROVE  IInv'
<1>1. n \in Names /\ TypeOK
  BY NamesAssumption DEF IInv
<1>2. TypeOK'
  BY <1>1, RegMsgType, AddHandMore, CallType DEF CppListen, TypeOK, states, start, done
<1>3. UNCHANGED <<route, harbor, mbox, boot, acks, sent, stays, ranlog, called>>
  BY DEF CppListen, start, done
<1>4. calls' >= calls
  BY <1>1, CallType DEF CppListen, done
<1> QED BY <1>2, <1>3, <1>4, TablesStep

\* ahar.listen keeps the types and removes no handler.
LEMMA DoListenType ==
  ASSUME TypeOK, NEW t \in Threads, NEW n \in Names, DoListen(t, n)
  PROVE  /\ mname' \in [Ids -> Names \cup {None}]
         /\ hands' \in [Ids -> [Threads -> Seq({"cpp", "lua"})]]
         /\ known' \in [Threads -> [Ids -> Names \cup {None}]]
         /\ cbs' \in [Threads -> [Names -> Nat]]
         /\ Extends(hands', hands)
BY RegMsgType, AddHandMore, KnowsType, CbsType DEF DoListen

\* A listen from Lua keeps the invariant.
LEMMA LuaListenInv ==
  ASSUME IInv, NEW t \in Threads, NEW n \in Listens, LuaListen(t, n)
  PROVE  IInv'
<1>1. n \in Names /\ TypeOK
  BY NamesAssumption DEF IInv
<1>2. TypeOK'
  BY <1>1, DoListenType, CallType DEF LuaListen, TypeOK, start, done
<1>3. UNCHANGED <<route, harbor, mbox, boot, acks, sent, stays, ranlog, called>>
  BY DEF LuaListen, start, done
<1>4. calls' >= calls
  BY <1>1, CallType DEF LuaListen, done
<1> QED BY <1>2, <1>3, <1>4, TablesStep

\* A send from Lua, which only registers, keeps the invariant.
LEMMA LuaSendInv ==
  ASSUME IInv, NEW t \in Threads, NEW n \in Listens, LuaSend(t, n)
  PROVE  IInv'
<1>1. n \in Names /\ TypeOK
  BY NamesAssumption DEF IInv
<1>2. TypeOK'
  BY <1>1, RegMsgType, KnowsType, CallType DEF LuaSend, TypeOK, start, done
<1>3. UNCHANGED <<route, harbor, mbox, boot, acks, sent, stays, ranlog, called>>
  BY DEF LuaSend, start, done
<1>4. calls' >= calls
  BY <1>1, CallType DEF LuaSend, done
<1> QED BY <1>2, <1>3, <1>4, TablesStep

\* A function that auto_listen finds keeps the invariant.
LEMMA AutoListenInv ==
  ASSUME IInv, NEW t \in Threads, NEW n \in Names, AutoListen(t, n)
  PROVE  IInv'
<1>1. TypeOK
  BY DEF IInv
<1>2. todo' \in [Threads -> [Names -> Nat]]
  <2>1. PICK k \in Nat : k = todo[t][n] /\ k > 0
    BY <1>1 DEF TypeOK, AutoListen, done
  <2>2. k - 1 \in Nat
    BY <2>1
  <2>3. todo' = [todo EXCEPT ![t][n] = k - 1]
    BY <2>1 DEF AutoListen, done
  <2> QED BY <1>1, <2>2, <2>3 DEF TypeOK
<1>3. TypeOK'
  BY <1>1, <1>2, DoListenType DEF AutoListen, TypeOK, done
<1>4. UNCHANGED <<route, harbor, mbox, boot, acks, sent, stays, ranlog, called>>
  BY DEF AutoListen, done
<1>5. calls' >= calls
  BY <1>1 DEF AutoListen, TypeOK, done
<1> QED BY <1>3, <1>4, <1>5, TablesStep

-----------------------------------------------------------------------------
(* Objects that move.                                                      *)

\* An object that enters or leaves a thread: messages to it have lost it.
LEMMA MovedInv ==
  ASSUME IInv, NEW o \in Objects, NEW t \in Threads \cup {None}, Moved(o, t), calls' = calls + 1,
         calls' \in 0 .. MaxCalls,
         UNCHANGED <<tables, harbor, mbox, states, start, sent, ranlog, called>>
  PROVE  IInv'
<1>1. TypeOK
  BY DEF IInv
<1>2. /\ route' = [route EXCEPT ![o] = t]
      /\ stays' = [m \in 1 .. MaxMsgs |->
                     IF m \in 1 .. Len(sent) /\ sent[m].rid = o /\ route[o] # t
                     THEN None ELSE stays[m]]
  BY DEF Moved
<1>3. TypeOK'
  BY <1>1, <1>2 DEF TypeOK, tables, states, start
<1>4. \A m \in 1 .. MaxMsgs : stays'[m] # None => stays'[m] = stays[m]
  BY <1>2
<1>5. BootInv' /\ AckInv' /\ (Posted' <=> Posted)
  BY BootFrame DEF IInv, start
<1>6. SentInv'
  BY <1>1, <1>5 DEF IInv, SentInv, TypeOK
<1>7. FlowInv'
  BY DEF IInv, FlowInv
<1>8. StayInv'
  <2> SUFFICES ASSUME NEW m \in 1 .. MaxMsgs, stays'[m] # None
               PROVE  /\ m \in 1 .. Len(sent) /\ sent[m].rid # None
                      /\ route'[sent[m].rid] = stays'[m]
    BY DEF StayInv
  <2>1. stays'[m] = stays[m] /\ stays[m] # None
    BY <1>4
  <2>2. m \in 1 .. Len(sent) /\ sent[m].rid # None /\ route[sent[m].rid] = stays[m]
    BY <2>1 DEF IInv, StayInv
  <2>3. ~(sent[m].rid = o /\ route[o] # t)
    BY <1>2, <2>2
  <2>4. route'[sent[m].rid] = route[sent[m].rid]
    BY <1>1, <1>2, <2>3 DEF TypeOK
  <2> QED BY <2>1, <2>2, <2>4
<1>9. \A u \in Threads : \A m : JobsOn(u, m)' = JobsOn(u, m)
  BY DEF JobsOn
<1>10. StaysPut'
  <2> SUFFICES ASSUME NEW m \in 1 .. Len(sent), stays'[m] # None, NEW u \in Threads
               PROVE  JobsOn(u, m) <= IF u = stays'[m] THEN 1 ELSE 0
    BY <1>9 DEF StaysPut
  <2>1. m \in 1 .. MaxMsgs
    BY <1>1, NamesAssumption DEF TypeOK, MaxMsgs
  <2> QED BY <1>4, <2>1 DEF IInv, StaysPut
<1> QED BY <1>3, <1>5, <1>6, <1>7, <1>8, <1>10 DEF IInv

\* ahar_enterct and ahar_leavect keep the invariant.
LEMMA EnterLeaveInv ==
  ASSUME IInv, NEW t \in Threads, NEW o \in Objects, EnterCt(t, o) \/ LeaveCt(t, o)
  PROVE  IInv'
<1>1. calls' = calls + 1 /\ calls' \in 0 .. MaxCalls
  BY CallType DEF IInv, EnterCt, LeaveCt, done
<1>2. CASE EnterCt(t, o)
  BY <1>1, <1>2, MovedInv DEF EnterCt, done
<1>3. CASE LeaveCt(t, o)
  BY <1>1, <1>3, MovedInv DEF LeaveCt, done
<1> QED BY <1>2, <1>3

-----------------------------------------------------------------------------
(* Messages.                                                               *)

\* A message is sent, while the mailboxes change at most in jobs that are no message's.
LEMMA PostStep ==
  ASSUME IInv, NEW t \in Threads, NEW rid \in Objects \cup {None}, NEW n \in Names,
         Post(t, rid, n), Len(sent) < MaxMsgs, UNCHANGED <<ranlog, called, route, hands>>,
         \A u \in Threads :
            /\ mbox'[u] \in Seq(Job)
            /\ Sorted(ranlog[u], mbox'[u], harbor, Len(sent))
            /\ \A m : Count(mbox'[u], JobsFor(m)) = Count(mbox[u], JobsFor(m))
  PROVE  /\ harbor' \in Seq(1 .. MaxMsgs) /\ sent' \in Seq(Message)
         /\ Len(sent') = Len(sent) + 1 /\ Len(sent') <= MaxMsgs
         /\ \A m \in 1 .. Len(sent) : sent'[m] = sent[m]
         /\ sent'[Len(sent')].name = n
         /\ stays' \in [1 .. MaxMsgs -> Threads \cup {None}]
         /\ FlowInv' /\ StayInv' /\ StaysPut'
<1>1. TypeOK
  BY DEF IInv
<1>2. PICK k \in Nat : k = Len(sent) /\ k + 1 \in 1 .. MaxMsgs
  BY <1>1, Shapes
<1>3. PICK msg \in Message : msg = [rid |-> rid, name |-> n, from |-> t]
  BY DEF Message
<1>4. PICK own \in Threads \cup {None} : own = IF rid = None THEN None ELSE route[rid]
  BY <1>1 DEF TypeOK
<1>5. /\ sent' = Append(sent, msg) /\ stays' = [stays EXCEPT ![k + 1] = own]
      /\ harbor' = Append(harbor, k + 1)
  BY <1>2, <1>3, <1>4 DEF Post, Queued
<1>6. /\ sent' \in Seq(Message) /\ Len(sent') = k + 1 /\ sent'[k + 1] = msg
      /\ \A m \in 1 .. k : sent'[m] = sent[m]
  BY <1>1, <1>2, <1>3, <1>5 DEF TypeOK
<1>7. /\ stays' \in [1 .. MaxMsgs -> Threads \cup {None}] /\ stays'[k + 1] = own
      /\ \A m \in 1 .. MaxMsgs : m # k + 1 => stays'[m] = stays[m]
  BY <1>1, <1>2, <1>5 DEF TypeOK
<1>8. harbor' \in Seq(1 .. MaxMsgs)
  BY <1>1, <1>2, <1>5 DEF TypeOK
<1>9. FlowInv'
  <2> SUFFICES ASSUME NEW u \in Threads PROVE Sorted(ranlog'[u], mbox'[u], harbor', Len(sent'))
    BY DEF FlowInv
  <2>1. PICK log \in Seq(Nat), box \in Seq(Job), wait \in Seq(Nat) :
           log = ranlog[u] /\ box = mbox'[u] /\ wait = harbor
    BY <1>1, Shapes
  <2>2. Sorted(log, box, wait, k)
    BY <1>2, <2>1
  <2>3. Sorted(log, box, Append(wait, k + 1), k + 1)
    BY <2>2, SortedPost
  <2> QED BY <1>5, <1>6, <2>1, <2>3
<1>10. \A u \in Threads : \A m : JobsOn(u, m)' = JobsOn(u, m)
  BY DEF JobsOn
<1>11. \A u \in Threads : JobsOn(u, k + 1) = 0
  <2> SUFFICES ASSUME NEW u \in Threads PROVE JobsOn(u, k + 1) = 0
    OBVIOUS
  <2>1. PICK log \in Seq(Nat), box \in Seq(Job), wait \in Seq(Nat) :
           log = ranlog[u] /\ box = mbox[u] /\ wait = harbor
    BY <1>1, Shapes
  <2>2. Sorted(log, box, wait, k)
    BY <1>2, <2>1 DEF IInv, FlowInv
  <2>3. k + 1 \in Nat /\ k + 1 > k
    BY <1>2
  <2>4. Count(log, {k + 1}) = 0 /\ Count(box, JobsFor(k + 1)) = 0
    BY <2>2, <2>3, NoneYet
  <2> QED BY <2>1, <2>4 DEF JobsOn
<1>12. StayInv'
  <2> SUFFICES ASSUME NEW m \in 1 .. MaxMsgs, stays'[m] # None
               PROVE  /\ m \in 1 .. Len(sent') /\ sent'[m].rid # None
                      /\ route[sent'[m].rid] = stays'[m]
    BY DEF StayInv
  <2>1. CASE m = k + 1
    <3>1. own # None /\ rid # None /\ own = route[rid] /\ sent'[m].rid = rid
      BY <1>3, <1>4, <1>6, <1>7, <2>1
    <3> QED BY <1>2, <1>6, <1>7, <2>1, <3>1
  <2>2. CASE m # k + 1
    <3>1. m \in 1 .. k /\ sent[m].rid # None /\ route[sent[m].rid] = stays[m] /\ stays'[m] = stays[m]
      BY <1>2, <1>7, <2>2 DEF IInv, StayInv
    <3>2. m \in 1 .. k + 1
      BY <3>1
    <3> QED BY <1>6, <3>1, <3>2
  <2> QED BY <2>1, <2>2
<1>13. StaysPut'
  <2> SUFFICES ASSUME NEW m \in 1 .. k + 1, stays'[m] # None, NEW u \in Threads
               PROVE  JobsOn(u, m) <= IF u = stays'[m] THEN 1 ELSE 0
    BY <1>6, <1>10 DEF StaysPut
  <2>1. CASE m = k + 1
    BY <1>11, <2>1
  <2>2. CASE m # k + 1
    <3>1. m \in 1 .. k /\ m \in 1 .. MaxMsgs
      <4>1. MaxMsgs \in Nat /\ k + 1 <= MaxMsgs
        BY <1>1, <1>2, Shapes
      <4>2. m \in Nat /\ 1 <= m /\ m <= k
        BY <1>2, <2>2
      <4> QED BY <1>2, <4>1, <4>2
    <3>2. stays'[m] = stays[m]
      BY <1>7, <2>2, <3>1
    <3> QED BY <1>2, <3>1, <3>2 DEF IInv, StaysPut
  <2> QED BY <2>1, <2>2
<1>14. k + 1 <= MaxMsgs /\ sent'[k + 1].name = n
  BY <1>2, <1>3, <1>6
<1> QED BY <1>2, <1>6, <1>7, <1>8, <1>9, <1>12, <1>13, <1>14

\* A send from C++ keeps the invariant.
LEMMA SendToInv ==
  ASSUME IInv, NEW t \in Threads, NEW s \in Sends, SendTo(t, s.rid, s.name)
  PROVE  IInv'
<1>1. TypeOK /\ s.rid \in Objects \cup {None} /\ s.name \in Names
  BY NamesAssumption DEF IInv
<1>2. calls \in Nat /\ calls' = calls + 1 /\ calls' \in 0 .. MaxCalls /\ calls < MaxCalls
  BY <1>1, CallType DEF SendTo, Call, done
<1>3. PICK k \in Nat : k = Len(sent)
  BY <1>1, Shapes
<1>4. k <= calls + 1 /\ k < MaxMsgs
  <2>1. k <= calls + (IF Posted THEN 1 ELSE 0)
    BY <1>3 DEF IInv, SentInv
  <2>2. MaxMsgs = MaxCalls + 1 /\ MaxCalls \in Nat
    BY NamesAssumption DEF MaxMsgs
  <2> QED BY <1>2, <1>3, <2>1, <2>2
<1>5. Post(t, s.rid, s.name) /\ UNCHANGED <<tables, route, mbox, states, start, ranlog, called>>
  BY DEF SendTo, done
<1>6. \A u \in Threads :
         /\ mbox'[u] \in Seq(Job)
         /\ Sorted(ranlog[u], mbox'[u], harbor, Len(sent))
         /\ \A m : Count(mbox'[u], JobsFor(m)) = Count(mbox[u], JobsFor(m))
  BY <1>1, <1>5 DEF IInv, FlowInv, TypeOK
<1>7. /\ harbor' \in Seq(1 .. MaxMsgs) /\ sent' \in Seq(Message)
      /\ Len(sent') = k + 1 /\ Len(sent') <= MaxMsgs
      /\ stays' \in [1 .. MaxMsgs -> Threads \cup {None}]
      /\ FlowInv' /\ StayInv' /\ StaysPut'
  BY <1>1, <1>3, <1>4, <1>5, <1>6, PostStep DEF tables
<1>8. TypeOK'
  BY <1>1, <1>2, <1>5, <1>7 DEF TypeOK, tables, states, start
<1>9. BootInv' /\ AckInv' /\ (Posted' <=> Posted)
  BY <1>5, BootFrame DEF IInv, start
<1>10. SentInv'
  <2>1. k <= calls + (IF Posted THEN 1 ELSE 0)
    BY <1>3 DEF IInv, SentInv
  <2>2. k + 1 <= (calls + 1) + (IF Posted THEN 1 ELSE 0)
    BY <1>2, <1>3, <2>1
  <2> QED BY <1>2, <1>7, <1>9, <2>2 DEF SentInv
<1> QED BY <1>7, <1>8, <1>9, <1>10 DEF IInv

\* The jobs of a message: at most as many on a thread as it has handlers, and one for
\* the thread of an object.
LEMMA DoSendInv ==
  ASSUME IInv, DoSend
  PROVE  IInv'
<1>1. TypeOK
  BY DEF IInv
<1>2. PICK n \in Nat : n = Len(sent)
  BY <1>1, NamesAssumption, Shapes
<1>3. PICK wait \in Seq(Nat) : wait = harbor /\ wait # <<>>
  BY <1>1, NamesAssumption, Shapes DEF DoSend, done
<1>4. PICK m \in 1 .. n : m = Head(wait) /\ m = wait[1] /\ 1 \in 1 .. Len(wait)
  <2>1. Head(wait) = wait[1] /\ 1 \in 1 .. Len(wait)
    BY <1>3
  <2>2. wait[1] \in 1 .. n
    BY <1>2, <1>3, <2>1, NamesAssumption DEF IInv, FlowInv, Sorted
  <2> QED BY <2>1, <2>2
<1>4a. MaxMsgs \in Nat /\ n <= MaxMsgs
  BY <1>1, <1>2, NamesAssumption, Shapes DEF TypeOK
<1>5. PICK id \in Ids : id = Crc[sent[m].name]
  BY <1>1, <1>2, SentType
<1> DEFINE On(t) == IF mname[id] = None THEN <<>> ELSE Targets(id, Dest(m), t)
<1>6. /\ harbor' = Tail(harbor) /\ mbox' = [t \in Threads |-> mbox[t] \o JobsOf(m, On(t))]
      /\ UNCHANGED <<tables, route, states, start, sent, stays, ranlog, called, calls>>
  BY <1>3, <1>4, <1>5 DEF DoSend, Left, done
<1>7. \A t \in Threads : On(t) \in Seq({"cpp", "lua"}) /\ Len(On(t)) \in Nat
  <2> SUFFICES ASSUME NEW t \in Threads PROVE On(t) \in Seq({"cpp", "lua"}) /\ Len(On(t)) \in Nat
    OBVIOUS
  <2>1. PICK h \in Seq({"cpp", "lua"}) : h = hands[id][t]
    BY <1>1, <1>5 DEF TypeOK
  <2>2. h # <<>> => <<Head(h)>> \in Seq({"cpp", "lua"})
    OBVIOUS
  <2>3. <<>> \in Seq({"cpp", "lua"})
    OBVIOUS
  <2>4. On(t) \in {<<>>, h, <<Head(h)>>} /\ (On(t) = <<Head(h)>> => On(t) = <<>> \/ On(t) = h \/ h # <<>>)
    BY <2>1 DEF Targets
  <2>5. On(t) \in Seq({"cpp", "lua"})
    BY <2>2, <2>3, <2>4
  <2> HIDE DEF On
  <2> QED BY <2>5, LenProperties
<1>8. stays[m] # None => \A t \in Threads : Len(On(t)) <= IF t = stays[m] THEN 1 ELSE 0
  <2> SUFFICES ASSUME stays[m] # None, NEW t \in Threads
               PROVE  Len(On(t)) <= IF t = stays[m] THEN 1 ELSE 0
    OBVIOUS
  <2>1. m \in 1 .. MaxMsgs
    BY <1>4a, <1>2, <1>4
  <2>2. sent[m].rid # None /\ route[sent[m].rid] = stays[m]
    BY <2>1 DEF IInv, StayInv
  <2>3. Dest(m) = stays[m]
    BY <2>2 DEF Dest
  <2>4. IF t = stays[m] THEN On(t) = <<>> \/ On(t) = <<Head(hands[id][t])>> ELSE On(t) = <<>>
    BY <2>3 DEF Targets
  <2> HIDE DEF On
  <2>5. Len(<<>>) = 0 /\ Len(<<Head(hands[id][t])>>) = 1
    OBVIOUS
  <2>6. CASE t = stays[m]
    <3>1. PICK k \in {0, 1} : k = Len(On(t))
      BY <2>4, <2>5, <2>6
    <3>2. k <= 1
      OBVIOUS
    <3> QED BY <2>6, <3>1, <3>2
  <2>7. CASE t # stays[m]
    BY <2>4, <2>5, <2>7
  <2> QED BY <2>6, <2>7
<1> HIDE DEF On
<1>9. \A t \in Threads :
         /\ JobsOf(m, On(t)) \in Seq(JobsFor(m)) /\ JobsOf(m, On(t)) \in Seq(Job)
         /\ Len(JobsOf(m, On(t))) = Len(On(t))
  <2> SUFFICES ASSUME NEW t \in Threads
               PROVE  /\ JobsOf(m, On(t)) \in Seq(JobsFor(m)) /\ JobsOf(m, On(t)) \in Seq(Job)
                      /\ Len(JobsOf(m, On(t))) = Len(On(t))
    OBVIOUS
  <2>1. JobsOf(m, On(t)) \in Seq(JobsFor(m)) /\ Len(JobsOf(m, On(t))) = Len(On(t))
    BY <1>7, JobsOfType
  <2>2. m \in 0 .. MaxMsgs
    BY <1>4a, <1>2, <1>4
  <2>3. JobsFor(m) \subseteq Job
    BY <2>2 DEF JobsFor, Job
  <2>4. \A T : JobsFor(m) \subseteq T => \A q : q \in Seq(JobsFor(m)) => q \in Seq(T)
    <3> SUFFICES ASSUME NEW T, JobsFor(m) \subseteq T, NEW q \in Seq(JobsFor(m)) PROVE q \in Seq(T)
      OBVIOUS
    <3>1. PICK U : U = JobsFor(m)
      OBVIOUS
    <3>2. q \in Seq(U) /\ U \subseteq T
      BY <3>1
    <3>3. Len(q) \in Nat /\ q = [i \in 1 .. Len(q) |-> q[i]] /\ \A i \in 1 .. Len(q) : q[i] \in T
      BY <3>2
    <3>4. [i \in 1 .. Len(q) |-> q[i]] \in Seq(T)
      BY <3>3
    <3> QED BY <3>3, <3>4
  <2> QED BY <2>1, <2>3, <2>4
<1>10. TypeOK'
  <2>1. mbox' \in [Threads -> Seq(Job)]
    <3> SUFFICES ASSUME NEW t \in Threads PROVE mbox[t] \o JobsOf(m, On(t)) \in Seq(Job)
      BY <1>6
    <3>1. PICK c \in Seq(Job), box \in Seq(Job) : c = JobsOf(m, On(t)) /\ box = mbox[t]
      BY <1>1, <1>9, Shapes
    <3>2. box \o c \in Seq(Job)
      OBVIOUS
    <3> QED BY <3>1, <3>2
  <2>2. harbor' \in Seq(1 .. MaxMsgs)
    BY <1>1, <1>3, <1>6 DEF TypeOK
  <2> QED BY <1>1, <1>6, <2>1, <2>2 DEF TypeOK, tables, states, start
<1>11. \A t \in Threads :
          /\ Count(mbox'[t], JobsFor(m)) = Count(mbox[t], JobsFor(m)) + Len(On(t))
          /\ \A X : X \cap JobsFor(m) = {} => Count(mbox'[t], X) = Count(mbox[t], X)
  <2> SUFFICES ASSUME NEW t \in Threads
               PROVE  /\ Count(mbox'[t], JobsFor(m)) = Count(mbox[t], JobsFor(m)) + Len(On(t))
                      /\ \A X : X \cap JobsFor(m) = {} => Count(mbox'[t], X) = Count(mbox[t], X)
    OBVIOUS
  <2>1. PICK box \in Seq(Job), c \in Seq(Job) :
           box = mbox[t] /\ c = JobsOf(m, On(t)) /\ Len(c) = Len(On(t)) /\ mbox'[t] = box \o c
    BY <1>1, <1>6, <1>9, Shapes
  <2>2. \A i \in 1 .. Len(c) : c[i] \in JobsFor(m)
    <3>1. PICK U : U = JobsFor(m)
      OBVIOUS
    <3>2. PICK q \in Seq(U) : q = c
      BY <1>9, <2>1, <3>1
    <3>3. \A i \in 1 .. Len(q) : q[i] \in U
      OBVIOUS
    <3> QED BY <3>1, <3>2, <3>3
  <2>3. Count(box \o c, JobsFor(m)) = Count(box, JobsFor(m)) + (IF TRUE THEN Len(c) ELSE 0)
    BY <2>2, CountConcat, Zenon
  <2>4. ASSUME NEW X, X \cap JobsFor(m) = {} PROVE Count(box \o c, X) = Count(box, X)
    <3>1. \A i \in 1 .. Len(c) : c[i] \in X <=> FALSE
      BY <2>2, <2>4
    <3>2. Count(box \o c, X) = Count(box, X) + (IF FALSE THEN Len(c) ELSE 0)
      BY <3>1, CountConcat, Zenon
    <3>3. PICK k \in Nat : k = Count(box, X)
      BY PlacesFinite
    <3>4. Count(box \o c, X) = k + 0
      BY <3>2, <3>3
    <3> QED BY <3>3, <3>4
  <2> QED BY <2>1, <2>3, <2>4
<1>12. FlowInv'
  <2> SUFFICES ASSUME NEW t \in Threads PROVE Sorted(ranlog[t], mbox'[t], harbor', Len(sent))
    BY <1>6 DEF FlowInv
  <2>1. PICK log \in Seq(Nat), box \in Seq(Job), k \in Seq({"cpp", "lua"}) :
           log = ranlog[t] /\ box = mbox[t] /\ k = On(t)
    BY <1>1, <1>7, Shapes
  <2>2. Sorted(log, box, wait, n)
    BY <1>2, <1>3, <2>1 DEF IInv, FlowInv
  <2>3. Sorted(log, box \o JobsOf(Head(wait), k), Tail(wait), n)
    BY <1>3, <2>2, SortedSend
  <2> QED BY <1>2, <1>3, <1>4, <1>6, <2>1, <2>3
<1>13. StayInv'
  BY <1>6 DEF IInv, StayInv
<1>14. \A t \in Threads : \A x \in Nat :
          JobsOn(t, x)' = IF x = m THEN Len(On(t)) ELSE JobsOn(t, x)
  <2> SUFFICES ASSUME NEW t \in Threads, NEW x \in Nat
               PROVE  Count(ranlog[t], {x}) + Count(mbox'[t], JobsFor(x))
                         = IF x = m THEN Len(On(t)) ELSE Count(ranlog[t], {x}) + Count(mbox[t], JobsFor(x))
    BY <1>6 DEF JobsOn
  <2>1. CASE x # m
    <3>1. JobsFor(x) \cap JobsFor(m) = {}
      BY <2>1 DEF JobsFor
    <3>2. Count(mbox'[t], JobsFor(x)) = Count(mbox[t], JobsFor(x))
      BY <1>11, <3>1
    <3> QED BY <2>1, <3>2
  <2>2. CASE x = m
    <3>1. PICK log \in Seq(Nat), box \in Seq(Job) : log = ranlog[t] /\ box = mbox[t]
      BY <1>1, Shapes
    <3>2. Sorted(log, box, wait, n)
      BY <1>2, <1>3, <3>1 DEF IInv, FlowInv
    <3>3. Count(log, {m}) = 0 /\ Count(box, JobsFor(m)) = 0
      <4>1. m \in Nat /\ \E j \in 1 .. Len(wait) : m = wait[j]
        BY <1>4
      <4> QED BY <3>2, <4>1, NoneYet, Zenon
    <3>4. Count(mbox'[t], JobsFor(m)) = 0 + Len(On(t))
      BY <1>11, <3>1, <3>3
    <3> QED BY <1>7, <2>2, <3>1, <3>3, <3>4
  <2> QED BY <2>1, <2>2
<1>15. StaysPut'
  <2> SUFFICES ASSUME NEW x \in 1 .. n, stays[x] # None, NEW t \in Threads
               PROVE  JobsOn(t, x)' <= IF t = stays[x] THEN 1 ELSE 0
    BY <1>2, <1>6 DEF StaysPut
  <2>1. CASE x = m
    BY <1>8, <1>14, <2>1
  <2>2. CASE x # m
    BY <1>2, <1>14, <2>2 DEF IInv, StaysPut
  <2> QED BY <2>1, <2>2
<1>17. UNCHANGED <<boot, acks>> /\ Pending' = Pending /\ (Posted' <=> Posted)
  BY <1>6 DEF start, Pending, Posted
<1>18. \A t \in Threads : Count(mbox'[t], {Auto1("auto")}) = Count(mbox[t], {Auto1("auto")})
  <2>1. {Auto1("auto")} \cap JobsFor(m) = {}
    BY OwnJobs
  <2> QED BY <1>11, <2>1
<1>19. Count(mbox'[Main], {Auto1("ack")}) = Count(mbox[Main], {Auto1("ack")})
  <2>1. {Auto1("ack")} \cap JobsFor(m) = {}
    BY OwnJobs
  <2> QED BY <1>11, <2>1, NamesAssumption
<1>20. \A t \in Threads :
          /\ mbox[t] # <<>> => mbox'[t] # <<>> /\ Head(mbox'[t]) = Head(mbox[t])
          /\ \A i \in 1 .. Len(mbox'[t]) :
                mbox'[t][i].kind = "msg" \/ (i \in 1 .. Len(mbox[t]) /\ mbox'[t][i] = mbox[t][i])
  <2> SUFFICES ASSUME NEW t \in Threads
               PROVE  /\ mbox[t] # <<>> => mbox'[t] # <<>> /\ Head(mbox'[t]) = Head(mbox[t])
                      /\ \A i \in 1 .. Len(mbox'[t]) :
                            mbox'[t][i].kind = "msg"
                               \/ (i \in 1 .. Len(mbox[t]) /\ mbox'[t][i] = mbox[t][i])
    OBVIOUS
  <2>1. PICK box \in Seq(Job), c \in Seq(Job), k \in Nat :
           /\ box = mbox[t] /\ c = JobsOf(m, On(t)) /\ Len(c) = k
           /\ \A i \in 1 .. k : c[i].kind = "msg"
    <3>1. PICK box \in Seq(Job), c \in Seq(Job) : box = mbox[t] /\ c = JobsOf(m, On(t))
      BY <1>1, <1>9, Shapes
    <3>2. Len(c) = Len(On(t)) /\ \A i \in 1 .. Len(On(t)) : c[i] = JobFor(m, i)
      BY <1>7, <3>1, JobsOfType
    <3>3. \A i \in 1 .. Len(c) : c[i].kind = "msg"
      <4>1. \A h : JobFor(m, h).kind = "msg"
        BY DEF JobFor
      <4> QED BY <3>2, <4>1
    <3>4. PICK k \in Nat : k = Len(c)
      BY LenProperties
    <3> QED BY <3>1, <3>3, <3>4
  <2>2. Len(c) = k
    BY <2>1
  <2>3. mbox'[t] = box \o c
    BY <1>6, <2>1
  <2>4. PICK b \in Nat : b = Len(box)
    OBVIOUS
  <2>5. /\ Len(box \o c) = b + k
        /\ \A i \in 1 .. b + k : (box \o c)[i] = IF i <= b THEN box[i] ELSE c[i - b]
    <3>1. /\ Len(box \o c) = Len(box) + Len(c)
          /\ \A i \in 1 .. Len(box) + Len(c) :
                (box \o c)[i] = IF i <= Len(box) THEN box[i] ELSE c[i - Len(box)]
      OBVIOUS
    <3> QED BY <2>2, <2>4, <3>1
  <2>6. \A i \in 1 .. b + k : ~(i <= b) => i - b \in 1 .. k /\ c[i - b].kind = "msg"
    BY <2>1, <2>2, <2>4
  <2>7. box # <<>> => box \o c # <<>> /\ Head(box \o c) = Head(box)
    <3> SUFFICES ASSUME box # <<>> PROVE box \o c # <<>> /\ Head(box \o c) = Head(box)
      OBVIOUS
    <3>1. b # 0 /\ 1 \in 1 .. b + k /\ 1 <= b
      BY <2>4
    <3> QED BY <2>4, <2>5, <3>1
  <2> QED BY <2>1, <2>3, <2>4, <2>5, <2>6, <2>7
<1>21. BootInv'
  <2>1. BootInv
    BY DEF IInv
  <2>2. \A t \in Threads : \A i \in 1 .. Len(mbox'[t]) : Plain(mbox'[t][i])
    <3> SUFFICES ASSUME NEW t \in Threads, NEW i \in 1 .. Len(mbox'[t]) PROVE Plain(mbox'[t][i])
      OBVIOUS
    <3>1. CASE mbox'[t][i].kind = "msg"
      BY <3>1 DEF Plain
    <3>2. CASE i \in 1 .. Len(mbox[t]) /\ mbox'[t][i] = mbox[t][i]
      BY <2>1, <3>2 DEF BootInv
    <3> QED BY <1>20, <3>1, <3>2
  <2>3. \A t \in Threads :
           boot'[t] = "listening" => mbox'[t] # <<>> /\ Head(mbox'[t]) = Auto1("auto")
    BY <1>17, <1>20, <2>1 DEF BootInv
  <2>4. \A t \in Threads : Count(mbox'[t], {Auto1("auto")}) = IF t \in Pending' THEN 1 ELSE 0
    BY <1>17, <1>18, <2>1 DEF BootInv
  <2> QED BY <1>17, <2>1, <2>2, <2>3, <2>4 DEF BootInv
<1>22. AckInv' /\ SentInv'
  BY <1>6, <1>17, <1>19 DEF IInv, AckInv, SentInv
<1> QED BY <1>10, <1>12, <1>13, <1>15, <1>21, <1>22 DEF IInv

\* Such is the first job of a mailbox.
LEMMA FirstJob ==
  ASSUME TypeOK, BootInv, NEW t \in Threads, mbox[t] # <<>>
  PROVE  /\ Head(mbox[t]) = mbox[t][1] /\ 1 \in 1 .. Len(mbox[t]) /\ Head(mbox[t]) \in Job
         /\ Tail(mbox[t]) \in Seq(Job)
         /\ \A kind \in {"auto", "ack"} :
               Head(mbox[t]).kind = kind <=> Head(mbox[t]) = Auto1(kind)
         /\ Head(mbox[t]).kind = "msg" => Head(mbox[t]) \in JobsFor(Head(mbox[t]).msg)
<1>1. PICK box \in Seq(Job) : box = mbox[t]
  BY Shapes
<1>2. Head(box) = box[1] /\ 1 \in 1 .. Len(box) /\ Head(box) \in Job /\ Tail(box) \in Seq(Job)
  BY <1>1
<1>3. PICK y \in Job : y = Head(box)
  BY <1>2
<1>4. Plain(y)
  BY <1>1, <1>2, <1>3 DEF BootInv
<1>5. \A kind \in {"auto", "ack"} : Auto1(kind).kind = kind
  BY OwnJobs
<1>6. \A kind \in {"auto", "ack"} : y.kind = kind <=> y = Auto1(kind)
  BY <1>4, <1>5 DEF Plain
<1>7. y.kind = "msg" => y \in JobsFor(y.msg)
  BY DEF Job, JobsFor
<1> QED BY <1>1, <1>2, <1>3, <1>6, <1>7

\* What taking the first job away does to the counts.
LEMMA TailCounts ==
  ASSUME TypeOK, BootInv, NEW t \in Threads, mbox[t] # <<>>
  PROVE  \A X : Count(Tail(mbox[t]), X)
                   = Count(mbox[t], X) - (IF Head(mbox[t]) \in X THEN 1 ELSE 0)
<1> SUFFICES ASSUME NEW X
             PROVE  Count(Tail(mbox[t]), X)
                       = Count(mbox[t], X) - (IF Head(mbox[t]) \in X THEN 1 ELSE 0)
  OBVIOUS
<1>1. PICK box \in Seq(Job) : box = mbox[t] /\ box # <<>>
  BY Shapes
<1>2. Count(Tail(box), X) = Count(box, X) - (IF box[1] \in X THEN 1 ELSE 0)
  BY <1>1, CountTail
<1>3. Head(mbox[t]) = box[1]
  BY <1>1, FirstJob
<1> QED BY <1>1, <1>2, <1>3

\* What a job behind the others does to the counts of a mailbox.
LEMMA AppendCounts ==
  ASSUME NEW box \in Seq(Job), NEW y \in Job
  PROVE  \A X : Count(Append(box, y), X) = Count(box, X) + (IF y \in X THEN 1 ELSE 0)
BY CountAppend

\* What a message that runs does to the counts of the log.
LEMMA LogCounts ==
  ASSUME NEW log \in Seq(Nat), NEW m \in Nat
  PROVE  \A x : Count(Append(log, m), {x}) = Count(log, {x}) + (IF m = x THEN 1 ELSE 0)
<1> SUFFICES ASSUME NEW x
             PROVE  Count(Append(log, m), {x}) = Count(log, {x}) + (IF m = x THEN 1 ELSE 0)
  OBVIOUS
<1>1. Count(Append(log, m), {x}) = Count(log, {x}) + (IF m \in {x} THEN 1 ELSE 0)
  BY CountAppend
<1> QED BY <1>1

\* The counts of a log and of a mailbox are numbers.
LEMMA CountTypes ==
  ASSUME TypeOK, NEW t \in Threads
  PROVE  \A X : Count(mbox[t], X) \in Nat
<1>1. PICK box \in Seq(Job) : box = mbox[t]
  BY Shapes
<1>2. \A X : Count(box, X) \in Nat
  BY PlacesFinite
<1> QED BY <1>1, <1>2

\* What a message's job calls: only a handler of Lua has callbacks.
LEMMA RunMsgCalls ==
  ASSUME TypeOK, NEW t \in Threads, RunMsg(t)
  PROVE  \E cb \in SUBSET Nat :
            /\ called' = [called EXCEPT ![t] = Append(@, [hand |-> Head(mbox[t]).hand, cbs |-> cb])]
            /\ cb # {} => hands[Crc[sent[Head(mbox[t]).msg].name]][t][Head(mbox[t]).hand] = "lua"
<1> DEFINE job == Head(mbox[t])
           id  == Crc[sent[job.msg].name]
           lua == hands[id][t][job.hand] = "lua"
<1>1. PICK cb \in IF lua THEN OnBuf(t, id) ELSE {{}} :
         called' = [called EXCEPT ![t] = Append(@, [hand |-> job.hand, cbs |-> cb])]
  BY DEF RunMsg
<1>2. \A n : {1 .. k : k \in 1 .. n} \subseteq SUBSET Nat
  OBVIOUS
<1>3. OnBuf(t, id) \subseteq SUBSET Nat
  BY <1>2 DEF OnBuf
<1>4. cb \in SUBSET Nat /\ (cb # {} => lua)
  BY <1>1, <1>3
<1> QED BY <1>1, <1>4

\* A message's job moves from the mailbox to the log.
LEMMA RunMsgInv ==
  ASSUME IInv, NEW t \in Threads, RunMsg(t)
  PROVE  IInv'
<1>1. TypeOK /\ BootInv
  BY DEF IInv
<1>2. /\ mbox[t] # <<>> /\ Head(mbox[t]).kind = "msg" /\ boot[t] # "listening"
      /\ mbox' = [mbox EXCEPT ![t] = Tail(mbox[t])]
      /\ ranlog' = [ranlog EXCEPT ![t] = Append(ranlog[t], Head(mbox[t]).msg)]
      /\ UNCHANGED <<tables, route, harbor, states, start, sent, stays, calls>>
  BY DEF RunMsg, Executes, done
<1>3. PICK n \in Nat, log \in Seq(Nat), box \in Seq(Job), wait \in Seq(Nat) :
         n = Len(sent) /\ log = ranlog[t] /\ box = mbox[t] /\ wait = harbor
  BY <1>1, Shapes
<1>4. Sorted(log, box, wait, n)
  BY <1>3 DEF IInv, FlowInv
<1>5. PICK m \in 1 .. n : m = Head(box).msg
  <2>1. Head(box) = box[1] /\ 1 \in 1 .. Len(box)
    BY <1>1, <1>2, <1>3, FirstJob
  <2>2. box[1].msg \in 1 .. n
    BY <1>2, <1>3, <1>4, <2>1 DEF Sorted
  <2> QED BY <2>1, <2>2
<1>6. Head(box) \in JobsFor(m)
  BY <1>1, <1>2, <1>3, <1>5, FirstJob
<1>7. /\ mbox'[t] = Tail(box) /\ ranlog'[t] = Append(log, m)
      /\ \A u \in Threads \ {t} : mbox'[u] = mbox[u] /\ ranlog'[u] = ranlog[u]
  BY <1>1, <1>2, <1>3, <1>5 DEF TypeOK
<1>8. TypeOK'
  <2>1. mbox' \in [Threads -> Seq(Job)]
    BY <1>1, <1>2, FirstJob DEF TypeOK
  <2>2. Append(ranlog[t], m) \in Seq(1 .. MaxMsgs)
    <3>1. MaxMsgs \in Nat /\ n <= MaxMsgs
      BY <1>1, <1>3, Shapes DEF TypeOK
    <3>2. m \in 1 .. MaxMsgs
      BY <1>3, <3>1
    <3> QED BY <1>1, <3>2 DEF TypeOK
  <2>3. ranlog' \in [Threads -> Seq(1 .. MaxMsgs)]
    BY <1>1, <1>2, <1>3, <1>5, <2>2 DEF TypeOK
  <2>4. called' \in [Threads -> Seq([hand : Nat, cbs : SUBSET Nat])]
    <3>1. PICK cb \in SUBSET Nat :
             called' = [called EXCEPT ![t] = Append(@, [hand |-> Head(mbox[t]).hand, cbs |-> cb])]
      BY <1>1, RunMsgCalls
    <3>2. Head(mbox[t]).hand \in Nat
      BY <1>3, <1>6 DEF JobsFor
    <3>3. PICK new : new = [hand |-> Head(mbox[t]).hand, cbs |-> cb]
      OBVIOUS
    <3>4. PICK T : T = [hand : Nat, cbs : SUBSET Nat]
      OBVIOUS
    <3>5. new \in T
      BY <3>2, <3>3, <3>4
    <3>6. called \in [Threads -> Seq(T)]
      BY <1>1, <3>4 DEF TypeOK
    <3>7. Append(called[t], new) \in Seq(T)
      BY <3>5, <3>6
    <3>8. [called EXCEPT ![t] = Append(called[t], new)] \in [Threads -> Seq(T)]
      BY <3>6, <3>7
    <3> QED BY <3>1, <3>3, <3>4, <3>8
  <2> QED BY <1>1, <1>2, <2>1, <2>3, <2>4 DEF TypeOK, tables, states, start
<1>9. FlowInv'
  <2> SUFFICES ASSUME NEW u \in Threads PROVE Sorted(ranlog'[u], mbox'[u], harbor, Len(sent))
    BY <1>2 DEF FlowInv
  <2>1. CASE u = t
    <3>1. Sorted(Append(log, Head(box).msg), Tail(box), wait, n)
      BY <1>2, <1>3, <1>4, SortedRun
    <3> QED BY <1>3, <1>5, <1>7, <2>1, <3>1
  <2>2. CASE u # t
    BY <1>7, <2>2 DEF IInv, FlowInv
  <2> QED BY <2>1, <2>2
<1>10. \A X : Count(mbox'[t], X) = Count(mbox[t], X) - (IF Head(box) \in X THEN 1 ELSE 0)
  BY <1>1, <1>2, <1>3, <1>7, TailCounts
<1>11. \A u \in Threads : \A x \in Nat : JobsOn(u, x)' = JobsOn(u, x)
  <2> SUFFICES ASSUME NEW u \in Threads, NEW x \in Nat
               PROVE  Count(ranlog'[u], {x}) + Count(mbox'[u], JobsFor(x))
                         = Count(ranlog[u], {x}) + Count(mbox[u], JobsFor(x))
    BY DEF JobsOn
  <2>1. CASE u = t
    <3>1. Count(Append(log, m), {x}) = Count(log, {x}) + (IF m = x THEN 1 ELSE 0)
      <4>1. m \in Nat
        OBVIOUS
      <4> QED BY <4>1, LogCounts
    <3>2. Head(box) \in JobsFor(x) <=> m = x
      BY <1>6 DEF JobsFor
    <3>3. PICK a \in Nat, b \in Nat : a = Count(log, {x}) /\ b = Count(mbox[t], JobsFor(x))
      BY <1>1, <1>3, JobsOnType
    <3>4. Count(mbox'[t], JobsFor(x)) = b - (IF m = x THEN 1 ELSE 0)
      BY <1>10, <3>2, <3>3
    <3>5. Count(ranlog'[t], {x}) = a + (IF m = x THEN 1 ELSE 0)
      BY <1>7, <3>1, <3>3
    <3>6. Count(ranlog[t], {x}) = a
      BY <1>3, <3>3
    <3>7. (a + (IF m = x THEN 1 ELSE 0)) + (b - (IF m = x THEN 1 ELSE 0)) = a + b
      BY <3>3
    <3> QED BY <2>1, <3>3, <3>4, <3>5, <3>6, <3>7
  <2>2. CASE u # t
    BY <1>7, <2>2
  <2> QED BY <2>1, <2>2
<1>12. StayInv'
  BY <1>2 DEF IInv, StayInv
<1>13. StaysPut'
  BY <1>2, <1>11 DEF IInv, StaysPut
<1>15. UNCHANGED <<boot, acks>> /\ Pending' = Pending /\ (Posted' <=> Posted)
  BY <1>2 DEF start, Pending, Posted
<1>16. \A u \in Threads : /\ Count(mbox'[u], {Auto1("auto")}) = Count(mbox[u], {Auto1("auto")})
                          /\ Count(mbox'[u], {Auto1("ack")}) = Count(mbox[u], {Auto1("ack")})
  <2> SUFFICES ASSUME NEW u \in Threads
               PROVE  /\ Count(mbox'[u], {Auto1("auto")}) = Count(mbox[u], {Auto1("auto")})
                      /\ Count(mbox'[u], {Auto1("ack")}) = Count(mbox[u], {Auto1("ack")})
    OBVIOUS
  <2>1. CASE u = t
    <3>1. Head(box) \notin {Auto1("auto")} /\ Head(box) \notin {Auto1("ack")}
      BY <1>6, OwnJobs
    <3>2. /\ Count(mbox'[t], {Auto1("auto")}) = Count(mbox[t], {Auto1("auto")}) - 0
          /\ Count(mbox'[t], {Auto1("ack")}) = Count(mbox[t], {Auto1("ack")}) - 0
      BY <1>10, <3>1
    <3>3. PICK a \in Nat, b \in Nat :
             a = Count(mbox[t], {Auto1("auto")}) /\ b = Count(mbox[t], {Auto1("ack")})
      BY <1>1, CountTypes
    <3> QED BY <2>1, <3>2, <3>3
  <2>2. CASE u # t
    BY <1>7, <2>2
  <2> QED BY <2>1, <2>2
<1>17. \A u \in Threads : \A i \in 1 .. Len(mbox'[u]) :
          Plain(mbox'[u][i])
  <2> SUFFICES ASSUME NEW u \in Threads, NEW i \in 1 .. Len(mbox'[u]) PROVE Plain(mbox'[u][i])
    OBVIOUS
  <2>1. CASE u = t
    <3>1. i + 1 \in 1 .. Len(box) /\ mbox'[u][i] = box[i + 1]
      <4>1. PICK k \in Nat : k = Len(box) /\ k # 0
        BY <1>2, <1>3
      <4>2. Len(Tail(box)) = k - 1 /\ \A j \in 1 .. k - 1 : Tail(box)[j] = box[j + 1]
        BY <4>1
      <4>3. i \in 1 .. k - 1 /\ mbox'[u] = Tail(box)
        BY <1>7, <2>1, <4>2
      <4>4. i + 1 \in 1 .. k
        BY <4>1, <4>3
      <4> QED BY <4>1, <4>2, <4>3, <4>4
    <3> QED BY <1>1, <1>3, <2>1, <3>1 DEF BootInv
  <2>2. CASE u # t
    <3>1. mbox'[u] = mbox[u]
      BY <1>7, <2>2
    <3> QED BY <1>1, <3>1 DEF BootInv
  <2> QED BY <2>1, <2>2
<1>18. BootInv'
  <2>1. \A u \in Threads : boot[u] = "listening" => mbox'[u] # <<>> /\ Head(mbox'[u]) = Auto1("auto")
    BY <1>1, <1>2, <1>7 DEF BootInv
  <2> QED BY <1>1, <1>15, <1>16, <1>17, <2>1 DEF BootInv
<1>19. AckInv' /\ SentInv'
  BY <1>2, <1>15, <1>16, NamesAssumption DEF IInv, AckInv, SentInv
<1> QED BY <1>8, <1>9, <1>12, <1>13, <1>18, <1>19 DEF IInv

-----------------------------------------------------------------------------
(* The start of a process.                                                 *)

\* A job that is no message's is put behind the others.
LEMMA Behind ==
  ASSUME NEW n \in Nat, NEW log \in Seq(Nat), NEW box \in Seq(Job), NEW wait \in Seq(Nat),
         Sorted(log, box, wait, n), NEW kind \in {"auto", "ack"},
         \A i \in 1 .. Len(box) : Plain(box[i])
  PROVE  /\ Append(box, Auto1(kind)) \in Seq(Job)
         /\ Sorted(log, Append(box, Auto1(kind)), wait, n)
         /\ \A m : Count(Append(box, Auto1(kind)), JobsFor(m)) = Count(box, JobsFor(m))
         /\ \A other \in {"auto", "ack"} :
               Count(Append(box, Auto1(kind)), {Auto1(other)})
                  = Count(box, {Auto1(other)}) + (IF kind = other THEN 1 ELSE 0)
         /\ box # <<>> => Head(Append(box, Auto1(kind))) = Head(box)
         /\ Append(box, Auto1(kind)) # <<>>
         /\ \A i \in 1 .. Len(Append(box, Auto1(kind))) :
               Plain(Append(box, Auto1(kind))[i])
<1>1. PICK y \in Job : y = Auto1(kind) /\ y.kind # "msg" /\ Plain(y) /\ \A m : y \notin JobsFor(m)
  BY OwnJobs
<1>2. PICK new \in Seq(Job) : new = Append(box, y)
  <2>1. Append(box, y) \in Seq(Job)
    BY <1>1
  <2> QED BY <2>1
<1>3. PICK k \in Nat : k = Len(box)
  <2>1. Len(box) \in Nat
    BY LenProperties
  <2> QED BY <2>1, Zenon
<1>4. /\ Len(new) = k + 1 /\ new[k + 1] = y
      /\ \A i \in 1 .. k : new[i] = box[i]
  BY <1>2, <1>3
<1>5. Sorted(log, new, wait, n)
  BY <1>1, <1>2, SortedOther
<1>6. \A X : Count(new, X) = Count(box, X) + (IF y \in X THEN 1 ELSE 0)
  BY <1>2, AppendCounts
<1>7. \A x : Count(box, x) \in Nat
  BY PlacesFinite
<1>8. \A m : Count(new, JobsFor(m)) = Count(box, JobsFor(m))
  <2> SUFFICES ASSUME NEW m PROVE Count(new, JobsFor(m)) = Count(box, JobsFor(m))
    OBVIOUS
  <2>1. Count(new, JobsFor(m)) = Count(box, JobsFor(m)) + 0
    BY <1>1, <1>6
  <2> QED BY <1>7, <2>1
<1>9. \A other \in {"auto", "ack"} :
         Count(new, {Auto1(other)}) = Count(box, {Auto1(other)}) + (IF kind = other THEN 1 ELSE 0)
  <2> SUFFICES ASSUME NEW other \in {"auto", "ack"}
               PROVE  Count(new, {Auto1(other)})
                         = Count(box, {Auto1(other)}) + (IF kind = other THEN 1 ELSE 0)
    OBVIOUS
  <2>1. y \in {Auto1(other)} <=> kind = other
    BY <1>1, OwnJobs
  <2> QED BY <1>6, <2>1
<1>10. box # <<>> => Head(new) = Head(box)
  <2> SUFFICES ASSUME box # <<>> PROVE Head(new) = Head(box)
    OBVIOUS
  <2>1. 1 \in 1 .. k /\ new # <<>>
    BY <1>3, <1>4
  <2> QED BY <1>4, <2>1
<1>11. new # <<>>
  BY <1>4
<1>12. \A i \in 1 .. Len(new) : Plain(new[i])
  <2> SUFFICES ASSUME NEW i \in 1 .. k + 1 PROVE Plain(new[i])
    BY <1>4
  <2>1. CASE i \in 1 .. k
    BY <1>3, <1>4, <2>1
  <2>2. CASE i = k + 1
    BY <1>1, <1>4, <2>2
  <2> QED BY <2>1, <2>2
<1> QED BY <1>1, <1>2, <1>5, <1>8, <1>9, <1>10, <1>11, <1>12

\* The same of a mailbox.
LEMMA BoxBehind ==
  ASSUME IInv, NEW t \in Threads, NEW kind \in {"auto", "ack"}
  PROVE  /\ Append(mbox[t], Auto1(kind)) \in Seq(Job)
         /\ Sorted(ranlog[t], Append(mbox[t], Auto1(kind)), harbor, Len(sent))
         /\ \A m : Count(Append(mbox[t], Auto1(kind)), JobsFor(m)) = Count(mbox[t], JobsFor(m))
         /\ \A other \in {"auto", "ack"} :
               Count(Append(mbox[t], Auto1(kind)), {Auto1(other)})
                  = Count(mbox[t], {Auto1(other)}) + (IF kind = other THEN 1 ELSE 0)
         /\ mbox[t] # <<>> => Head(Append(mbox[t], Auto1(kind))) = Head(mbox[t])
         /\ Append(mbox[t], Auto1(kind)) # <<>>
         /\ \A i \in 1 .. Len(Append(mbox[t], Auto1(kind))) :
               Plain(Append(mbox[t], Auto1(kind))[i])
<1>1. PICK n \in Nat, log \in Seq(Nat), box \in Seq(Job), wait \in Seq(Nat) :
         n = Len(sent) /\ log = ranlog[t] /\ box = mbox[t] /\ wait = harbor
  BY Shapes DEF IInv
<1>2. Sorted(log, box, wait, n)
  BY <1>1 DEF IInv, FlowInv
<1>3. \A i \in 1 .. Len(box) : Plain(box[i])
  BY <1>1 DEF IInv, BootInv
<1>4. /\ Append(box, Auto1(kind)) \in Seq(Job)
      /\ Sorted(log, Append(box, Auto1(kind)), wait, n)
      /\ \A m : Count(Append(box, Auto1(kind)), JobsFor(m)) = Count(box, JobsFor(m))
      /\ \A other \in {"auto", "ack"} :
            Count(Append(box, Auto1(kind)), {Auto1(other)})
               = Count(box, {Auto1(other)}) + (IF kind = other THEN 1 ELSE 0)
      /\ box # <<>> => Head(Append(box, Auto1(kind))) = Head(box)
      /\ Append(box, Auto1(kind)) # <<>>
      /\ \A i \in 1 .. Len(Append(box, Auto1(kind))) :
            Plain(Append(box, Auto1(kind))[i])
  <2>1. Append(box, Auto1(kind)) \in Seq(Job) /\ Sorted(log, Append(box, Auto1(kind)), wait, n)
    BY <1>2, <1>3, Behind
  <2>2. \A m : Count(Append(box, Auto1(kind)), JobsFor(m)) = Count(box, JobsFor(m))
    BY <1>2, <1>3, Behind
  <2>3. \A other \in {"auto", "ack"} :
           Count(Append(box, Auto1(kind)), {Auto1(other)})
              = Count(box, {Auto1(other)}) + (IF kind = other THEN 1 ELSE 0)
    BY <1>2, <1>3, Behind, ZenonT(60)
  <2>4. /\ box # <<>> => Head(Append(box, Auto1(kind))) = Head(box)
        /\ Append(box, Auto1(kind)) # <<>>
    BY <1>2, <1>3, Behind
  <2>5. \A i \in 1 .. Len(Append(box, Auto1(kind))) : Plain(Append(box, Auto1(kind))[i])
    BY <1>2, <1>3, Behind
  <2> QED BY <2>1, <2>2, <2>3, <2>4, <2>5
<1> QED BY <1>1, <1>4

\* Every thread gets the job auto_listen, and job_count_ counts them.
LEMMA AppRunInv ==
  ASSUME IInv, AppRun
  PROVE  IInv'
<1>1. TypeOK /\ BootInv
  BY DEF IInv
<1>2. /\ boot[Main] = "before" /\ boot' = [t \in Threads |-> "pushed"]
      /\ mbox' = [t \in Threads |-> Append(mbox[t], Auto1("auto"))]
      /\ acks' = Cardinality(Threads)
      /\ UNCHANGED <<tables, route, harbor, states, todo, sent, stays, ranlog, called, calls>>
  BY DEF AppRun, done
<1>3. \A t \in Threads :
         /\ mbox'[t] \in Seq(Job)
         /\ Sorted(ranlog[t], mbox'[t], harbor, Len(sent))
         /\ \A m : Count(mbox'[t], JobsFor(m)) = Count(mbox[t], JobsFor(m))
         /\ Count(mbox'[t], {Auto1("auto")}) = Count(mbox[t], {Auto1("auto")}) + 1
         /\ Count(mbox'[t], {Auto1("ack")}) = Count(mbox[t], {Auto1("ack")}) + 0
         /\ \A i \in 1 .. Len(mbox'[t]) : Plain(mbox'[t][i])
  <2> SUFFICES ASSUME NEW t \in Threads
               PROVE  /\ mbox'[t] \in Seq(Job)
                      /\ Sorted(ranlog[t], mbox'[t], harbor, Len(sent))
                      /\ \A m : Count(mbox'[t], JobsFor(m)) = Count(mbox[t], JobsFor(m))
                      /\ Count(mbox'[t], {Auto1("auto")}) = Count(mbox[t], {Auto1("auto")}) + 1
                      /\ Count(mbox'[t], {Auto1("ack")}) = Count(mbox[t], {Auto1("ack")}) + 0
                      /\ \A i \in 1 .. Len(mbox'[t]) : Plain(mbox'[t][i])
    OBVIOUS
  <2>1. mbox'[t] = Append(mbox[t], Auto1("auto"))
    BY <1>2
  <2> QED BY <2>1, BoxBehind
<1>3a. \A t \in Threads :
          /\ Count(mbox'[t], {Auto1("auto")}) = Count(mbox[t], {Auto1("auto")}) + 1
          /\ Count(mbox'[t], {Auto1("ack")}) = Count(mbox[t], {Auto1("ack")}) + 0
  BY <1>3, Zenon
<1>4. Cardinality(Threads) \in Nat /\ Cardinality(Threads) # 0
  BY NamesAssumption, PendingFinite, FS_EmptySet
<1>5. TypeOK'
  <2>1. mbox' \in [Threads -> Seq(Job)]
    BY <1>2, <1>3
  <2>2. acks' \in 0 .. Cardinality(Threads)
    BY <1>2, <1>4
  <2> QED BY <1>1, <1>2, <2>1, <2>2 DEF TypeOK, tables, states
<1>6. FlowInv' /\ StayInv' /\ StaysPut'
  BY <1>2, <1>3, MailStep DEF IInv, tables
<1>7. Pending' = Threads /\ Pending = {} /\ acks = 0
  BY <1>1, <1>2 DEF Pending, BootInv
<1>8. BootInv'
  <2>1. \A t \in Threads : Count(mbox[t], {Auto1("auto")}) = 0
    BY <1>1, <1>7 DEF BootInv
  <2>2. \A t \in Threads : boot'[t] = "pushed"
    BY <1>2
  <2>3. \A t \in Threads : \A i \in 1 .. Len(mbox'[t]) : Plain(mbox'[t][i])
    BY <1>3
  <2>4. \A t \in Threads : Count(mbox'[t], {Auto1("auto")}) = 1
    BY <1>3a, <2>1
  <2> QED BY <1>7, <2>2, <2>3, <2>4, NamesAssumption DEF BootInv
<1>9. AckInv'
  <2>1. Count(mbox[Main], {Auto1("ack")}) = 0
    <3>1. acks = 0 + Count(mbox[Main], {Auto1("ack")})
      BY <1>7, FS_EmptySet DEF IInv, AckInv
    <3>2. Count(mbox[Main], {Auto1("ack")}) \in Nat
      BY <1>1, CountTypes, NamesAssumption
    <3> QED BY <1>7, <3>1, <3>2
  <2>2. Count(mbox'[Main], {Auto1("ack")}) = 0
    <3>1. Main \in Threads
      BY NamesAssumption
    <3> QED BY <1>3a, <2>1, <3>1
  <2> QED BY <1>2, <1>4, <1>7, <2>2 DEF AckInv
<1>10. SentInv'
  <2>1. ~Posted /\ ~Posted'
    BY <1>2, <1>4 DEF Posted
  <2> QED BY <1>2, <2>1 DEF IInv, SentInv
<1> QED BY <1>5, <1>6, <1>8, <1>9, <1>10 DEF IInv

\* The job auto_listen begins and stays first in its mailbox.
LEMMA RunAutoInv ==
  ASSUME IInv, NEW t \in Threads, RunAuto(t)
  PROVE  IInv'
<1>1. TypeOK /\ BootInv
  BY DEF IInv
<1>2. /\ boot[t] # "listening" /\ mbox[t] # <<>> /\ Head(mbox[t]).kind = "auto"
      /\ boot' = [boot EXCEPT ![t] = "listening"]
      /\ todo' = [todo EXCEPT ![t] = Finds[t]]
      /\ UNCHANGED <<tables, route, harbor, mbox, states, acks, sent, stays, ranlog, called, calls>>
  BY DEF RunAuto, Executes, done
<1>3. Head(mbox[t]) = Auto1("auto")
  BY <1>1, <1>2, FirstJob
<1>4. boot[t] = "pushed"
  <2>1. Count(mbox[t], {Auto1("auto")}) >= 1
    <3>1. PICK box \in Seq(Job) : box = mbox[t] /\ 1 \in 1 .. Len(box) /\ box[1] = Auto1("auto")
      BY <1>1, <1>2, <1>3, Shapes, FirstJob
    <3>2. Count(box, {box[1]}) >= 1
      BY <3>1, CountThere
    <3> QED BY <3>1, <3>2
  <2>2. t \in Pending
    BY <1>1, <2>1 DEF BootInv
  <2> QED BY <1>2, <2>2 DEF Pending
<1>5. TypeOK'
  <2>1. todo' \in [Threads -> [Names -> Nat]]
    BY <1>1, <1>2, NamesAssumption DEF TypeOK
  <2> QED BY <1>1, <1>2, <2>1 DEF TypeOK, tables, states
<1>6. FlowInv' /\ StayInv'
  BY <1>2 DEF IInv, FlowInv, StayInv
<1>7. \A u \in Threads : \A m : JobsOn(u, m)' = JobsOn(u, m)
  BY <1>2 DEF JobsOn
<1>8. StaysPut'
  BY <1>2, <1>7 DEF IInv, StaysPut, tables
<1>9. /\ Pending' = Pending
      /\ boot'[Main] = "before" <=> boot[Main] = "before"
      /\ \A u \in Threads : boot'[u] = "before" <=> boot[u] = "before"
      /\ \A u \in Threads \ {t} : boot'[u] = boot[u]
  BY <1>1, <1>2, <1>4, NamesAssumption DEF Pending, TypeOK
<1>10. BootInv'
  BY <1>1, <1>2, <1>3, <1>9 DEF BootInv
<1>11. AckInv' /\ SentInv'
  BY <1>2, <1>9 DEF IInv, AckInv, SentInv, Posted
<1> QED BY <1>5, <1>6, <1>8, <1>10, <1>11 DEF IInv

\* The first job of a mailbox, if it is no message's, leaves it.
LEMMA BoxTail ==
  ASSUME IInv, NEW t \in Threads, NEW kind \in {"auto", "ack"},
         mbox[t] # <<>>, Head(mbox[t]) = Auto1(kind)
  PROVE  /\ Tail(mbox[t]) \in Seq(Job)
         /\ Sorted(ranlog[t], Tail(mbox[t]), harbor, Len(sent))
         /\ \A m : Count(Tail(mbox[t]), JobsFor(m)) = Count(mbox[t], JobsFor(m))
         /\ \A other \in {"auto", "ack"} :
               Count(Tail(mbox[t]), {Auto1(other)})
                  = Count(mbox[t], {Auto1(other)}) - (IF kind = other THEN 1 ELSE 0)
         /\ \A i \in 1 .. Len(Tail(mbox[t])) :
               Plain(Tail(mbox[t])[i])
<1>1. TypeOK /\ BootInv
  BY DEF IInv
<1>2. PICK box \in Seq(Job) : box = mbox[t] /\ box # <<>>
  BY <1>1, Shapes
<1>3. Tail(box) \in Seq(Job)
  BY <1>2
<1>4. Sorted(ranlog[t], Tail(box), harbor, Len(sent))
  <2>1. Sorted(ranlog[t], box, harbor, Len(sent))
    BY <1>2 DEF IInv, FlowInv
  <2> QED BY <1>2, <2>1, SortedTail
<1>5. \A X : /\ Count(Tail(box), X) = Count(box, X) - (IF Auto1(kind) \in X THEN 1 ELSE 0)
             /\ Count(box, X) \in Nat
  BY <1>1, <1>2, TailCounts, CountTypes
<1>6. \A m : Count(Tail(box), JobsFor(m)) = Count(box, JobsFor(m))
  <2> SUFFICES ASSUME NEW m PROVE Count(Tail(box), JobsFor(m)) = Count(box, JobsFor(m))
    OBVIOUS
  <2>1. Auto1(kind) \notin JobsFor(m)
    BY OwnJobs
  <2>2. PICK k \in Nat : k = Count(box, JobsFor(m))
    BY <1>5
  <2>3. Count(Tail(box), JobsFor(m)) = k - 0
    BY <1>5, <2>1, <2>2
  <2> QED BY <2>2, <2>3
<1>7. \A other \in {"auto", "ack"} :
         Count(Tail(box), {Auto1(other)}) = Count(box, {Auto1(other)}) - (IF kind = other THEN 1 ELSE 0)
  <2> SUFFICES ASSUME NEW other \in {"auto", "ack"}
               PROVE  Count(Tail(box), {Auto1(other)})
                         = Count(box, {Auto1(other)}) - (IF kind = other THEN 1 ELSE 0)
    OBVIOUS
  <2>1. Auto1(kind) \in {Auto1(other)} <=> kind = other
    BY OwnJobs
  <2> QED BY <1>5, <2>1
<1>8. \A i \in 1 .. Len(Tail(box)) : Plain(Tail(box)[i])
  <2>1. PICK k \in Nat : k = Len(box) /\ k # 0
    BY <1>2
  <2>2. Len(Tail(box)) = k - 1 /\ \A i \in 1 .. k - 1 : Tail(box)[i] = box[i + 1]
    BY <2>1
  <2>3. \A i \in 1 .. k - 1 : i + 1 \in 1 .. k
    BY <2>1
  <2>4. \A i \in 1 .. k : Plain(box[i])
    BY <1>1, <1>2, <2>1 DEF BootInv
  <2> QED BY <2>2, <2>3, <2>4
<1> QED BY <1>2, <1>3, <1>4, <1>6, <1>7, <1>8

\* The mailbox of each thread when the auto_listen of thread t has ended.
LEMMA EndedBox ==
  ASSUME IInv, NEW t \in Threads, AutoEnd(t), NEW u \in Threads
  PROVE  /\ mbox'[u] \in Seq(Job)
         /\ Sorted(ranlog[u], mbox'[u], harbor, Len(sent))
         /\ \A m : Count(mbox'[u], JobsFor(m)) = Count(mbox[u], JobsFor(m))
         /\ Count(mbox'[u], {Auto1("auto")})
               = Count(mbox[u], {Auto1("auto")}) - (IF u = t THEN 1 ELSE 0)
         /\ Count(mbox'[u], {Auto1("ack")})
               = Count(mbox[u], {Auto1("ack")}) + (IF u = Main THEN 1 ELSE 0)
         /\ u # t /\ mbox[u] # <<>> => mbox'[u] # <<>> /\ Head(mbox'[u]) = Head(mbox[u])
         /\ \A i \in 1 .. Len(mbox'[u]) : Plain(mbox'[u][i])
<1>1. TypeOK /\ BootInv /\ boot[t] = "listening"
  BY DEF IInv, AutoEnd, done
<1>2. mbox[t] # <<>> /\ Head(mbox[t]) = Auto1("auto")
  BY <1>1 DEF BootInv
<1>3. PICK rest : rest = IF u = t THEN Tail(mbox[u]) ELSE mbox[u]
  OBVIOUS
<1>4. mbox'[u] = IF u = Main THEN Append(rest, Auto1("ack")) ELSE rest
  BY <1>3 DEF AutoEnd, done
<1>5. \A x : Count(mbox[u], x) \in Nat
  BY <1>1, CountTypes
<1>6. /\ rest \in Seq(Job)
      /\ Sorted(ranlog[u], rest, harbor, Len(sent))
      /\ \A m : Count(rest, JobsFor(m)) = Count(mbox[u], JobsFor(m))
      /\ Count(rest, {Auto1("auto")}) = Count(mbox[u], {Auto1("auto")}) - (IF u = t THEN 1 ELSE 0)
      /\ Count(rest, {Auto1("ack")}) = Count(mbox[u], {Auto1("ack")})
      /\ \A i \in 1 .. Len(rest) : Plain(rest[i])
  <2>1. CASE u = t
    <3>1. rest = Tail(mbox[t])
      BY <1>3, <2>1
    <3>2. /\ Tail(mbox[t]) \in Seq(Job)
          /\ Sorted(ranlog[t], Tail(mbox[t]), harbor, Len(sent))
          /\ \A m : Count(Tail(mbox[t]), JobsFor(m)) = Count(mbox[t], JobsFor(m))
          /\ \A other \in {"auto", "ack"} :
                Count(Tail(mbox[t]), {Auto1(other)})
                   = Count(mbox[t], {Auto1(other)}) - (IF "auto" = other THEN 1 ELSE 0)
          /\ \A i \in 1 .. Len(Tail(mbox[t])) :
                Plain(Tail(mbox[t])[i])
      BY <1>2, BoxTail
    <3>3. Count(Tail(mbox[t]), {Auto1("auto")}) = Count(mbox[t], {Auto1("auto")}) - 1
      BY <3>2
    <3>4. Count(Tail(mbox[t]), {Auto1("ack")}) = Count(mbox[t], {Auto1("ack")}) - 0
      BY <3>2
    <3>5. PICK k \in Nat : k = Count(mbox[t], {Auto1("ack")})
      BY <1>5, <2>1
    <3>6. Count(Tail(mbox[t]), {Auto1("ack")}) = k
      BY <3>4, <3>5
    <3> QED BY <2>1, <3>1, <3>2, <3>3, <3>5, <3>6
  <2>2. CASE u # t
    <3>1. rest = mbox[u]
      BY <1>3, <2>2
    <3>2. PICK k \in Nat : k = Count(mbox[u], {Auto1("auto")})
      BY <1>5
    <3>3. k - 0 = k
      BY <3>2
    <3> QED BY <1>1, <2>2, <3>1, <3>2, <3>3 DEF IInv, TypeOK, FlowInv, BootInv
  <2> QED BY <2>1, <2>2
<1>7. u # t /\ mbox[u] # <<>> => rest # <<>> /\ Head(rest) = Head(mbox[u])
  BY <1>3
<1>8. CASE u # Main
  <2>1. mbox'[u] = rest
    BY <1>4, <1>8
  <2>2. PICK k \in Nat : k = Count(mbox[u], {Auto1("ack")})
    BY <1>5
  <2>3. k = k + 0
    BY <2>2
  <2> QED BY <1>6, <1>7, <1>8, <2>1, <2>2, <2>3
<1>9. CASE u = Main
  <2>1. PICK n \in Nat, log \in Seq(Nat), box \in Seq(Job), wait \in Seq(Nat) :
           n = Len(sent) /\ log = ranlog[u] /\ box = rest /\ wait = harbor
    BY <1>1, <1>6, Shapes
  <2>2. Sorted(log, box, wait, n) /\ \A i \in 1 .. Len(box) : Plain(box[i])
    BY <1>6, <2>1
  <2>3. PICK new : new = Append(box, Auto1("ack"))
    OBVIOUS
  <2>4. /\ new \in Seq(Job)
        /\ Sorted(log, new, wait, n)
        /\ \A m : Count(new, JobsFor(m)) = Count(box, JobsFor(m))
        /\ \A other \in {"auto", "ack"} :
              Count(new, {Auto1(other)}) = Count(box, {Auto1(other)}) + (IF "ack" = other THEN 1 ELSE 0)
        /\ box # <<>> => Head(new) = Head(box)
        /\ new # <<>>
        /\ \A i \in 1 .. Len(new) : Plain(new[i])
    BY <2>2, <2>3, Behind
  <2>5. mbox'[u] = new
    BY <1>4, <1>9, <2>1, <2>3
  <2>6. Count(new, {Auto1("auto")}) = Count(box, {Auto1("auto")}) + 0
    BY <2>4
  <2>7. Count(new, {Auto1("ack")}) = Count(box, {Auto1("ack")}) + 1
    BY <2>4
  <2>8. Count(box, {Auto1("auto")}) \in Nat
    BY PlacesFinite
  <2>9. Count(new, {Auto1("auto")}) = Count(box, {Auto1("auto")})
    BY <2>6, <2>8
  <2> QED BY <1>6, <1>7, <1>9, <2>1, <2>4, <2>5, <2>7, <2>9
<1> QED BY <1>8, <1>9

\* A thread that has listened no longer owes its result: it waits for Main.
LEMMA AutoEndInv ==
  ASSUME IInv, NEW t \in Threads, AutoEnd(t)
  PROVE  IInv'
<1>1. TypeOK /\ BootInv
  BY DEF IInv
<1>2. PICK end \in {"over", "aborted"} : boot' = [boot EXCEPT ![t] = end]
  BY DEF AutoEnd, done
<1>3. /\ boot[t] = "listening"
      /\ UNCHANGED <<tables, route, harbor, states, todo, acks, sent, stays, ranlog, called, calls>>
  BY DEF AutoEnd, done
<1>4. TypeOK'
  <2>1. mbox' = [u \in Threads |-> mbox'[u]]
    BY DEF AutoEnd, done
  <2>2. \A u \in Threads : mbox'[u] \in Seq(Job)
    BY EndedBox
  <2>3. mbox' \in [Threads -> Seq(Job)]
    BY <2>1, <2>2
  <2> QED BY <1>1, <1>2, <1>3, <2>3 DEF TypeOK, tables, states
<1>5. \A u \in Threads :
         /\ Sorted(ranlog[u], mbox'[u], harbor, Len(sent))
         /\ \A m : Count(mbox'[u], JobsFor(m)) = Count(mbox[u], JobsFor(m))
  BY EndedBox
<1>6. FlowInv' /\ StayInv' /\ StaysPut'
  BY <1>3, <1>5, MailStep DEF IInv, tables
<1>7. /\ boot'[t] = end /\ t \in Pending /\ Pending' = Pending \ {t}
      /\ \A u \in Threads \ {t} : boot'[u] = boot[u]
      /\ \A u \in Threads : boot'[u] = "before" <=> boot[u] = "before"
  BY <1>1, <1>2, <1>3 DEF Pending, TypeOK
<1>8. BootInv'
  <2>1. (\A u \in Threads : boot'[u] = "before" <=> boot'[Main] = "before")
        /\ (boot'[Main] = "before" => acks' = 0)
    BY <1>1, <1>3, <1>7, NamesAssumption DEF BootInv
  <2>2. \A u \in Threads : Count(mbox'[u], {Auto1("auto")}) = IF u \in Pending' THEN 1 ELSE 0
    <3> SUFFICES ASSUME NEW u \in Threads
                 PROVE  Count(mbox'[u], {Auto1("auto")}) = IF u \in Pending' THEN 1 ELSE 0
      OBVIOUS
    <3>1. Count(mbox'[u], {Auto1("auto")}) = Count(mbox[u], {Auto1("auto")}) - (IF u = t THEN 1 ELSE 0)
      BY EndedBox
    <3>2. Count(mbox[u], {Auto1("auto")}) = IF u \in Pending THEN 1 ELSE 0
      BY <1>1 DEF BootInv
    <3>3. CASE u = t
      BY <1>7, <3>1, <3>2, <3>3
    <3>4. CASE u # t
      BY <1>7, <3>1, <3>2, <3>4
    <3> QED BY <3>3, <3>4
  <2>3. \A u \in Threads : boot'[u] = "listening" => mbox'[u] # <<>> /\ Head(mbox'[u]) = Auto1("auto")
    <3> SUFFICES ASSUME NEW u \in Threads, boot'[u] = "listening"
                 PROVE  mbox'[u] # <<>> /\ Head(mbox'[u]) = Auto1("auto")
      OBVIOUS
    <3>1. u # t /\ boot[u] = "listening"
      BY <1>7
    <3>2. mbox[u] # <<>> /\ Head(mbox[u]) = Auto1("auto")
      BY <1>1, <3>1 DEF BootInv
    <3> QED BY <3>1, <3>2, EndedBox
  <2>4. \A u \in Threads : \A i \in 1 .. Len(mbox'[u]) :
           Plain(mbox'[u][i])
    BY EndedBox
  <2> QED BY <2>1, <2>2, <2>3, <2>4 DEF BootInv
<1>9. AckInv'
  <2>1. PICK a \in Nat, b \in Nat :
           a = Cardinality(Pending) /\ b = Count(mbox[Main], {Auto1("ack")})
    BY <1>1, PendingFinite, CountTypes, NamesAssumption
  <2>2. acks = a + b
    BY <2>1 DEF IInv, AckInv
  <2>3. Cardinality(Pending') = a - 1
    BY <1>7, <2>1, PendingFinite, FS_RemoveElement
  <2>4. Count(mbox'[Main], {Auto1("ack")}) = b + 1
    BY <2>1, EndedBox, NamesAssumption
  <2>5. acks' = (a - 1) + (b + 1)
    BY <1>3, <2>1, <2>2
  <2> QED BY <2>3, <2>4, <2>5 DEF AckInv
<1>10. SentInv'
  <2>1. Posted' <=> Posted
    BY <1>3, <1>7, NamesAssumption DEF Posted
  <2> QED BY <1>3, <2>1 DEF IInv, SentInv
<1> QED BY <1>4, <1>6, <1>8, <1>9, <1>10 DEF IInv

\* What AutoDone finds: a result waits, so that job_count_ is not 0 yet, and it is 1 only
\* if it is the last.
LEMMA ResultWaits ==
  ASSUME IInv, mbox[Main] # <<>>, Head(mbox[Main]) = Auto1("ack")
  PROVE  /\ acks \in Nat /\ acks >= 1 /\ (acks = 1 => Pending = {})
<1>1. TypeOK /\ BootInv /\ Main \in Threads
  BY NamesAssumption DEF IInv
<1>2. PICK a \in Nat, b \in Nat :
         a = Cardinality(Pending) /\ b = Count(mbox[Main], {Auto1("ack")})
  BY <1>1, PendingFinite, CountTypes
<1>3. b >= 1
  <2>1. PICK box \in Seq(Job) : box = mbox[Main] /\ 1 \in 1 .. Len(box) /\ box[1] = Auto1("ack")
    BY <1>1, Shapes, FirstJob
  <2>2. Count(box, {box[1]}) >= 1
    BY <2>1, CountThere
  <2> QED BY <1>2, <2>1, <2>2
<1>4. acks = a + b
  BY <1>2 DEF IInv, AckInv
<1>5. a = 0 => Pending = {}
  BY <1>2, PendingFinite, FS_EmptySet
<1> QED BY <1>2, <1>3, <1>4, <1>5

\* Main takes a result, and after the last one sends smsg_ready.
LEMMA AutoDoneInv ==
  ASSUME IInv, AutoDone
  PROVE  IInv'
<1>1. TypeOK /\ BootInv /\ Main \in Threads
  BY NamesAssumption DEF IInv
<1>2. /\ boot[Main] # "listening" /\ boot[Main] # "before"
      /\ mbox[Main] # <<>> /\ Head(mbox[Main]).kind = "ack"
      /\ mbox' = [mbox EXCEPT ![Main] = Tail(mbox[Main])]
      /\ acks' = acks - 1
      /\ IF acks = 1 THEN Post(Main, None, Ready) ELSE UNCHANGED <<sent, stays, harbor>>
      /\ UNCHANGED <<tables, route, states, todo, boot, ranlog, called, calls>>
  BY DEF AutoDone, Executes, JobIsOk, done
<1>3. Head(mbox[Main]) = Auto1("ack")
  BY <1>1, <1>2, FirstJob
<1>4. /\ mbox'[Main] = Tail(mbox[Main])
      /\ \A u \in Threads \ {Main} : mbox'[u] = mbox[u]
  BY <1>1, <1>2 DEF TypeOK
<1>5. /\ Tail(mbox[Main]) \in Seq(Job)
      /\ Sorted(ranlog[Main], Tail(mbox[Main]), harbor, Len(sent))
      /\ \A m : Count(Tail(mbox[Main]), JobsFor(m)) = Count(mbox[Main], JobsFor(m))
      /\ \A other \in {"auto", "ack"} :
            Count(Tail(mbox[Main]), {Auto1(other)})
               = Count(mbox[Main], {Auto1(other)}) - (IF "ack" = other THEN 1 ELSE 0)
      /\ \A i \in 1 .. Len(Tail(mbox[Main])) :
            Plain(Tail(mbox[Main])[i])
  BY <1>1, <1>2, <1>3, BoxTail
<1>6. \A u \in Threads :
         /\ mbox'[u] \in Seq(Job)
         /\ Sorted(ranlog[u], mbox'[u], harbor, Len(sent))
         /\ \A m : Count(mbox'[u], JobsFor(m)) = Count(mbox[u], JobsFor(m))
  <2> SUFFICES ASSUME NEW u \in Threads
               PROVE  /\ mbox'[u] \in Seq(Job)
                      /\ Sorted(ranlog[u], mbox'[u], harbor, Len(sent))
                      /\ \A m : Count(mbox'[u], JobsFor(m)) = Count(mbox[u], JobsFor(m))
    OBVIOUS
  <2>1. CASE u = Main
    BY <1>4, <1>5, <2>1
  <2>2. CASE u # Main
    <3>1. mbox'[u] = mbox[u]
      BY <1>4, <2>2
    <3> QED BY <1>1, <3>1 DEF IInv, TypeOK, FlowInv
  <2> QED BY <2>1, <2>2
<1>7. acks \in Nat /\ acks >= 1
  BY <1>2, <1>3, ResultWaits
<1>8. PICK k \in Nat : k = Len(sent) /\ k <= calls /\ k < MaxMsgs
  <2>1. ~Posted
    BY <1>7 DEF Posted
  <2>2. Len(sent) \in Nat /\ Len(sent) <= calls + 0
    BY <1>1, <2>1, Shapes DEF IInv, SentInv
  <2>3. MaxMsgs = MaxCalls + 1 /\ MaxCalls \in Nat /\ calls \in 0 .. MaxCalls
    BY <1>1, NamesAssumption DEF MaxMsgs, TypeOK
  <2> QED BY <2>2, <2>3
<1>9. /\ harbor' \in Seq(1 .. MaxMsgs) /\ sent' \in Seq(Message)
      /\ Len(sent') = (IF acks = 1 THEN k + 1 ELSE k) /\ Len(sent') <= MaxMsgs
      /\ stays' \in [1 .. MaxMsgs -> Threads \cup {None}]
      /\ FlowInv' /\ StayInv' /\ StaysPut'
  <2>1. CASE acks = 1
    <3>1. Post(Main, None, Ready) /\ None \in Objects \cup {None} /\ Ready \in Names
      BY <1>2, <2>1, NamesAssumption
    <3>2. UNCHANGED <<ranlog, called, route, hands>>
      BY <1>2 DEF tables
    <3> QED BY <1>1, <1>6, <1>8, <2>1, <3>1, <3>2, PostStep
  <2>2. CASE acks # 1
    <3>1. UNCHANGED <<harbor, sent, stays, ranlog, called, route, hands>>
      BY <1>2, <2>2 DEF tables
    <3>2. FlowInv' /\ StayInv' /\ StaysPut'
      BY <1>6, <3>1, MailStep DEF IInv
    <3> QED BY <1>1, <1>8, <2>2, <3>1, <3>2 DEF TypeOK
  <2> QED BY <2>1, <2>2
<1>10. TypeOK'
  <2>1. mbox' \in [Threads -> Seq(Job)]
    BY <1>1, <1>2, <1>5 DEF TypeOK
  <2>2. acks' \in 0 .. Cardinality(Threads)
    BY <1>1, <1>2, <1>7, PendingFinite DEF TypeOK
  <2> QED BY <1>1, <1>2, <1>9, <2>1, <2>2 DEF TypeOK, tables, states
<1>11. Pending' = Pending
  BY <1>2 DEF Pending
<1>12. BootInv'
  <2>1. \A u \in Threads : Count(mbox'[u], {Auto1("auto")}) = Count(mbox[u], {Auto1("auto")})
    <3> SUFFICES ASSUME NEW u \in Threads
                 PROVE  Count(mbox'[u], {Auto1("auto")}) = Count(mbox[u], {Auto1("auto")})
      OBVIOUS
    <3>1. CASE u = Main
      <4>1. Count(mbox'[Main], {Auto1("auto")}) = Count(mbox[Main], {Auto1("auto")}) - 0
        BY <1>4, <1>5
      <4>2. Count(mbox[Main], {Auto1("auto")}) \in Nat
        BY <1>1, CountTypes
      <4> QED BY <3>1, <4>1, <4>2
    <3>2. CASE u # Main
      BY <1>4, <3>2
    <3> QED BY <3>1, <3>2
  <2>2. \A u \in Threads : boot'[u] = "listening" => mbox'[u] # <<>> /\ Head(mbox'[u]) = Auto1("auto")
    BY <1>1, <1>2, <1>4 DEF BootInv
  <2>3. \A u \in Threads : \A i \in 1 .. Len(mbox'[u]) :
           Plain(mbox'[u][i])
    <3> SUFFICES ASSUME NEW u \in Threads
                 PROVE  \A i \in 1 .. Len(mbox'[u]) : Plain(mbox'[u][i])
      OBVIOUS
    <3>1. CASE u = Main
      BY <1>4, <1>5, <3>1
    <3>2. CASE u # Main
      <4>1. mbox'[u] = mbox[u]
        BY <1>4, <3>2
      <4> QED BY <1>1, <4>1 DEF BootInv
    <3> QED BY <3>1, <3>2
  <2> QED BY <1>1, <1>2, <1>11, <2>1, <2>2, <2>3 DEF BootInv
<1>13. AckInv'
  <2>1. PICK a \in Nat, b \in Nat :
           a = Cardinality(Pending) /\ b = Count(mbox[Main], {Auto1("ack")})
    BY <1>1, PendingFinite, CountTypes
  <2>2. acks = a + b
    BY <2>1 DEF IInv, AckInv
  <2>3. Count(mbox'[Main], {Auto1("ack")}) = b - 1
    BY <1>4, <1>5, <2>1
  <2>4. acks' = a + (b - 1)
    BY <1>2, <2>1, <2>2
  <2> QED BY <1>11, <2>1, <2>3, <2>4 DEF AckInv
<1>14. SentInv'
  <2>1. calls \in Nat
    BY <1>1 DEF TypeOK
  <2>2. CASE acks = 1
    <3>1. Posted'
      BY <1>2, <2>2 DEF Posted
    <3> QED BY <1>2, <1>8, <1>9, <2>1, <2>2, <3>1 DEF SentInv
  <2>3. CASE acks # 1
    <3>1. ~Posted'
      BY <1>2, <1>7, <2>3 DEF Posted
    <3> QED BY <1>2, <1>8, <1>9, <2>1, <2>3, <3>1 DEF SentInv
  <2> QED BY <2>2, <2>3
<1> QED BY <1>9, <1>10, <1>12, <1>13, <1>14 DEF IInv

\* A step that changes nothing keeps the invariant.
LEMMA StutterInv ==
  ASSUME IInv, UNCHANGED vars
  PROVE  IInv'
<1>1. /\ UNCHANGED <<mname, hands, route, harbor, mbox, known, cbs, todo, boot, acks>>
      /\ UNCHANGED <<sent, stays, ranlog, called, calls>>
  BY DEF vars, tables, states, start, done
<1>2. TypeOK'
  BY <1>1 DEF IInv, TypeOK
<1>3. calls' >= calls
  BY <1>1 DEF IInv, TypeOK
<1> QED BY <1>1, <1>2, <1>3, TablesStep DEF done

\* Every step keeps the invariant.
LEMMA NextInv == IInv /\ [Next]_vars => IInv'
<1> SUFFICES ASSUME IInv, [Next]_vars PROVE IInv'
  OBVIOUS
<1>1. CASE \E t \in Threads, n \in Listens : CppListen(t, n) \/ LuaListen(t, n) \/ LuaSend(t, n)
  BY <1>1, CppListenInv, LuaListenInv, LuaSendInv
<1>2. CASE \E t \in Threads, o \in Objects : EnterCt(t, o) \/ LeaveCt(t, o)
  BY <1>2, EnterLeaveInv
<1>3. CASE \E t \in Threads, s \in Sends : SendTo(t, s.rid, s.name)
  BY <1>3, SendToInv
<1>4. CASE DoSend
  BY <1>4, DoSendInv
<1>5. CASE \E t \in Threads : RunMsg(t) \/ RunAuto(t) \/ AutoEnd(t)
  BY <1>5, RunMsgInv, RunAutoInv, AutoEndInv
<1>6. CASE \E t \in Threads, n \in Names : AutoListen(t, n)
  BY <1>6, AutoListenInv
<1>7. CASE AppRun
  BY <1>7, AppRunInv
<1>8. CASE AutoDone
  BY <1>8, AutoDoneInv
<1>9. CASE Rest \/ UNCHANGED vars
  BY <1>9, StutterInv DEF Rest
<1> QED BY <1>1, <1>2, <1>3, <1>4, <1>5, <1>6, <1>7, <1>8, <1>9 DEF Next

\* What ahar and the start of a process keep to in every reachable state.
THEOREM Inductive == Spec => []IInv
BY InitInv, NextInv, PTL DEF Spec

\* Every variable has its type; no more messages than calls, and one, are sent.
THEOREM TypeCorrect == Spec => []TypeOK
<1>1. IInv => TypeOK
  BY DEF IInv
<1> QED BY <1>1, Inductive, PTL

\* Every thread gets messages in the order in which they were sent, for any threads,
\* names, handlers and moves of objects.
THEOREM MessagesAreOrdered == Spec => []OneOrder
<1>1. ASSUME IInv PROVE OneOrder
  <2> SUFFICES ASSUME NEW t \in Threads, NEW a \in Coming(t), NEW b \in Coming(t), a[1] < b[1]
               PROVE  a[2] <= b[2]
    BY DEF OneOrder
  <2>1. PICK n \in Nat, log \in Seq(Nat), box \in Seq(Job), wait \in Seq(Nat) :
           n = Len(sent) /\ log = ranlog[t] /\ box = mbox[t] /\ wait = harbor
    BY <1>1, Shapes DEF IInv
  <2>2. Sorted(log, box, wait, n)
    BY <1>1, <2>1 DEF IInv, FlowInv
  <2>3. PICK r \in Nat, q \in Nat : r = Len(log) /\ q = Len(box)
    OBVIOUS
  <2> DEFINE Ran(c) == \E i \in 1 .. r : c = <<i, log[i]>>
             Job1(c) == \E i \in 1 .. q : box[i].kind = "msg" /\ c = <<r + i, box[i].msg>>
             Waits(c) == \E i \in 1 .. Len(wait) : c = <<r + q + i, wait[i]>>
  <2>4. \A c \in Coming(t) : Ran(c) \/ Job1(c) \/ Waits(c)
    BY <2>1, <2>3 DEF Coming
  <2>5. CASE Ran(a) /\ Ran(b)
    <3>1. PICK i \in 1 .. r, j \in 1 .. r : a = <<i, log[i]>> /\ b = <<j, log[j]>>
      BY <2>5
    <3>2. i < j
      BY <3>1
    <3> QED BY <2>2, <2>3, <3>1, <3>2 DEF Sorted
  <2>6. CASE Ran(a) /\ Job1(b)
    <3>1. PICK i \in 1 .. r, j \in 1 .. q :
             a = <<i, log[i]>> /\ box[j].kind = "msg" /\ b = <<r + j, box[j].msg>>
      BY <2>6
    <3> QED BY <2>2, <2>3, <3>1 DEF Sorted
  <2>7. CASE Ran(a) /\ Waits(b)
    <3>1. PICK i \in 1 .. r, j \in 1 .. Len(wait) : a = <<i, log[i]>> /\ b = <<r + q + j, wait[j]>>
      BY <2>7
    <3>2. log[i] < wait[j] /\ log[i] \in 1 .. n /\ wait[j] \in 1 .. n
      BY <2>2, <2>3, <3>1 DEF Sorted
    <3> QED BY <3>1, <3>2
  <2>8. CASE Job1(a) /\ Job1(b)
    <3>1. PICK i \in 1 .. q, j \in 1 .. q :
             /\ box[i].kind = "msg" /\ a = <<r + i, box[i].msg>>
             /\ box[j].kind = "msg" /\ b = <<r + j, box[j].msg>>
      BY <2>8
    <3>2. r + i < r + j
      BY <3>1
    <3>3. i < j
      BY <2>3, <3>2
    <3> QED BY <2>2, <2>3, <3>1, <3>3 DEF Sorted
  <2>9. CASE Job1(a) /\ Waits(b)
    <3>1. PICK i \in 1 .. q, j \in 1 .. Len(wait) :
             box[i].kind = "msg" /\ a = <<r + i, box[i].msg>> /\ b = <<r + q + j, wait[j]>>
      BY <2>9
    <3>2. box[i].msg < wait[j] /\ box[i].msg \in 1 .. n /\ wait[j] \in 1 .. n
      BY <2>2, <2>3, <3>1 DEF Sorted
    <3> QED BY <3>1, <3>2
  <2>10. CASE Waits(a) /\ Waits(b)
    <3>1. PICK i \in 1 .. Len(wait), j \in 1 .. Len(wait) :
             a = <<r + q + i, wait[i]>> /\ b = <<r + q + j, wait[j]>>
      BY <2>10
    <3>2. r + q + i < r + q + j
      BY <3>1
    <3>3. i < j
      BY <2>3, <3>2
    <3>4. wait[i] < wait[j] /\ wait[i] \in 1 .. n /\ wait[j] \in 1 .. n
      BY <2>2, <3>1, <3>3 DEF Sorted
    <3> QED BY <3>1, <3>4
  <2>11. CASE Job1(a) /\ Ran(b)
    <3>1. PICK i \in 1 .. q, j \in 1 .. r : r + i = a[1] /\ j = b[1]
      BY <2>11
    <3>2. ~(r + i < j)
      BY <2>3, <3>1
    <3> QED BY <3>1, <3>2
  <2>12. CASE Waits(a) /\ (Ran(b) \/ Job1(b))
    <3>1. PICK i \in 1 .. Len(wait) : r + q + i = a[1]
      BY <2>12
    <3>2. PICK j \in Nat : j = b[1] /\ j <= r + q
      BY <2>3, <2>12
    <3>3. ~(r + q + i < j)
      BY <2>3, <3>1, <3>2
    <3> QED BY <3>1, <3>2, <3>3
  <2> HIDE DEF Ran, Job1, Waits
  <2> QED BY <2>4, <2>5, <2>6, <2>7, <2>8, <2>9, <2>10, <2>11, <2>12
<1> QED BY <1>1, Inductive, PTL

\* A message to an object that does not move gets one job at most, and only on the
\* object's thread.
THEOREM ObjectsAreFound == Spec => []StaysPut
<1>1. IInv => StaysPut
  BY DEF IInv
<1> QED BY <1>1, Inductive, PTL

-----------------------------------------------------------------------------
(* Handlers and callbacks.                                                 *)

\* A message has a handler once at most among its jobs that have run and those in the
\* mailbox.
Apart(log, cal, box) ==
    /\ Len(cal) = Len(log)
    /\ \A i, j \in 1 .. Len(log) : i # j /\ log[i] = log[j] => cal[i].hand # cal[j].hand
    /\ \A i \in 1 .. Len(log), j \in 1 .. Len(box) :
          box[j].kind = "msg" /\ log[i] = box[j].msg => cal[i].hand # box[j].hand
    /\ \A i, j \in 1 .. Len(box) :
          i # j /\ box[i].kind = "msg" /\ box[j].kind = "msg" /\ box[i].msg = box[j].msg
             => box[i].hand # box[j].hand

HandsOf(t, m) == hands[Crc[sent[m].name]][t]

\* Each job is for a handler of its thread, and only one of Lua has called callbacks.
Valid(t) ==
    /\ \A i \in 1 .. Len(ranlog[t]) :
          /\ called[t][i].hand \in 1 .. Len(HandsOf(t, ranlog[t][i]))
          /\ called[t][i].cbs # {} => HandsOf(t, ranlog[t][i])[called[t][i].hand] = "lua"
    /\ \A i \in 1 .. Len(mbox[t]) :
          mbox[t][i].kind = "msg" => mbox[t][i].hand \in 1 .. Len(HandsOf(t, mbox[t][i].msg))

HandInv == \A t \in Threads : Apart(ranlog[t], called[t], mbox[t]) /\ Valid(t)

\* Such is the list of the handlers for a message.
LEMMA HandsOfType ==
  ASSUME TypeOK, NEW t \in Threads, NEW m \in 1 .. Len(sent)
  PROVE  HandsOf(t, m) \in Seq({"cpp", "lua"}) /\ Len(HandsOf(t, m)) \in Nat
<1>1. Crc[sent[m].name] \in Ids
  BY SentType
<1>2. HandsOf(t, m) \in Seq({"cpp", "lua"})
  BY <1>1 DEF TypeOK, HandsOf
<1> QED BY <1>2, LenProperties

\* Messages keep their names, and their handlers grow.
LEMMA HandsGrow ==
  ASSUME TypeOK, TypeOK', Extends(hands', hands), NEW t \in Threads, NEW m \in 1 .. Len(sent),
         sent'[m].name = sent[m].name
  PROVE  \A h \in 1 .. Len(HandsOf(t, m)) :
            h \in 1 .. Len(HandsOf(t, m)') /\ HandsOf(t, m)'[h] = HandsOf(t, m)[h]
<1>1. PICK id \in Ids : id = Crc[sent[m].name]
  BY SentType
<1>2. HandsOf(t, m) = hands[id][t] /\ HandsOf(t, m)' = hands'[id][t]
  BY <1>1 DEF HandsOf
<1>3. PICK old \in Seq({"cpp", "lua"}), new \in Seq({"cpp", "lua"}) :
         old = hands[id][t] /\ new = hands'[id][t]
  BY DEF TypeOK
<1>4. PICK k \in Nat, n \in Nat : k = Len(old) /\ n = Len(new)
  BY LenProperties
<1>5. n >= k /\ \A h \in 1 .. k : new[h] = old[h]
  BY <1>3, <1>4 DEF Extends
<1>6. \A h \in 1 .. k : h \in 1 .. n
  BY <1>5
<1> QED BY <1>2, <1>3, <1>4, <1>5, <1>6

\* Messages' jobs are only those that were there, one place further in front at most.
Shifted(new, old) ==
    \E d \in {0, 1} : \A j \in 1 .. Len(new) :
       new[j].kind = "msg" => j + d \in 1 .. Len(old) /\ new[j] = old[j + d]

\* What adds no message's job to a mailbox keeps the invariant.
LEMMA HandFrame ==
  ASSUME IInv, TypeOK', HandInv, Extends(hands', hands), UNCHANGED <<ranlog, called>>,
         \A m \in 1 .. Len(sent) : sent'[m].name = sent[m].name,
         \A t \in Threads : Shifted(mbox'[t], mbox[t])
  PROVE  HandInv'
<1> SUFFICES ASSUME NEW t \in Threads
             PROVE  Apart(ranlog'[t], called'[t], mbox'[t]) /\ Valid(t)'
  BY DEF HandInv
<1>1. TypeOK /\ Apart(ranlog[t], called[t], mbox[t]) /\ Valid(t)
  BY DEF IInv, HandInv
<1>2. PICK log, cal, box, new : log = ranlog[t] /\ cal = called[t] /\ box = mbox[t] /\ new = mbox'[t]
  OBVIOUS
<1>3. PICK n \in Nat : n = Len(sent)
  BY <1>1, Shapes
<1>4. PICK d \in {0, 1} : \A j \in 1 .. Len(new) :
         new[j].kind = "msg" => j + d \in 1 .. Len(box) /\ new[j] = box[j + d]
  BY <1>2 DEF Shifted
<1>5. /\ \A i \in 1 .. Len(log) : log[i] \in 1 .. n
      /\ \A i \in 1 .. Len(box) : box[i].kind = "msg" => box[i].msg \in 1 .. n
  BY <1>2, <1>3 DEF IInv, FlowInv, Sorted
<1>6. Apart(log, cal, new)
  <2>1. \A i, j \in 1 .. Len(new) : i # j => i + d # j + d
    <3> SUFFICES ASSUME NEW i \in 1 .. Len(new), NEW j \in 1 .. Len(new), i # j PROVE i + d # j + d
      OBVIOUS
    <3>1. i \in Int /\ j \in Int /\ d \in Int
      BY <1>4
    <3> QED BY <3>1
  <2>2. Apart(log, cal, box)
    BY <1>1, <1>2
  <2>3. Len(cal) = Len(log)
        /\ \A i, j \in 1 .. Len(log) : i # j /\ log[i] = log[j] => cal[i].hand # cal[j].hand
    BY <2>2 DEF Apart
  <2>4. \A i \in 1 .. Len(log), j \in 1 .. Len(new) :
           new[j].kind = "msg" /\ log[i] = new[j].msg => cal[i].hand # new[j].hand
    <3> SUFFICES ASSUME NEW i \in 1 .. Len(log), NEW j \in 1 .. Len(new),
                        new[j].kind = "msg", log[i] = new[j].msg
                 PROVE  cal[i].hand # new[j].hand
      OBVIOUS
    <3>1. PICK b \in 1 .. Len(box) : new[j] = box[b]
      BY <1>4
    <3> QED BY <2>2, <3>1 DEF Apart
  <2>5. \A i, j \in 1 .. Len(new) :
           i # j /\ new[i].kind = "msg" /\ new[j].kind = "msg" /\ new[i].msg = new[j].msg
              => new[i].hand # new[j].hand
    <3> SUFFICES ASSUME NEW i \in 1 .. Len(new), NEW j \in 1 .. Len(new), i # j,
                        new[i].kind = "msg", new[j].kind = "msg", new[i].msg = new[j].msg
                 PROVE  new[i].hand # new[j].hand
      OBVIOUS
    <3>1. PICK a \in 1 .. Len(box) : a = i + d /\ new[i] = box[a]
      BY <1>4
    <3>2. PICK b \in 1 .. Len(box) : b = j + d /\ new[j] = box[b]
      BY <1>4
    <3>3. a # b
      BY <2>1, <3>1, <3>2
    <3> QED BY <2>2, <3>1, <3>2, <3>3 DEF Apart
  <2> QED BY <2>3, <2>4, <2>5 DEF Apart
<1>7. \A m \in 1 .. n : \A h \in 1 .. Len(HandsOf(t, m)) :
         h \in 1 .. Len(HandsOf(t, m)') /\ HandsOf(t, m)'[h] = HandsOf(t, m)[h]
  BY <1>1, <1>3, HandsGrow
<1>8. \A i \in 1 .. Len(log) :
         /\ cal[i].hand \in 1 .. Len(HandsOf(t, log[i])')
         /\ cal[i].cbs # {} => HandsOf(t, log[i])'[cal[i].hand] = "lua"
  <2> SUFFICES ASSUME NEW i \in 1 .. Len(log)
               PROVE  /\ cal[i].hand \in 1 .. Len(HandsOf(t, log[i])')
                      /\ cal[i].cbs # {} => HandsOf(t, log[i])'[cal[i].hand] = "lua"
    OBVIOUS
  <2>1. PICK m \in 1 .. n : m = log[i]
    BY <1>5
  <2>2. cal[i].hand \in 1 .. Len(HandsOf(t, m))
    BY <1>1, <1>2, <2>1 DEF Valid
  <2>3. cal[i].cbs # {} => HandsOf(t, m)[cal[i].hand] = "lua"
    BY <1>1, <1>2, <2>1 DEF Valid
  <2>4. cal[i].hand \in 1 .. Len(HandsOf(t, m)') /\ HandsOf(t, m)'[cal[i].hand] = HandsOf(t, m)[cal[i].hand]
    BY <1>7, <2>2
  <2>5. HandsOf(t, log[i])' = HandsOf(t, m)'
    BY <1>2, <2>1 DEF HandsOf
  <2> QED BY <2>3, <2>4, <2>5
<1>9. \A i \in 1 .. Len(new) :
         new[i].kind = "msg" => new[i].hand \in 1 .. Len(hands'[Crc[sent'[new[i].msg].name]][t])
  <2> SUFFICES ASSUME NEW i \in 1 .. Len(new), new[i].kind = "msg"
               PROVE  new[i].hand \in 1 .. Len(hands'[Crc[sent'[new[i].msg].name]][t])
    OBVIOUS
  <2>1. i + d \in 1 .. Len(box) /\ new[i] = box[i + d]
    BY <1>4
  <2>2. PICK m \in 1 .. n : m = box[i + d].msg
    BY <1>5, <2>1
  <2>3. box[i + d].hand \in 1 .. Len(HandsOf(t, m))
    BY <1>1, <1>2, <2>1, <2>2 DEF Valid
  <2>4. box[i + d].hand \in 1 .. Len(HandsOf(t, m)')
    BY <1>7, <2>3
  <2> QED BY <2>1, <2>2, <2>4 DEF HandsOf
<1>10. Valid(t)'
  BY <1>2, <1>8, <1>9 DEF Valid, HandsOf
<1> QED BY <1>2, <1>6, <1>10

\* The jobs of a new message are for different handlers.
LEMMA DoSendHands ==
  ASSUME IInv, TypeOK', HandInv, DoSend
  PROVE  HandInv'
<1>1. TypeOK
  BY DEF IInv
<1>2. PICK n \in Nat : n = Len(sent) /\ harbor # <<>>
  BY <1>1, Shapes DEF DoSend
<1>3. PICK m \in 1 .. n : m = Head(harbor) /\ m = harbor[1] /\ 1 \in 1 .. Len(harbor)
  <2>1. PICK wait \in Seq(Nat) : wait = harbor
    BY <1>1, NamesAssumption, Shapes
  <2>2. Head(wait) = wait[1] /\ 1 \in 1 .. Len(wait)
    BY <1>2, <2>1
  <2>3. wait[1] \in 1 .. n
    BY <1>2, <2>1, <2>2, NamesAssumption DEF IInv, FlowInv, Sorted
  <2> QED BY <2>1, <2>2, <2>3
<1>4. PICK id \in Ids : id = Crc[sent[m].name]
  BY <1>1, <1>2, SentType
<1> DEFINE On(t) == IF mname[id] = None THEN <<>> ELSE Targets(id, Dest(m), t)
<1>5. /\ \A t \in Threads : mbox'[t] = mbox[t] \o JobsOf(m, On(t))
      /\ UNCHANGED <<tables, route, states, start, sent, stays, ranlog, called, calls>>
  BY <1>3, <1>4 DEF DoSend, done
<1> SUFFICES ASSUME NEW t \in Threads
             PROVE  Apart(ranlog[t], called[t], mbox'[t]) /\ Valid(t)'
  BY <1>5 DEF HandInv
<1>6. PICK log, cal : log = ranlog[t] /\ cal = called[t]
  OBVIOUS
<1>7. PICK all \in Seq({"cpp", "lua"}) : all = HandsOf(t, m) /\ all = hands[id][t]
  <2>1. hands[id][t] \in Seq({"cpp", "lua"})
    BY <1>1 DEF TypeOK
  <2>2. HandsOf(t, m) = hands[id][t]
    BY <1>4 DEF HandsOf
  <2> QED BY <2>1, <2>2, Zenon
<1>8. PICK on \in Seq({"cpp", "lua"}) : on = On(t) /\ \A h \in 1 .. Len(on) : h \in 1 .. Len(all)
  <2>1. CASE On(t) = <<>>
    <3>1. <<>> \in Seq({"cpp", "lua"}) /\ \A h \in 1 .. Len(<<>>) : h \in 1 .. Len(all)
      OBVIOUS
    <3> QED BY <2>1, <3>1
  <2>2. CASE On(t) = all
    BY <2>2
  <2>3. CASE all # <<>> /\ On(t) = <<Head(all)>>
    <3>1. <<Head(all)>> \in Seq({"cpp", "lua"}) /\ Len(<<Head(all)>>) = 1
      BY <2>3
    <3>2. 1 \in 1 .. Len(all)
      BY <2>3
    <3>3. \A h \in 1 .. 1 : h = 1
      OBVIOUS
    <3> HIDE DEF On
    <3> QED BY <2>3, <3>1, <3>2, <3>3
  <2>4. \/ On(t) = <<>> \/ On(t) = hands[id][t]
        \/ hands[id][t] # <<>> /\ On(t) = <<Head(hands[id][t])>>
    BY Zenon DEF Targets
  <2> QED BY <1>7, <2>1, <2>2, <2>3, <2>4
<1> HIDE DEF On
<1>9. PICK box \in Seq(Job), b \in Nat, k \in Nat : box = mbox[t] /\ b = Len(box) /\ k = Len(on)
  BY <1>1, Shapes, LenProperties
<1>10. PICK new : new = mbox'[t]
  OBVIOUS
<1>11. /\ Len(new) = b + k
       /\ \A i \in 1 .. b : i \in 1 .. b + k /\ new[i] = box[i]
       /\ \A i \in 1 .. b + k : ~(i <= b) => i - b \in 1 .. k /\ new[i] = JobFor(m, i - b)
  <2>1. PICK c \in Seq(JobsFor(m)) :
           c = JobsOf(m, on) /\ Len(c) = k /\ \A i \in 1 .. k : c[i] = JobFor(m, i)
    BY <1>9, JobsOfType
  <2>2. PICK T : T = Job \cup JobsFor(m)
    OBVIOUS
  <2>3. box \in Seq(T) /\ c \in Seq(T)
    <3>1. \A q : q \in Seq(Job) => q \in Seq(Job \cup JobsFor(m))
      OBVIOUS
    <3>2. \A q : q \in Seq(JobsFor(m)) => q \in Seq(Job \cup JobsFor(m))
      OBVIOUS
    <3> QED BY <2>2, <3>1, <3>2
  <2>4. /\ Len(box \o c) = Len(box) + Len(c)
        /\ \A i \in 1 .. Len(box) + Len(c) :
              (box \o c)[i] = IF i <= Len(box) THEN box[i] ELSE c[i - Len(box)]
    BY <2>3
  <2>5. new = box \o c
    BY <1>5, <1>8, <1>9, <1>10, <2>1
  <2>6. Len(new) = b + k /\ \A i \in 1 .. b + k : new[i] = IF i <= b THEN box[i] ELSE c[i - b]
    BY <1>9, <2>1, <2>4, <2>5
  <2>7. \A i \in 1 .. b + k : ~(i <= b) => i - b \in 1 .. k
    BY <1>9
  <2>8. \A i \in 1 .. b : i \in 1 .. b + k /\ i <= b
    BY <1>9
  <2> QED BY <2>1, <2>6, <2>7, <2>8
<1>12. \A h : JobFor(m, h).kind = "msg" /\ JobFor(m, h).msg = m /\ JobFor(m, h).hand = h
  BY DEF JobFor
<1>13. Apart(log, cal, box) /\ Sorted(log, box, harbor, n)
  BY <1>2, <1>6, <1>9 DEF HandInv, IInv, FlowInv
<1>14. /\ \A i \in 1 .. Len(log) : log[i] # m
       /\ \A i \in 1 .. b : box[i].kind = "msg" => box[i].msg # m
  <2>1. \A i \in 1 .. Len(log) : log[i] \in 1 .. n /\ log[i] < m
    BY <1>3, <1>13 DEF Sorted
  <2>2. \A i \in 1 .. b : box[i].kind = "msg" => box[i].msg \in 1 .. n /\ box[i].msg < m
    BY <1>3, <1>9, <1>13 DEF Sorted
  <2>3. \A x \in 1 .. n : x < m => x # m
    OBVIOUS
  <2> QED BY <2>1, <2>2, <2>3
<1>15. \A i \in 1 .. b + k : i \in 1 .. b \/ ~(i <= b)
  BY <1>9
<1>16. \A i \in 1 .. Len(log), j \in 1 .. b + k :
          new[j].kind = "msg" /\ log[i] = new[j].msg => cal[i].hand # new[j].hand
  <2> SUFFICES ASSUME NEW i \in 1 .. Len(log), NEW j \in 1 .. b + k,
                      new[j].kind = "msg", log[i] = new[j].msg
               PROVE  cal[i].hand # new[j].hand
    OBVIOUS
  <2>1. CASE j \in 1 .. b
    <3>1. new[j] = box[j] /\ j \in 1 .. Len(box)
      BY <1>9, <1>11, <2>1
    <3> QED BY <1>13, <3>1 DEF Apart
  <2>2. CASE ~(j <= b)
    BY <1>11, <1>12, <1>14, <2>2
  <2> QED BY <1>15, <2>1, <2>2
<1>17. \A i, j \in 1 .. b + k :
          i # j /\ new[i].kind = "msg" /\ new[j].kind = "msg" /\ new[i].msg = new[j].msg
             => new[i].hand # new[j].hand
  <2> SUFFICES ASSUME NEW i \in 1 .. b + k, NEW j \in 1 .. b + k, i # j,
                      new[i].kind = "msg", new[j].kind = "msg", new[i].msg = new[j].msg
               PROVE  new[i].hand # new[j].hand
    OBVIOUS
  <2>1. CASE i \in 1 .. b /\ j \in 1 .. b
    <3>1. new[i] = box[i] /\ i \in 1 .. Len(box)
      BY <1>9, <1>11, <2>1
    <3>2. new[j] = box[j] /\ j \in 1 .. Len(box)
      BY <1>9, <1>11, <2>1
    <3> QED BY <1>13, <3>1, <3>2 DEF Apart
  <2>2. CASE i \in 1 .. b /\ ~(j <= b)
    BY <1>11, <1>12, <1>14, <2>2
  <2>3. CASE ~(i <= b) /\ j \in 1 .. b
    BY <1>11, <1>12, <1>14, <2>3
  <2>4. CASE ~(i <= b) /\ ~(j <= b)
    <3>1. new[i].hand = i - b /\ new[j].hand = j - b
      BY <1>11, <1>12, <2>4
    <3>2. i - b # j - b
      <4>1. i \in Int /\ j \in Int
        BY <1>9
      <4> QED BY <1>9, <4>1
    <3> QED BY <3>1, <3>2
  <2> QED BY <1>15, <2>1, <2>2, <2>3, <2>4
<1>18. Apart(log, cal, new)
  BY <1>9, <1>11, <1>13, <1>16, <1>17 DEF Apart
<1>19. \A x : HandsOf(t, x)' = HandsOf(t, x)
  BY <1>5 DEF HandsOf, tables
<1>20. Valid(t)'
  <2>1. Valid(t)
    BY DEF HandInv
  <2>2. \A i \in 1 .. Len(new) :
           new[i].kind = "msg" => new[i].hand \in 1 .. Len(HandsOf(t, new[i].msg))
    <3> SUFFICES ASSUME NEW i \in 1 .. b + k, new[i].kind = "msg"
                 PROVE  new[i].hand \in 1 .. Len(HandsOf(t, new[i].msg))
      BY <1>11
    <3>1. CASE i \in 1 .. b
      <4>1. new[i] = mbox[t][i] /\ i \in 1 .. Len(mbox[t])
        BY <1>9, <1>11, <3>1
      <4> QED BY <2>1, <4>1 DEF Valid
    <3>2. CASE ~(i <= b)
      <4>1. new[i].hand \in 1 .. k /\ new[i].msg = m
        BY <1>11, <1>12, <3>2
      <4>2. new[i].hand \in 1 .. Len(all)
        BY <1>8, <1>9, <4>1
      <4> QED BY <1>7, <4>1, <4>2
    <3> QED BY <1>15, <3>1, <3>2
  <2> QED BY <1>5, <1>10, <1>19, <2>1, <2>2 DEF Valid, HandsOf, tables
<1> QED BY <1>6, <1>10, <1>18, <1>20

\* A job that runs has called the handler that it is for.
LEMMA RunMsgHands ==
  ASSUME IInv, TypeOK', HandInv, NEW t \in Threads, RunMsg(t)
  PROVE  HandInv'
<1>1. TypeOK /\ BootInv
  BY DEF IInv
<1>2. /\ mbox[t] # <<>> /\ Head(mbox[t]).kind = "msg"
      /\ mbox' = [mbox EXCEPT ![t] = Tail(mbox[t])]
      /\ ranlog' = [ranlog EXCEPT ![t] = Append(ranlog[t], Head(mbox[t]).msg)]
      /\ UNCHANGED <<hands, sent>>
  BY DEF RunMsg, tables
<1>3. PICK cb \in SUBSET Nat :
         /\ called' = [called EXCEPT ![t] = Append(called[t], [hand |-> Head(mbox[t]).hand, cbs |-> cb])]
         /\ cb # {} => HandsOf(t, Head(mbox[t]).msg)[Head(mbox[t]).hand] = "lua"
  BY <1>1, RunMsgCalls DEF HandsOf
<1>4. PICK log \in Seq(Nat), box \in Seq(Job), n \in Nat :
         log = ranlog[t] /\ box = mbox[t] /\ n = Len(sent)
  BY <1>1, Shapes
<1>5. PICK U : U = [hand : Nat, cbs : SUBSET Nat]
  OBVIOUS
<1>6. PICK cal \in Seq(U) : cal = called[t]
  BY <1>1, <1>5 DEF TypeOK
<1>7. PICK job \in Job : job = Head(box) /\ job = box[1] /\ 1 \in 1 .. Len(box) /\ job.kind = "msg"
  BY <1>1, <1>2, <1>4, FirstJob
<1>8. PICK m : m = job.msg
  OBVIOUS
<1>9. PICK rec \in U : rec = [hand |-> job.hand, cbs |-> cb] /\ rec.hand = job.hand /\ rec.cbs = cb
  <2>1. job.hand \in Nat
    BY DEF Job
  <2>2. [hand |-> job.hand, cbs |-> cb] \in U
    BY <1>5, <2>1, Zenon
  <2>3. [hand |-> job.hand, cbs |-> cb].hand = job.hand /\ [hand |-> job.hand, cbs |-> cb].cbs = cb
    OBVIOUS
  <2> QED BY <2>2, <2>3, Zenon
<1>10. /\ mbox'[t] = Tail(box) /\ ranlog'[t] = Append(log, m) /\ called'[t] = Append(cal, rec)
       /\ \A u \in Threads \ {t} :
             mbox'[u] = mbox[u] /\ ranlog'[u] = ranlog[u] /\ called'[u] = called[u]
  <2>1. mbox'[t] = Tail(box) /\ ranlog'[t] = Append(log, m)
    BY <1>1, <1>2, <1>4, <1>7, <1>8 DEF TypeOK
  <2>2. called'[t] = Append(cal, rec)
    BY <1>1, <1>3, <1>4, <1>6, <1>7, <1>9 DEF TypeOK
  <2>3. \A u \in Threads \ {t} :
           mbox'[u] = mbox[u] /\ ranlog'[u] = ranlog[u] /\ called'[u] = called[u]
    BY <1>1, <1>2, <1>3 DEF TypeOK
  <2> QED BY <2>1, <2>2, <2>3
<1>11. \A u, x : HandsOf(u, x)' = HandsOf(u, x)
  BY <1>2 DEF HandsOf
<1>12. ASSUME NEW u \in Threads \ {t}
       PROVE  Apart(ranlog'[u], called'[u], mbox'[u]) /\ Valid(u)'
  <2>1. Apart(ranlog[u], called[u], mbox[u]) /\ Valid(u)
    BY DEF HandInv
  <2>2. mbox'[u] = mbox[u] /\ ranlog'[u] = ranlog[u] /\ called'[u] = called[u]
    BY <1>10, Zenon
  <2>3. hands' = hands /\ sent' = sent
    BY <1>2
  <2>4. Valid(u)'
    BY <2>1, <2>2, <2>3, Zenon DEF Valid, HandsOf
  <2> QED BY <2>1, <2>2, <2>4, Zenon
<1>13. Apart(log, cal, box) /\ Valid(t)
  BY <1>4, <1>6 DEF HandInv
<1>14. PICK l \in Nat, k \in Nat : l = Len(log) /\ l = Len(cal) /\ k = Len(box) /\ k # 0
  <2>1. Len(cal) = Len(log) /\ Len(log) \in Nat
    BY <1>13, LenProperties DEF Apart
  <2>2. Len(box) \in Nat /\ Len(box) # 0
    BY <1>2, <1>4
  <2> QED BY <2>1, <2>2
<1>15. PICK run, did, rest : run = Append(log, m) /\ did = Append(cal, rec) /\ rest = Tail(box)
  OBVIOUS
<1>16. /\ Len(run) = l + 1 /\ run[l + 1] = m /\ \A i \in 1 .. l : run[i] = log[i]
       /\ Len(did) = l + 1 /\ did[l + 1] = rec /\ \A i \in 1 .. l : did[i] = cal[i]
  <2>1. m \in Nat
    BY <1>7, <1>8, NamesAssumption DEF Job, MaxMsgs
  <2>2. Len(run) = l + 1 /\ run[l + 1] = m /\ \A i \in 1 .. l : run[i] = log[i]
    <3>1. /\ Len(Append(log, m)) = Len(log) + 1 /\ Append(log, m)[Len(log) + 1] = m
          /\ \A i \in 1 .. Len(log) : Append(log, m)[i] = log[i]
      BY <2>1, AppendProperties
    <3> QED BY <1>14, <1>15, <3>1
  <2>3. Len(did) = l + 1 /\ did[l + 1] = rec /\ \A i \in 1 .. l : did[i] = cal[i]
    BY <1>14, <1>15
  <2> QED BY <2>2, <2>3
<1>17. Len(rest) = k - 1 /\ \A i \in 1 .. k - 1 : rest[i] = box[i + 1] /\ i + 1 \in 1 .. k /\ i + 1 # 1
  BY <1>14, <1>15
<1>18. \A i \in 1 .. l + 1 : i \in 1 .. l \/ i = l + 1
  BY <1>14
<1>19. \A i, j \in 1 .. l + 1 : i # j /\ run[i] = run[j] => did[i].hand # did[j].hand
  <2> SUFFICES ASSUME NEW i \in 1 .. l + 1, NEW j \in 1 .. l + 1, i # j, run[i] = run[j]
               PROVE  did[i].hand # did[j].hand
    OBVIOUS
  <2>1. CASE i \in 1 .. l /\ j \in 1 .. l
    <3>1. log[i] = log[j] /\ did[i] = cal[i] /\ did[j] = cal[j]
      BY <1>16, <2>1
    <3> QED BY <1>13, <1>14, <2>1, <3>1 DEF Apart
  <2>2. CASE i \in 1 .. l /\ j = l + 1
    <3>1. log[i] = box[1].msg /\ did[i] = cal[i] /\ did[j].hand = box[1].hand
      BY <1>7, <1>8, <1>9, <1>16, <2>2
    <3> QED BY <1>7, <1>13, <1>14, <2>2, <3>1 DEF Apart
  <2>3. CASE i = l + 1 /\ j \in 1 .. l
    <3>1. log[j] = box[1].msg /\ did[j] = cal[j] /\ did[i].hand = box[1].hand
      BY <1>7, <1>8, <1>9, <1>16, <2>3
    <3> QED BY <1>7, <1>13, <1>14, <2>3, <3>1 DEF Apart
  <2> QED BY <1>18, <2>1, <2>2, <2>3
<1>20. \A i \in 1 .. l + 1, j \in 1 .. k - 1 :
          rest[j].kind = "msg" /\ run[i] = rest[j].msg => did[i].hand # rest[j].hand
  <2> SUFFICES ASSUME NEW i \in 1 .. l + 1, NEW j \in 1 .. k - 1,
                      rest[j].kind = "msg", run[i] = rest[j].msg
               PROVE  did[i].hand # rest[j].hand
    OBVIOUS
  <2>1. PICK b \in 1 .. k : b # 1 /\ rest[j] = box[b]
    BY <1>17
  <2>2. CASE i \in 1 .. l
    <3>1. log[i] = box[b].msg /\ did[i] = cal[i]
      BY <1>16, <2>1, <2>2
    <3> QED BY <1>13, <1>14, <2>1, <2>2, <3>1 DEF Apart
  <2>3. CASE i = l + 1
    <3>1. box[1].msg = box[b].msg /\ did[i].hand = box[1].hand
      BY <1>7, <1>8, <1>9, <1>16, <2>1, <2>3
    <3> QED BY <1>7, <1>13, <1>14, <2>1, <3>1 DEF Apart
  <2> QED BY <1>18, <2>2, <2>3
<1>21. \A i, j \in 1 .. k - 1 :
          i # j /\ rest[i].kind = "msg" /\ rest[j].kind = "msg" /\ rest[i].msg = rest[j].msg
             => rest[i].hand # rest[j].hand
  <2> SUFFICES ASSUME NEW i \in 1 .. k - 1, NEW j \in 1 .. k - 1, i # j,
                      rest[i].kind = "msg", rest[j].kind = "msg", rest[i].msg = rest[j].msg
               PROVE  rest[i].hand # rest[j].hand
    OBVIOUS
  <2>1. i + 1 # j + 1
    <3>1. i \in Int /\ j \in Int
      BY <1>14
    <3> QED BY <3>1
  <2>2. PICK a \in 1 .. k, b \in 1 .. k : a # b /\ rest[i] = box[a] /\ rest[j] = box[b]
    BY <1>17, <2>1
  <2> QED BY <1>13, <1>14, <2>2 DEF Apart
<1>22. Apart(run, did, rest)
  BY <1>16, <1>17, <1>19, <1>20, <1>21 DEF Apart
<1>23. \A i \in 1 .. l + 1 :
          /\ did[i].hand \in 1 .. Len(HandsOf(t, run[i]))
          /\ did[i].cbs # {} => HandsOf(t, run[i])[did[i].hand] = "lua"
  <2> SUFFICES ASSUME NEW i \in 1 .. l + 1
               PROVE  /\ did[i].hand \in 1 .. Len(HandsOf(t, run[i]))
                      /\ did[i].cbs # {} => HandsOf(t, run[i])[did[i].hand] = "lua"
    OBVIOUS
  <2>1. CASE i \in 1 .. l
    <3>1. run[i] = log[i] /\ did[i] = cal[i]
      BY <1>16, <2>1
    <3>2. /\ cal[i].hand \in 1 .. Len(HandsOf(t, log[i]))
          /\ cal[i].cbs # {} => HandsOf(t, log[i])[cal[i].hand] = "lua"
      BY <1>4, <1>6, <1>13, <1>14, <2>1 DEF Valid
    <3> QED BY <3>1, <3>2
  <2>2. CASE i = l + 1
    <3>1. run[i] = m /\ did[i].hand = job.hand /\ did[i].cbs = cb
      BY <1>9, <1>16, <2>2
    <3>2. job.hand \in 1 .. Len(HandsOf(t, m))
      BY <1>4, <1>7, <1>8, <1>13 DEF Valid
    <3>3. cb # {} => HandsOf(t, m)[job.hand] = "lua"
      BY <1>3, <1>4, <1>7, <1>8
    <3> QED BY <3>1, <3>2, <3>3
  <2> QED BY <1>18, <2>1, <2>2
<1>24. \A i \in 1 .. k - 1 :
          rest[i].kind = "msg" => rest[i].hand \in 1 .. Len(HandsOf(t, rest[i].msg))
  BY <1>4, <1>13, <1>14, <1>17 DEF Valid
<1>25. Valid(t)'
  <2>1. ranlog'[t] = run /\ called'[t] = did /\ mbox'[t] = rest
    BY <1>10, <1>15
  <2> QED BY <1>2, <1>16, <1>17, <1>23, <1>24, <2>1 DEF Valid, HandsOf
<1> QED BY <1>10, <1>12, <1>15, <1>22, <1>25 DEF HandInv

\* What happens to a mailbox in every other step: the first job is taken out, or not,
\* and a job of aapp_run's put in, or not.
LEMMA BoxShift ==
  ASSUME NEW old \in Seq(Job), NEW rest, rest = old \/ (old # <<>> /\ rest = Tail(old)),
         NEW job \in Job, job.kind # "msg", NEW new, new = rest \/ new = Append(rest, job)
  PROVE  Shifted(new, old)
<1>1. PICK k \in Nat : k = Len(old) /\ (old # <<>> => k # 0)
  BY LenProperties, EmptySeq
<1>2. rest \in Seq(Job) /\ \E d \in {0, 1} : /\ Len(rest) = k - d
                                              /\ \A j \in 1 .. k - d : rest[j] = old[j + d]
  <2>1. CASE rest = old
    BY <1>1, <2>1
  <2>2. CASE old # <<>> /\ rest = Tail(old)
    <3>1. /\ Tail(old) \in Seq(Job) /\ Len(Tail(old)) = k - 1
          /\ \A j \in 1 .. k - 1 : Tail(old)[j] = old[j + 1]
      BY <1>1, <2>2
    <3> QED BY <2>2, <3>1
  <2> QED BY <2>1, <2>2
<1>3. PICK d \in {0, 1} : Len(rest) = k - d /\ \A j \in 1 .. k - d : rest[j] = old[j + d]
  BY <1>2
<1>4. PICK l \in Nat : l = Len(rest) /\ l = k - d
  BY <1>2, <1>3, LenProperties
<1>5. \A j \in 1 .. l : j + d \in 1 .. k
  BY <1>3, <1>4
<1>6. \A j \in 1 .. Len(new) : new[j].kind = "msg" => j \in 1 .. l /\ new[j] = rest[j]
  <2>1. CASE new = rest
    BY <1>4, <2>1
  <2>2. CASE new = Append(rest, job)
    <3>1. /\ Len(new) = l + 1 /\ new[l + 1] = job
          /\ \A j \in 1 .. l : new[j] = rest[j]
      BY <1>2, <1>4, <2>2, AppendProperties
    <3>2. \A j \in 1 .. l + 1 : j \in 1 .. l \/ j = l + 1
      BY <1>4
    <3> QED BY <3>1, <3>2
  <2> QED BY <2>1, <2>2
<1>7. \A j \in 1 .. Len(new) :
         new[j].kind = "msg" => j + d \in 1 .. Len(old) /\ new[j] = old[j + d]
  BY <1>1, <1>3, <1>4, <1>5, <1>6
<1> QED BY <1>7 DEF Shifted

\* Messages that are sent leave the names of the others.
LEMMA PostNames ==
  ASSUME TypeOK, NEW t \in Threads, NEW rid, NEW n, Post(t, rid, n)
  PROVE  \A m \in 1 .. Len(sent) : sent'[m].name = sent[m].name
<1>1. PICK msg : msg = [rid |-> rid, name |-> n, from |-> t]
  OBVIOUS
<1>2. sent' = Append(sent, msg) /\ sent \in Seq(Message)
  BY <1>1 DEF Post, TypeOK
<1>3. \A m \in 1 .. Len(sent) : sent'[m] = sent[m]
  BY <1>2
<1> QED BY <1>3

\* A step that changes no mailbox of a thread.
LEMMA QuietHands ==
  ASSUME IInv, TypeOK', HandInv, Extends(hands', hands), UNCHANGED <<mbox, ranlog, called>>,
         \A m \in 1 .. Len(sent) : sent'[m].name = sent[m].name
  PROVE  HandInv'
<1> SUFFICES ASSUME NEW t \in Threads PROVE Shifted(mbox'[t], mbox[t])
  BY HandFrame
<1>1. PICK box \in Seq(Job) : box = mbox[t] /\ box = mbox'[t]
  BY Shapes DEF IInv
<1>2. PICK k \in Nat : k = Len(box)
  BY LenProperties
<1>3. \A j \in 1 .. k : j + 0 \in 1 .. k /\ j + 0 = j
  BY <1>2
<1> QED BY <1>1, <1>2, <1>3 DEF Shifted

\* A step that changes mailboxes by the jobs of aapp_run.
LEMMA StartHands ==
  ASSUME IInv, TypeOK', HandInv, UNCHANGED <<hands, ranlog, called>>,
         \A m \in 1 .. Len(sent) : sent'[m].name = sent[m].name,
         NEW kind \in {"auto", "ack"},
         \A t \in Threads : \E rest :
            /\ rest = mbox[t] \/ (mbox[t] # <<>> /\ rest = Tail(mbox[t]))
            /\ mbox'[t] = rest \/ mbox'[t] = Append(rest, Auto1(kind))
  PROVE  HandInv'
<1>1. Auto1(kind) \in Job /\ Auto1(kind).kind # "msg"
  BY NamesAssumption DEF Auto1, Job, MaxMsgs
<1>2. \A t \in Threads : Shifted(mbox'[t], mbox[t])
  <2> SUFFICES ASSUME NEW t \in Threads PROVE Shifted(mbox'[t], mbox[t])
    OBVIOUS
  <2>0. PICK new : new = mbox'[t]
    OBVIOUS
  <2>1. PICK box \in Seq(Job), job \in Job :
           box = mbox[t] /\ new = mbox'[t] /\ job = Auto1(kind) /\ job.kind # "msg"
    BY <1>1, <2>0, Shapes DEF IInv
  <2>2. PICK rest : /\ rest = box \/ (box # <<>> /\ rest = Tail(box))
                    /\ new = rest \/ new = Append(rest, job)
    BY <2>1
  <2>3. Shifted(new, box)
    <3>1. job.kind # "msg"
      BY <2>1
    <3>2. (rest = box \/ (box # <<>> /\ rest = Tail(box))) /\ (new = rest \/ new = Append(rest, job))
      BY <2>2
    <3> QED BY <3>1, <3>2, BoxShift
  <2> QED BY <2>1, <2>3
<1>3. Extends(hands', hands)
  BY SameExtends DEF IInv
<1> QED BY <1>2, <1>3, HandFrame

LEMMA AutoEndHands ==
  ASSUME IInv, TypeOK', HandInv, NEW t \in Threads, AutoEnd(t)
  PROVE  HandInv'
<1>1. TypeOK /\ BootInv
  BY DEF IInv
<1>2. mbox[t] # <<>>
  BY <1>1 DEF BootInv, AutoEnd
<1>3. \A s \in Threads :
         mbox'[s] = LET rest == IF s = t THEN Tail(mbox[s]) ELSE mbox[s]
                    IN IF s = Main THEN Append(rest, Auto1("ack")) ELSE rest
  BY DEF AutoEnd
<1>4. \A s \in Threads : \E rest :
         /\ rest = mbox[s] \/ (mbox[s] # <<>> /\ rest = Tail(mbox[s]))
         /\ mbox'[s] = rest \/ mbox'[s] = Append(rest, Auto1("ack"))
  BY <1>2, <1>3
<1>5. UNCHANGED <<hands, sent, ranlog, called>>
  BY DEF AutoEnd, tables, done
<1> QED BY <1>4, <1>5, StartHands

LEMMA AutoDoneHands ==
  ASSUME IInv, TypeOK', HandInv, AutoDone
  PROVE  HandInv'
<1>1. TypeOK /\ Main \in Threads
  BY NamesAssumption DEF IInv
<1>2. mbox[Main] # <<>> /\ mbox' = [mbox EXCEPT ![Main] = Tail(mbox[Main])]
      /\ UNCHANGED <<hands, ranlog, called>>
  BY DEF AutoDone, tables, done
<1>3. \A s \in Threads : mbox'[s] = IF s = Main THEN Tail(mbox[s]) ELSE mbox[s]
  BY <1>1, <1>2 DEF TypeOK
<1>4. \A s \in Threads : \E rest :
         /\ rest = mbox[s] \/ (mbox[s] # <<>> /\ rest = Tail(mbox[s]))
         /\ mbox'[s] = rest \/ mbox'[s] = Append(rest, Auto1("ack"))
  BY <1>2, <1>3
<1>5. \A m \in 1 .. Len(sent) : sent'[m].name = sent[m].name
  <2>1. CASE Post(Main, None, Ready)
    BY <1>1, <2>1, PostNames
  <2>2. CASE sent' = sent
    BY <2>2
  <2> QED BY <2>1, <2>2 DEF AutoDone
<1> QED BY <1>2, <1>4, <1>5, StartHands

LEMMA AppRunHands ==
  ASSUME IInv, TypeOK', HandInv, AppRun
  PROVE  HandInv'
<1>1. \A s \in Threads : mbox'[s] = Append(mbox[s], Auto1("auto"))
  BY DEF AppRun
<1>2. UNCHANGED <<hands, sent, ranlog, called>>
  BY DEF AppRun, tables, done
<1> QED BY <1>1, <1>2, StartHands

\* In the beginning there is no job, and every step keeps the invariant.
LEMMA HandInit == Init => HandInv
<1> SUFFICES ASSUME Init, NEW t \in Threads PROVE Apart(ranlog[t], called[t], mbox[t]) /\ Valid(t)
  BY DEF HandInv
<1>1. ranlog[t] = <<>> /\ called[t] = <<>> /\ mbox[t] = <<>>
  BY DEF Init
<1>2. Len(<<>>) = 0 /\ \A i \in 1 .. 0 : FALSE
  OBVIOUS
<1> QED BY <1>1, <1>2 DEF Apart, Valid

LEMMA NextHands == IInv /\ HandInv /\ [Next]_vars => HandInv'
<1> SUFFICES ASSUME IInv, HandInv, [Next]_vars PROVE HandInv'
  OBVIOUS
<1>1. IInv' /\ TypeOK' /\ TypeOK
  BY NextInv DEF IInv
<1>2. hands' = hands => Extends(hands', hands)
  BY <1>1, SameExtends
<1>3. ASSUME NEW t \in Threads, NEW n \in Listens, CppListen(t, n) \/ LuaListen(t, n)
      PROVE  HandInv'
  <2>1. n \in Names
    BY NamesAssumption
  <2>2. Extends(hands', hands)
    BY <1>1, <1>3, <2>1, AddHandMore, DoListenType DEF CppListen, LuaListen
  <2>3. UNCHANGED <<mbox, sent, ranlog, called>>
    BY <1>3 DEF CppListen, LuaListen, done
  <2> QED BY <1>1, <2>2, <2>3, QuietHands
<1>4. ASSUME NEW t \in Threads, NEW n \in Names, AutoListen(t, n) PROVE HandInv'
  <2>1. Extends(hands', hands)
    BY <1>1, <1>4, DoListenType DEF AutoListen
  <2>2. UNCHANGED <<mbox, sent, ranlog, called>>
    BY <1>4 DEF AutoListen, done
  <2> QED BY <1>1, <2>1, <2>2, QuietHands
<1>5. ASSUME NEW t \in Threads, NEW s \in Sends, SendTo(t, s.rid, s.name) PROVE HandInv'
  <2>1. UNCHANGED <<hands, mbox, ranlog, called>>
    BY <1>5 DEF SendTo, tables, done
  <2>2. \A m \in 1 .. Len(sent) : sent'[m].name = sent[m].name
    BY <1>1, <1>5, PostNames DEF SendTo
  <2> QED BY <1>1, <1>2, <2>1, <2>2, QuietHands
<1>6. ASSUME \/ \E t \in Threads, n \in Listens : LuaSend(t, n)
             \/ \E t \in Threads, o \in Objects : EnterCt(t, o) \/ LeaveCt(t, o)
             \/ \E t \in Threads : RunAuto(t)
             \/ Rest
             \/ UNCHANGED vars
      PROVE  HandInv'
  <2>1. UNCHANGED <<hands, mbox, sent, ranlog, called>>
    BY <1>6 DEF LuaSend, EnterCt, LeaveCt, RunAuto, Rest, vars, tables, done
  <2> QED BY <1>1, <1>2, <2>1, QuietHands
<1> QED BY <1>1, <1>3, <1>4, <1>5, <1>6, DoSendHands, RunMsgHands, AutoEndHands, AutoDoneHands,
     AppRunHands DEF Next

\* A set any two elements of which are the same has one at most.
LEMMA OneAtMost ==
  ASSUME NEW S, \A x, y \in S : x = y
  PROVE  Cardinality(S) <= 1
<1>1. CASE S = {}
  BY <1>1, FS_EmptySet
<1>2. CASE S # {}
  <2>1. PICK x : S = {} \cup {x} /\ x \notin {}
    BY <1>2
  <2> QED BY <2>1, FS_EmptySet, FS_AddElement
<1> QED BY <1>1, <1>2

\* A C++ handler is called once at most for a message, and a callback of Lua as often as
\* its thread has handlers of Lua at most, for any threads and whatever they listen to;
\* once if the message is to an object that stays where it is.
THEOREM CallsAreRight == Spec => []CalledOnce
<1>1. ASSUME IInv, HandInv, NEW m \in 1 .. Len(sent), NEW t \in Threads, NEW id, id = Crc[sent[m].name]
      PROVE  /\ \A h \in DOMAIN hands[id][t] : HandlerCalls(t, m, h) <= 1
             /\ \A cb \in 1 .. LuaHands(t, id) :
                   CallbackCalls(t, m, cb) <= IF stays[m] = None THEN LuaHands(t, id) ELSE 1
  <2>1. TypeOK /\ StaysPut /\ Valid(t) /\ Apart(ranlog[t], called[t], mbox[t])
    BY <1>1 DEF IInv, HandInv
  <2>0. PICK cal : cal = called[t]
    OBVIOUS
  <2>2. PICK log \in Seq(Nat) : log = ranlog[t] /\ cal = called[t]
    BY <2>0, <2>1, Shapes
  <2>3. PICK all \in Seq({"cpp", "lua"}) : all = HandsOf(t, m) /\ all = hands[id][t]
    <3>1. HandsOf(t, m) = hands[id][t]
      BY <1>1 DEF HandsOf
    <3> QED BY <2>1, <3>1, HandsOfType, Zenon
  <2>4. \A i, j \in 1 .. Len(log) : log[i] = m /\ log[j] = m /\ cal[i].hand = cal[j].hand => i = j
    BY <2>1, <2>2 DEF Apart
  <2>5. ASSUME NEW h PROVE HandlerCalls(t, m, h) <= 1
    <3>1. PICK S : S = {j \in 1 .. Len(log) : log[j] = m /\ cal[j].hand = h}
      OBVIOUS
    <3>2. \A x, y \in S : x = y
      BY <2>4, <3>1
    <3>3. Cardinality(S) <= 1
      BY <3>2, OneAtMost
    <3> QED BY <2>2, <3>1, <3>3 DEF HandlerCalls
  <2>6. ASSUME NEW cb
        PROVE  CallbackCalls(t, m, cb) <= IF stays[m] = None THEN LuaHands(t, id) ELSE 1
    <3>1. PICK S : S = {j \in 1 .. Len(log) : log[j] = m /\ cb \in cal[j].cbs}
      OBVIOUS
    <3>2. CallbackCalls(t, m, cb) = Cardinality(S)
      BY <2>2, <3>1 DEF CallbackCalls
    <3>3. CASE stays[m] = None
      <4>1. PICK T : T = {h \in 1 .. Len(all) : all[h] \in {"lua"}}
        OBVIOUS
      <4>2. IsFiniteSet(T) /\ LuaHands(t, id) = Cardinality(T)
        BY <2>3, <4>1, PlacesFinite DEF LuaHands, Count
      <4>3. PICK f : f = [j \in S |-> cal[j].hand]
        OBVIOUS
      <4>4. \A j \in S : cal[j].hand \in T
        <5> SUFFICES ASSUME NEW j \in S PROVE cal[j].hand \in T
          OBVIOUS
        <5>1. j \in 1 .. Len(ranlog[t]) /\ ranlog[t][j] = m /\ called[t][j].cbs # {}
          BY <2>2, <3>1
        <5>2. called[t][j].hand \in 1 .. Len(HandsOf(t, m)) /\ HandsOf(t, m)[called[t][j].hand] = "lua"
          BY <2>1, <5>1, Zenon DEF Valid
        <5> QED BY <2>2, <2>3, <4>1, <5>2
      <4>5. f \in [S -> T]
        BY <4>3, <4>4
      <4>6. \A a, b \in S : f[a] = f[b] => a = b
        BY <2>4, <3>1, <4>3
      <4>7. Cardinality(S) <= Cardinality(T)
        BY <4>2, <4>5, <4>6, Fun_IsInj, FS_Injection
      <4> QED BY <3>2, <3>3, <4>2, <4>7
    <3>4. CASE stays[m] # None
      <4>1. JobsOn(t, m) <= IF t = stays[m] THEN 1 ELSE 0
        BY <1>1, <2>1, <3>4 DEF StaysPut
      <4>2. PICK a \in Nat, b \in Nat : a = Count(ranlog[t], {m}) /\ b = Count(mbox[t], JobsFor(m))
        BY <2>1, <2>2, PlacesFinite, CountTypes
      <4>3. a <= 1
        <5>1. a + b <= 1
          BY <4>1, <4>2 DEF JobsOn
        <5> QED BY <4>2, <5>1
      <4>4. PICK T : T = {j \in 1 .. Len(log) : log[j] \in {m}}
        OBVIOUS
      <4>5. IsFiniteSet(T) /\ Cardinality(T) = a
        BY <2>2, <4>2, <4>4, PlacesFinite DEF Count
      <4>6. S \in SUBSET T
        BY <3>1, <4>4
      <4>7. PICK c \in Nat : c = Cardinality(S) /\ c <= a
        BY <4>5, <4>6, FS_Subset, FS_CardinalityType
      <4>8. c <= 1
        BY <4>2, <4>3, <4>7
      <4> QED BY <3>2, <3>4, <4>7, <4>8
    <3> QED BY <3>3, <3>4
  <2> QED BY <2>5, <2>6
<1>2. IInv /\ HandInv => CalledOnce
  BY <1>1 DEF CalledOnce
<1> QED BY <1>2, HandInit, NextHands, Inductive, PTL DEF Spec

-----------------------------------------------------------------------------
(* smsg_ready.                                                             *)

\* Nobody but aapp_run sends smsg_ready.
OnlyAppAnnounces == \A s \in Sends : s.name # Ready

ReadyInv == Cardinality(Announced) <= 1 /\ (~Posted => Announced = {})

\* Once it is sent, every thread has listened, and the start is over.
LEMMA AllListened ==
  ASSUME IInv, Posted
  PROVE  /\ Pending = {} /\ \A t \in Threads : boot[t] \in {"over", "aborted"}
         /\ \A t \in Threads : Count(mbox[t], {Auto1("auto")}) = 0
         /\ Count(mbox[Main], {Auto1("ack")}) = 0
<1>1. TypeOK /\ BootInv /\ Main \in Threads
  BY NamesAssumption DEF IInv
<1>2. PICK a \in Nat, b \in Nat :
         a = Cardinality(Pending) /\ b = Count(mbox[Main], {Auto1("ack")})
  BY <1>1, PendingFinite, CountTypes
<1>3. a + b = 0
  BY <1>2 DEF IInv, AckInv, Posted
<1>4. a = 0 /\ b = 0
  BY <1>2, <1>3
<1>5. Pending = {}
  BY <1>2, <1>4, PendingFinite, FS_EmptySet
<1>6. \A t \in Threads : boot[t] # "before"
  BY <1>1 DEF BootInv, Posted
<1>7. \A t \in Threads : boot[t] \in {"over", "aborted"}
  BY <1>1, <1>5, <1>6 DEF Pending, TypeOK
<1>8. \A t \in Threads : Count(mbox[t], {Auto1("auto")}) = 0
  BY <1>1, <1>5 DEF BootInv
<1> QED BY <1>2, <1>4, <1>5, <1>7, <1>8

\* After smsg_ready is sent, no step of the start is possible any more.
LEMMA StartIsOver ==
  ASSUME IInv, Posted, [Next]_vars
  PROVE  Posted'
<1>1. TypeOK /\ BootInv /\ Main \in Threads
  BY NamesAssumption DEF IInv
<1>2. \A t \in Threads : boot[t] \in {"over", "aborted"}
  BY AllListened
<1>3. ~AppRun
  BY <1>1, <1>2 DEF AppRun, done
<1>4. ASSUME NEW t \in Threads PROVE ~AutoEnd(t) /\ ~RunAuto(t)
  <2>1. ~AutoEnd(t)
    BY <1>2 DEF AutoEnd, done
  <2>2. ASSUME RunAuto(t) PROVE FALSE
    <3>1. PICK box \in Seq(Job) : box = mbox[t] /\ 1 \in 1 .. Len(box) /\ box[1] = Auto1("auto")
      BY <1>1, <2>2, Shapes, FirstJob DEF RunAuto, done
    <3>2. Count(box, {box[1]}) >= 1
      BY <3>1, CountThere
    <3>3. Count(mbox[t], {Auto1("auto")}) = 0
      BY AllListened
    <3> QED BY <3>1, <3>2, <3>3
  <2> QED BY <2>1, <2>2
<1>5. ASSUME AutoDone PROVE FALSE
  <2>1. mbox[Main] # <<>> /\ Head(mbox[Main]) = Auto1("ack")
    BY <1>1, <1>5, FirstJob DEF AutoDone, done
  <2>2. acks >= 1
    BY <2>1, ResultWaits
  <2> QED BY <2>2 DEF Posted
<1>6. UNCHANGED <<boot, acks>>
  BY <1>3, <1>4, <1>5 DEF Next, CppListen, LuaListen, LuaSend, EnterCt, LeaveCt, SendTo, DoSend,
     RunMsg, AutoListen, Rest, vars, start
<1> QED BY <1>6 DEF Posted

\* Every step keeps what is known of smsg_ready.
LEMMA NextReady ==
  ASSUME OnlyAppAnnounces, IInv, ReadyInv, [Next]_vars
  PROVE  ReadyInv'
<1>1. TypeOK /\ BootInv /\ Main \in Threads
  BY NamesAssumption DEF IInv
<1>2. PICK k \in Nat : k = Len(sent)
  BY <1>1, Shapes
<1>3. Posted => Posted'
  BY StartIsOver
<1>4. CASE sent' = sent
  BY <1>3, <1>4 DEF ReadyInv, Announced
<1>5. ASSUME NEW t \in Threads, NEW rid, NEW n \in Names, Post(t, rid, n)
      PROVE  Announced' = IF n = Ready THEN Announced \cup {k + 1} ELSE Announced
  <2>0. PICK msg : msg = [rid |-> rid, name |-> n, from |-> t]
    OBVIOUS
  <2>1. msg.name = n
    BY <2>0
  <2>2. sent' = Append(sent, msg)
    BY <1>5, <2>0 DEF Post
  <2>3. Len(sent') = k + 1 /\ sent'[k + 1] = msg /\ \A i \in 1 .. k : sent'[i] = sent[i]
    BY <1>1, <1>2, <2>2 DEF TypeOK
  <2>4. 1 .. k + 1 = (1 .. k) \cup {k + 1}
    BY <1>2
  <2>5. k + 1 \notin 1 .. k
    BY <1>2
  <2> QED BY <1>2, <2>1, <2>3, <2>4, <2>5 DEF Announced
<1>6. ASSUME NEW t \in Threads, NEW s \in Sends, SendTo(t, s.rid, s.name) PROVE ReadyInv'
  <2>1. s.name # Ready /\ s.name \in Names
    BY NamesAssumption DEF OnlyAppAnnounces
  <2>2. Announced' = Announced
    BY <1>5, <1>6, <2>1 DEF SendTo, done
  <2> QED BY <1>3, <2>2 DEF ReadyInv
<1>7. CASE AutoDone
  <2>1. mbox[Main] # <<>> /\ Head(mbox[Main]) = Auto1("ack")
    BY <1>1, <1>7, FirstJob DEF AutoDone, done
  <2>2. acks >= 1 /\ acks \in Nat
    BY <2>1, ResultWaits
  <2>3. Announced = {}
    BY <2>2 DEF ReadyInv, Posted
  <2>4. CASE acks = 1
    <3>1. Post(Main, None, Ready) /\ Ready \in Names /\ Posted'
      BY <1>7, <2>4, NamesAssumption DEF AutoDone, JobIsOk, Posted, Executes, done
    <3>2. Announced' = {k + 1}
      BY <1>1, <1>5, <2>3, <3>1
    <3>3. Cardinality({k + 1}) = 1
      BY FS_EmptySet, FS_AddElement
    <3> QED BY <3>1, <3>2, <3>3 DEF ReadyInv
  <2>5. CASE acks # 1
    BY <1>4, <1>7, <2>5 DEF AutoDone, JobIsOk, done
  <2> QED BY <2>4, <2>5
<1>8. CASE sent' # sent
  BY <1>6, <1>7, <1>8 DEF Next, CppListen, LuaListen, LuaSend, EnterCt, LeaveCt, DoSend,
     RunMsg, RunAuto, AutoListen, AutoEnd, AppRun, Rest, vars
<1> QED BY <1>4, <1>8

\* smsg_ready comes once, and after every Lua thread has listened or failed to, for any
\* number of threads and whatever they find to listen to, if no user sends a message
\* of this name.
THEOREM ReadyComesLast ==
  ASSUME OnlyAppAnnounces
  PROVE  Spec => []ReadyAfterAll
<1>1. Init => ReadyInv
  <2> SUFFICES ASSUME Init PROVE ReadyInv
    OBVIOUS
  <2>1. Announced = {}
    BY DEF Init, Announced
  <2> QED BY <2>1, FS_EmptySet DEF ReadyInv
<1>2. IInv /\ ReadyInv /\ [Next]_vars => ReadyInv'
  BY NextReady
<1>3. IInv /\ ReadyInv => ReadyAfterAll
  <2> SUFFICES ASSUME IInv, ReadyInv PROVE ReadyAfterAll
    OBVIOUS
  <2>1. Announced # {} => \A t \in Threads : boot[t] \in {"over", "aborted"}
    BY AllListened DEF ReadyInv
  <2> QED BY <2>1 DEF ReadyInv, ReadyAfterAll
<1> QED BY <1>1, <1>2, <1>3, Inductive, PTL DEF Spec
=============================================================================
