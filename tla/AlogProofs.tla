----------------------------- MODULE AlogProofs -----------------------------
(***************************************************************************)
(* Proofs about Alog, for any threads, files, levels and bounds: items are *)
(* written once and in order, stop() waits for all that came before it,    *)
(* item_count_ is exact, and which file an item is in.                     *)
(***************************************************************************)
EXTENDS Alog, TLAPS

\* The i-th item that came into the list, where it is now.
Stage(i) ==
    IF i <= Len(written) THEN written[i]
    ELSE IF i <= Len(written) + Len(batch) THEN batch[i - Len(written)]
    ELSE queue[i - Len(written) - Len(batch)]

\* The only end item is that of stop().
EndInv ==
    /\ endAt = 0 <=> mpc \in {"start", "notify", "up", "append"}
    /\ \A i \in 1 .. Len(appended) : IsEnd(appended[i]) <=> i = endAt

\* Where the log thread is in its batch, and what stop() knows of it.
ThreadInv ==
    /\ lpc # "loop" => batch = <<>>
    /\ lpc = "ended" => isStop
    /\ mpc \in {"clear", "gone"} => lpc = "ended"

FlowInv ==
    /\ ~isStop =>
          /\ Len(appended) = Len(written) + Len(batch) + Len(queue)
          /\ \A i \in 1 .. Len(appended) : appended[i] = Stage(i)
    /\ isStop =>
          /\ endAt > 0
          /\ Len(written) = endAt - 1
          /\ \A i \in 1 .. endAt - 1 : appended[i] = written[i]

IInv == TypeOK /\ EndInv /\ ThreadInv /\ FlowInv /\ CountExact

-----------------------------------------------------------------------------
\* An item of alog_print is never taken for that of stop().
LEMMA ItemIsNotEnd == \A it \in Item : ~IsEnd(it)
BY BoundsAssumption DEF Item, IsEnd

LEMMA EndIsEnd == IsEnd(End)
BY DEF IsEnd, End

\* A step that touches no list keeps what is said of the lists.
LEMMA Frame ==
  ASSUME IInv, UNCHANGED <<lists, batch, isStop, written>>,
         lpc' # "loop" => batch = <<>>,
         lpc' = "ended" => isStop,
         mpc' \in {"clear", "gone"} => lpc' = "ended",
         mpc' = "gone" <=> mpc = "gone",
         mpc' \in {"start", "notify", "up", "append"} <=> mpc \in {"start", "notify", "up", "append"}
  PROVE  EndInv' /\ ThreadInv' /\ FlowInv' /\ CountExact'
<1> USE DEF IInv, lists
<1>1. EndInv'
  BY DEF EndInv
<1>2. ThreadInv'
  BY DEF ThreadInv
<1>3. FlowInv'
  BY DEF FlowInv, Stage
<1>4. CountExact'
  BY DEF CountExact, ThreadInv
<1> QED BY <1>1, <1>2, <1>3, <1>4

LEMMA InitInv == Init => IInv
<1> SUFFICES ASSUME Init PROVE IInv
  OBVIOUS
<1> USE DEF Init
<1>1. TypeOK
  <2>1. opened \in [Files -> File]
    BY DEF File, Closed
  <2>2. /\ \A f \in Files : ~opened[f].fp
        /\ mine \in [Printers -> Item \cup {End}]
        /\ ppc \in [Printers -> {"out", "append"}]
        /\ \A p \in Printers : ppc[p] # "append"
    BY DEF Closed
  <2>3. /\ queue \in Seq(Item \cup {End}) /\ batch \in Seq(Item \cup {End})
        /\ appended \in Seq(Item \cup {End}) /\ written \in Seq(Item)
        /\ dests \in Seq(File) /\ Len(dests) = Len(written) /\ endAt \in 0 .. Len(appended)
    OBVIOUS
  <2>4. /\ clock \in 1 .. MaxClock /\ prints \in 0 .. MaxPrints
        /\ files \subseteq Files /\ growing \in Files \cup {None}
        /\ itemCount \in Int /\ itemCount >= -1
    BY FilesAssumption, BoundsAssumption
  <2> QED BY <2>1, <2>2, <2>3, <2>4 DEF TypeOK
<1>2. EndInv /\ ThreadInv /\ FlowInv /\ CountExact
  BY DEF EndInv, ThreadInv, FlowInv, CountExact
<1> QED BY <1>1, <1>2 DEF IInv

-----------------------------------------------------------------------------
(* Calls of alog_print and alog_addfile, and the clock.                    *)

LEMMA TickStep == ASSUME IInv, Tick PROVE IInv'
<1> USE DEF Tick, lists, logging, calls, flags, vec
<1>1. TypeOK'
  BY BoundsAssumption DEF IInv, TypeOK
<1> QED BY <1>1, Frame DEF IInv, ThreadInv

LEMMA MakeItemStep == ASSUME IInv, NEW p \in Printers, MakeItem(p) PROVE IInv'
<1> USE DEF MakeItem, lists, logging, flags, env, vec
<1>1. PICK f \in files, l \in Levels :
         mine' = [mine EXCEPT ![p] =
                    [by |-> p, n |-> prints', file |-> f, level |-> l, time |-> clock]]
  OBVIOUS
<1>2. prints' \in 1 .. MaxPrints
  BY BoundsAssumption DEF IInv, TypeOK
<1>3. mine' \in [Printers -> Item \cup {End}] /\ mine'[p] \in Item
  BY <1>1, <1>2 DEF IInv, TypeOK, Item
<1>4. \A q \in Printers : ppc'[q] = "append" => mine'[q] \in Item
  BY <1>1, <1>3 DEF IInv, TypeOK
<1>5. TypeOK'
  BY <1>2, <1>3, <1>4 DEF IInv, TypeOK
<1> QED BY <1>5, Frame DEF IInv, ThreadInv

LEMMA AppendLateStep == ASSUME IInv, NEW p \in Printers, AppendLate(p) PROVE IInv'
<1> USE DEF AppendLate, lists, logging, flags, vec
<1>1. TypeOK'
  BY DEF IInv, TypeOK
<1> QED BY <1>1, Frame DEF IInv, ThreadInv

LEMMA AddFileStep == ASSUME IInv, NEW f \in Files, AddFile(f) PROVE IInv'
<1> USE DEF AddFile, lists, logging, calls, flags, env
<1>1. TypeOK'
  BY DEF IInv, TypeOK
<1> QED BY <1>1, Frame DEF IInv, ThreadInv

LEMMA FileAddedStep == ASSUME IInv, FileAdded PROVE IInv'
<1> USE DEF FileAdded, lists, logging, calls, flags, env
<1>1. TypeOK'
  BY DEF IInv, TypeOK
<1> QED BY <1>1, Frame DEF IInv, ThreadInv

\* The list grows at its end, by an item or by the item of stop().
LEMMA PutLastStep ==
  ASSUME IInv, NEW it \in Item \cup {End}, PutLast(it),
         UNCHANGED <<batch, isStop, written>>,
         endAt' = IF IsEnd(it) THEN Len(appended') ELSE endAt,
         IsEnd(it) => endAt = 0
  PROVE  /\ queue' \in Seq(Item \cup {End}) /\ appended' \in Seq(Item \cup {End})
         /\ Len(queue') = Len(queue) + 1
         /\ endAt' \in 0 .. Len(appended')
         /\ IsEnd(it) => endAt' > 0
         /\ \A i \in 1 .. Len(appended') : IsEnd(appended'[i]) <=> i = endAt'
         /\ FlowInv'
<1>1. /\ queue \in Seq(Item \cup {End}) /\ appended \in Seq(Item \cup {End})
      /\ batch \in Seq(Item \cup {End}) /\ written \in Seq(Item)
      /\ endAt \in 0 .. Len(appended)
  BY DEF IInv, TypeOK
<1>2. /\ queue' = Append(queue, it) /\ appended' = Append(appended, it)
  BY DEF PutLast
<1>3. /\ queue' \in Seq(Item \cup {End}) /\ appended' \in Seq(Item \cup {End})
      /\ Len(queue') = Len(queue) + 1 /\ Len(appended') = Len(appended) + 1
      /\ \A i \in 1 .. Len(queue) : queue'[i] = queue[i]
      /\ queue'[Len(queue) + 1] = it
      /\ \A i \in 1 .. Len(appended) : appended'[i] = appended[i]
      /\ appended'[Len(appended) + 1] = it
  BY <1>1, <1>2
<1>4. /\ Len(queue) \in Nat /\ Len(appended) \in Nat /\ Len(batch) \in Nat /\ Len(written) \in Nat
  BY <1>1
<1>5. endAt' \in 0 .. Len(appended') /\ (IsEnd(it) => endAt' > 0)
  BY <1>1, <1>3, <1>4
<1>6. \A i \in 1 .. Len(appended') : IsEnd(appended'[i]) <=> i = endAt'
  <2>1. \A i \in 1 .. Len(appended) : IsEnd(appended[i]) <=> i = endAt
    BY DEF IInv, EndInv
  <2>2. TAKE i \in 1 .. Len(appended')
  <2>3. CASE i = Len(appended) + 1
    <3>1. endAt # i
      BY <1>1, <1>4, <2>3
    <3> QED BY <1>3, <2>3, <3>1
  <2>4. CASE i # Len(appended) + 1
    <3>1. i \in 1 .. Len(appended)
      BY <1>3, <1>4, <2>2, <2>4
    <3>2. IsEnd(appended'[i]) <=> i = endAt
      BY <1>3, <2>1, <3>1
    <3> QED BY <1>3, <1>4, <2>4, <3>1, <3>2
  <2> QED BY <2>3, <2>4
<1>7. FlowInv'
  <2>0. batch' = batch /\ isStop' = isStop /\ written' = written
    OBVIOUS
  <2>1. CASE ~isStop
    <3>1. Len(appended) = Len(written) + Len(batch) + Len(queue)
      BY <2>1 DEF IInv, FlowInv
    <3>2. \A i \in 1 .. Len(appended) : appended'[i] = Stage(i)'
      <4>1. TAKE i \in 1 .. Len(appended)
      <4>2. appended'[i] = Stage(i)
        BY <1>3, <2>1 DEF IInv, FlowInv
      <4>3. CASE i <= Len(written) + Len(batch)
        BY <1>4, <2>0, <4>2, <4>3 DEF Stage
      <4>4. CASE i > Len(written) + Len(batch)
        <5>1. i - Len(written) - Len(batch) \in 1 .. Len(queue)
          BY <1>4, <3>1, <4>4
        <5>2. /\ Stage(i) = queue[i - Len(written) - Len(batch)]
              /\ Stage(i)' = queue'[i - Len(written) - Len(batch)]
          BY <1>4, <2>0, <4>4 DEF Stage
        <5> QED BY <1>3, <4>2, <5>1, <5>2
      <4> QED BY <1>4, <4>3, <4>4
    <3>3. \A i \in 1 .. Len(appended') : appended'[i] = Stage(i)'
      <4>1. TAKE i \in 1 .. Len(appended')
      <4>2. CASE i = Len(appended) + 1
        <5>1. /\ i > Len(written) + Len(batch)
              /\ i - Len(written) - Len(batch) = Len(queue) + 1
          BY <1>4, <3>1, <4>2
        <5>2. Stage(i)' = queue'[i - Len(written) - Len(batch)]
          BY <1>4, <2>0, <5>1 DEF Stage
        <5> QED BY <1>3, <4>2, <5>1, <5>2
      <4>3. CASE i # Len(appended) + 1
        <5>1. i \in 1 .. Len(appended)
          BY <1>3, <1>4, <4>3
        <5> QED BY <3>2, <5>1
      <4> QED BY <4>2, <4>3
    <3> QED BY <1>3, <1>4, <2>0, <2>1, <3>1, <3>3 DEF FlowInv
  <2>2. CASE isStop
    <3>1. /\ endAt > 0 /\ Len(written) = endAt - 1
          /\ \A i \in 1 .. endAt - 1 : appended[i] = written[i]
      BY <2>2 DEF IInv, FlowInv
    <3>2. endAt' = endAt
      BY <1>1, <3>1
    <3>3. \A i \in 1 .. endAt - 1 : appended'[i] = written[i]
      BY <1>1, <1>3, <1>4, <3>1
    <3> QED BY <2>0, <2>2, <3>1, <3>2, <3>3 DEF FlowInv
  <2> QED BY <2>1, <2>2 DEF IInv, TypeOK
<1> QED BY <1>3, <1>5, <1>6, <1>7

LEMMA AppendItemStep == ASSUME IInv, NEW p \in Printers, AppendItem(p) PROVE IInv'
<1> USE DEF AppendItem, flags, env, vec
<1>1. mine[p] \in Item /\ ~IsEnd(mine[p])
  BY ItemIsNotEnd DEF IInv, TypeOK
<1>2. /\ queue' \in Seq(Item \cup {End}) /\ appended' \in Seq(Item \cup {End})
      /\ Len(queue') = Len(queue) + 1
      /\ endAt' \in 0 .. Len(appended')
      /\ \A i \in 1 .. Len(appended') : IsEnd(appended'[i]) <=> i = endAt'
      /\ FlowInv'
  BY <1>1, PutLastStep
<1>3. lpc' = lpc \/ (lpc = "asleep" /\ lpc' = "get")
  BY DEF Notified
<1>4. TypeOK'
  BY <1>2, <1>3 DEF IInv, TypeOK
<1>5. EndInv' /\ ThreadInv'
  BY <1>2, <1>3 DEF IInv, EndInv, ThreadInv
<1>6. CountExact'
  BY <1>2 DEF IInv, TypeOK, CountExact
<1> QED BY <1>2, <1>4, <1>5, <1>6 DEF IInv

-----------------------------------------------------------------------------
(* The log thread.                                                         *)

LEMMA LoopTestStep == ASSUME IInv, LoopTest PROVE IInv'
<1> USE DEF LoopTest, lists, calls, flags, env, vec
<1>1. TypeOK'
  BY DEF IInv, TypeOK
<1>2. lpc' = "ended" => isStop
  BY DEF GoesOn
<1>3. mpc \notin {"clear", "gone"}
  BY DEF IInv, ThreadInv
<1> QED BY <1>1, <1>2, <1>3, Frame DEF IInv

LEMMA BlocksStep == ASSUME IInv, Blocks PROVE IInv'
<1> USE DEF Blocks, lists, calls, flags, env, vec
<1>1. TypeOK'
  BY DEF IInv, TypeOK
<1> QED BY <1>1, Frame DEF IInv, ThreadInv

LEMMA FallsAsleepStep == ASSUME IInv, FallsAsleep PROVE IInv'
<1> USE DEF FallsAsleep, lists, calls, flags, env, vec
<1>1. TypeOK'
  BY DEF IInv, TypeOK
<1> QED BY <1>1, Frame DEF IInv, ThreadInv

LEMMA WakeSpuriouslyStep == ASSUME IInv, WakeSpuriously PROVE IInv'
<1> USE DEF WakeSpuriously, lists, calls, flags, env, vec
<1>1. TypeOK'
  BY DEF IInv, TypeOK
<1> QED BY <1>1, Frame DEF IInv, ThreadInv

LEMMA WriteRaceStep == ASSUME IInv, WriteRace PROVE IInv'
<1> USE DEF WriteRace, lists, logging, calls, flags, vec
<1>1. TypeOK'
  BY DEF IInv, TypeOK
<1> QED BY <1>1, Frame DEF IInv, ThreadInv

LEMMA GetItemsStep == ASSUME IInv, GetItems PROVE IInv'
<1> USE DEF GetItems, Left, calls, flags, env, vec
<1>1. batch = <<>> /\ mpc \notin {"clear", "gone"}
  BY DEF IInv, ThreadInv
<1>2. TypeOK'
  BY DEF IInv, TypeOK
<1>3. Len(batch) = 0 /\ Len(queue') = 0 /\ Len(batch') = Len(queue) /\ Len(queue) \in Nat
  BY <1>1 DEF IInv, TypeOK
<1>4. EndInv' /\ ThreadInv'
  BY <1>1 DEF IInv, EndInv, ThreadInv
<1>5. FlowInv'
  <2>1. CASE ~isStop
    <3>1. Len(appended) = Len(written) + Len(batch) + Len(queue)
      BY <2>1 DEF IInv, FlowInv
    <3>2. \A i \in 1 .. Len(appended) : Stage(i)' = Stage(i)
      BY <1>3, <3>1 DEF IInv, TypeOK, Stage
    <3> QED BY <1>3, <2>1, <3>1, <3>2 DEF IInv, TypeOK, FlowInv
  <2>2. CASE isStop
    BY <2>2 DEF IInv, FlowInv
  <2> QED BY <2>1, <2>2 DEF IInv, TypeOK
<1>6. CountExact'
  BY <1>1, <1>3 DEF IInv, TypeOK, CountExact
<1> QED BY <1>2, <1>4, <1>5, <1>6 DEF IInv

\* The head of the batch and what remains of it.
LEMMA BatchFacts ==
  ASSUME IInv, batch # <<>>, batch' = Tail(batch)
  PROVE  /\ curr = batch[1] /\ curr \in Item \cup {End}
         /\ batch' \in Seq(Item \cup {End})
         /\ Len(batch) \in Nat \ {0} /\ Len(batch') = Len(batch) - 1
         /\ \A i \in 1 .. Len(batch') : batch'[i] = batch[i + 1]
         /\ Len(written) \in Nat /\ Len(queue) \in Nat /\ Len(appended) \in Nat
<1>1. batch \in Seq(Item \cup {End}) /\ written \in Seq(Item)
  BY DEF IInv, TypeOK
<1>2. queue \in Seq(Item \cup {End}) /\ appended \in Seq(Item \cup {End})
  BY DEF IInv, TypeOK
<1> QED BY <1>1, <1>2 DEF curr

LEMMA WriteStep == ASSUME IInv, Write PROVE IInv'
<1> USE DEF Write, calls, flags, env, vec
<1>1. /\ curr = batch[1] /\ curr \in Item \cup {End}
      /\ batch' \in Seq(Item \cup {End})
      /\ Len(batch) \in Nat \ {0} /\ Len(batch') = Len(batch) - 1
      /\ \A i \in 1 .. Len(batch') : batch'[i] = batch[i + 1]
      /\ Len(written) \in Nat /\ Len(queue) \in Nat /\ Len(appended) \in Nat
  BY BatchFacts
<1>2. ~isStop /\ curr \in Item
  BY <1>1, EndIsEnd DEF Ends
<1>3. /\ written' \in Seq(Item) /\ Len(written') = Len(written) + 1
      /\ \A i \in 1 .. Len(written) : written'[i] = written[i]
      /\ written'[Len(written) + 1] = curr
  BY <1>2 DEF IInv, TypeOK
<1>4. PICK o \in Rotated(curr.file, curr), throws \in BOOLEAN :
         /\ opened' = [opened EXCEPT ![curr.file] = o]
         /\ dests' = Append(dests, IF o.fp /\ ~throws THEN o ELSE Closed)
  OBVIOUS
<1>5. o \in File /\ (o.fp => o.name \in Name)
  BY <1>2, <1>4 DEF Rotated, IInv, TypeOK, File, Name, Item
<1>6. /\ opened' \in [Files -> File]
      /\ \A f \in Files : opened'[f].fp => opened'[f].name \in Name
  BY <1>4, <1>5 DEF IInv, TypeOK
<1>7. dests' \in Seq(File) /\ Len(dests') = Len(written')
  BY <1>3, <1>4, <1>5 DEF IInv, TypeOK, File, Closed
<1>8. mpc \notin {"clear", "gone"}
  BY DEF IInv, ThreadInv
<1>9. CountExact' /\ itemCount' \in Int /\ itemCount' >= -1
  BY <1>1, <1>8 DEF CountExact, IInv, TypeOK, CountDown
<1>10. TypeOK'
  BY <1>1, <1>3, <1>6, <1>7, <1>9 DEF IInv, TypeOK
<1>11. EndInv' /\ ThreadInv'
  BY <1>8 DEF IInv, EndInv, ThreadInv
<1>12. FlowInv'
  <2>1. /\ Len(appended) = Len(written) + Len(batch) + Len(queue)
        /\ \A i \in 1 .. Len(appended) : appended[i] = Stage(i)
    BY <1>2 DEF IInv, FlowInv
  <2>2. \A i \in 1 .. Len(appended) : Stage(i)' = Stage(i)
    <3>1. TAKE i \in 1 .. Len(appended)
    <3>2. CASE i <= Len(written)
      BY <1>1, <1>3, <3>2 DEF Stage
    <3>3. CASE i = Len(written) + 1
      BY <1>1, <1>3, <3>3 DEF Stage
    <3>4. CASE i > Len(written) + 1 /\ i <= Len(written) + Len(batch)
      <4>1. i - Len(written') \in 1 .. Len(batch')
        BY <1>1, <1>3, <3>4
      <4>2. Stage(i)' = batch'[i - Len(written')] /\ Stage(i) = batch[i - Len(written)]
        BY <1>1, <1>3, <3>4, <4>1 DEF Stage
      <4> QED BY <1>1, <1>3, <4>1, <4>2
    <3>5. CASE i > Len(written) + Len(batch)
      BY <1>1, <1>3, <3>5 DEF Stage
    <3> QED BY <1>1, <3>2, <3>3, <3>4, <3>5
  <2>3. ~isStop' /\ UNCHANGED appended
    BY <1>2
  <2>4. Len(appended') = Len(written') + Len(batch') + Len(queue')
    BY <1>1, <1>3, <2>1
  <2>5. \A i \in 1 .. Len(appended') : appended'[i] = Stage(i)'
    BY <2>1, <2>2, <2>3
  <2> QED BY <2>3, <2>4, <2>5 DEF FlowInv
<1> QED BY <1>9, <1>10, <1>11, <1>12 DEF IInv

LEMMA DiscardStep == ASSUME IInv, Discard PROVE IInv'
<1> USE DEF Discard, calls, flags, env, vec
<1>1. /\ curr = batch[1] /\ curr \in Item \cup {End}
      /\ batch' \in Seq(Item \cup {End})
      /\ Len(batch) \in Nat \ {0} /\ Len(batch') = Len(batch) - 1
      /\ Len(written) \in Nat /\ Len(queue) \in Nat /\ Len(appended) \in Nat
  BY BatchFacts
<1>2. mpc \notin {"clear", "gone"}
  BY DEF IInv, ThreadInv
<1>3. CountExact' /\ itemCount' \in Int /\ itemCount' >= -1
  BY <1>1, <1>2 DEF CountExact, IInv, TypeOK, CountDown
<1>4. TypeOK'
  BY <1>1, <1>3 DEF IInv, TypeOK
<1>5. EndInv' /\ ThreadInv'
  BY <1>2 DEF IInv, EndInv, ThreadInv
<1>6. FlowInv'
  <2>1. CASE ~isStop
    <3>1. IsEnd(curr)
      BY <2>1 DEF Ends
    <3>2. /\ Len(appended) = Len(written) + Len(batch) + Len(queue)
          /\ \A i \in 1 .. Len(appended) : appended[i] = Stage(i)
      BY <2>1 DEF IInv, FlowInv
    <3>3. Len(written) + 1 \in 1 .. Len(appended)
      BY <1>1, <3>2
    <3>4. appended[Len(written) + 1] = curr
      BY <1>1, <3>2, <3>3 DEF Stage
    <3>5. endAt = Len(written) + 1
      BY <3>1, <3>3, <3>4 DEF IInv, EndInv
    <3>6. \A i \in 1 .. endAt - 1 : appended[i] = written[i]
      BY <1>1, <3>2, <3>3, <3>5 DEF Stage
    <3> QED BY <1>1, <3>5, <3>6 DEF FlowInv
  <2>2. CASE isStop
    BY <2>2 DEF IInv, FlowInv
  <2> QED BY <2>1, <2>2 DEF IInv, TypeOK
<1> QED BY <1>3, <1>4, <1>5, <1>6 DEF IInv

-----------------------------------------------------------------------------
(* Main.                                                                   *)

LEMMA SetRootStep == ASSUME IInv, SetRoot PROVE IInv'
<1> USE DEF SetRoot, lists, logging, calls, env, vec
<1>1. TypeOK'
  BY DEF IInv, TypeOK
<1> QED BY <1>1, Frame DEF IInv, ThreadInv

LEMMA SetRootNotifyStep == ASSUME IInv, SetRootNotify PROVE IInv'
<1> USE DEF SetRootNotify, Notified, lists, calls, flags, env, vec
<1>1. TypeOK'
  BY DEF IInv, TypeOK
<1> QED BY <1>1, Frame DEF IInv, ThreadInv

LEMMA StopStep == ASSUME IInv, Stop PROVE IInv'
<1> USE DEF Stop, lists, logging, calls, env, vec
<1>1. TypeOK'
  BY DEF IInv, TypeOK
<1> QED BY <1>1, Frame DEF IInv, ThreadInv

LEMMA JoinStep == ASSUME IInv, Join PROVE IInv'
<1> USE DEF Join, lists, logging, calls, flags, env, vec
<1>1. TypeOK'
  BY DEF IInv, TypeOK
<1> QED BY <1>1, Frame DEF IInv, ThreadInv

LEMMA StopAppendStep == ASSUME IInv, StopAppend PROVE IInv'
<1> USE DEF StopAppend, calls, flags, env, vec
<1>1. endAt = 0 /\ IsEnd(End)
  BY EndIsEnd DEF IInv, EndInv
<1>2. /\ queue' \in Seq(Item \cup {End}) /\ appended' \in Seq(Item \cup {End})
      /\ Len(queue') = Len(queue) + 1
      /\ endAt' \in 0 .. Len(appended') /\ endAt' > 0
      /\ \A i \in 1 .. Len(appended') : IsEnd(appended'[i]) <=> i = endAt'
      /\ FlowInv'
  BY <1>1, PutLastStep
<1>3. lpc' = lpc \/ (lpc = "asleep" /\ lpc' = "get")
  BY DEF Notified
<1>4. TypeOK'
  BY <1>2, <1>3 DEF IInv, TypeOK
<1>5. EndInv' /\ ThreadInv'
  BY <1>2, <1>3 DEF IInv, EndInv, ThreadInv
<1>6. CountExact'
  BY <1>1, <1>2 DEF IInv, TypeOK, CountExact
<1> QED BY <1>2, <1>4, <1>5, <1>6 DEF IInv

LEMMA DeleteRestStep == ASSUME IInv, DeleteRest PROVE IInv'
<1> USE DEF DeleteRest, logging, calls, flags, env, vec
<1>1. isStop
  BY DEF IInv, ThreadInv
<1>2. TypeOK'
  BY DEF IInv, TypeOK
<1>3. EndInv' /\ ThreadInv' /\ CountExact'
  BY DEF IInv, EndInv, ThreadInv, CountExact
<1>4. FlowInv'
  BY <1>1 DEF IInv, FlowInv
<1> QED BY <1>2, <1>3, <1>4 DEF IInv

LEMMA StutterStep == ASSUME IInv, UNCHANGED vars PROVE IInv'
<1> USE DEF vars, lists, logging, calls, flags, env, vec
<1>1. TypeOK'
  BY DEF IInv, TypeOK
<1> QED BY <1>1, Frame DEF IInv, ThreadInv

LEMMA NextStep == IInv /\ [Next]_vars => IInv'
<1> SUFFICES ASSUME IInv, [Next]_vars PROVE IInv'
  OBVIOUS
<1>1. CASE Tick
  BY <1>1, TickStep
<1>2. CASE \E p \in Printers : MakeItem(p) \/ Call(p)
  BY <1>2, MakeItemStep, AppendItemStep, AppendLateStep DEF Call
<1>3. CASE (\E f \in Files : AddFile(f)) \/ FileAdded
  BY <1>3, AddFileStep, FileAddedStep
<1>4. CASE LogThread \/ WakeSpuriously
  BY <1>4, LoopTestStep, GetItemsStep, BlocksStep, FallsAsleepStep, WriteStep,
     WriteRaceStep, DiscardStep, WakeSpuriouslyStep DEF LogThread
<1>5. CASE Main
  BY <1>5, SetRootStep, SetRootNotifyStep, StopStep, StopAppendStep, JoinStep,
     DeleteRestStep DEF Main
<1>6. CASE Over \/ UNCHANGED vars
  BY <1>6, StutterStep DEF Over
<1> QED BY <1>1, <1>2, <1>3, <1>4, <1>5, <1>6 DEF Next

THEOREM Inductive == Spec => []IInv
<1>1. Init => IInv
  BY InitInv
<1>2. IInv /\ [Next]_vars => IInv'
  BY NextStep
<1> QED BY <1>1, <1>2, PTL DEF Spec

-----------------------------------------------------------------------------
\* Every variable keeps its type, and item_count_ is short of the items in the
\* list by the uncounted item of stop() at most.
THEOREM TypeCorrect == Spec => []TypeOK
<1>1. IInv => TypeOK
  BY DEF IInv
<1> QED BY <1>1, Inductive, PTL

\* item_count_, which threads increment under mtx_ and the log thread decrements
\* without it, is exact.
THEOREM CountIsExact == Spec => []CountExact
<1>1. IInv => CountExact
  BY DEF IInv
<1> QED BY <1>1, Inductive, PTL

\* A sequence that is three others, index by index, is their concatenation.
LEMMA ThreeParts ==
  ASSUME NEW S, NEW a \in Seq(S), NEW b \in Seq(S), NEW c \in Seq(S), NEW d \in Seq(S),
         Len(d) = Len(a) + Len(b) + Len(c),
         \A i \in 1 .. Len(d) :
            d[i] = IF i <= Len(a) THEN a[i]
                   ELSE IF i <= Len(a) + Len(b) THEN b[i - Len(a)]
                   ELSE c[i - Len(a) - Len(b)]
  PROVE  a \o b \o c = d
<1>1. /\ a \o b \in Seq(S) /\ Len(a \o b) = Len(a) + Len(b)
      /\ \A i \in 1 .. Len(a) + Len(b) :
            (a \o b)[i] = IF i <= Len(a) THEN a[i] ELSE b[i - Len(a)]
  OBVIOUS
<1>2. /\ (a \o b) \o c \in Seq(S) /\ Len((a \o b) \o c) = Len(d)
      /\ \A i \in 1 .. Len(d) :
            ((a \o b) \o c)[i] = IF i <= Len(a) + Len(b) THEN (a \o b)[i]
                                   ELSE c[i - Len(a) - Len(b)]
  BY <1>1
<1>3. \A i \in 1 .. Len(d) : ((a \o b) \o c)[i] = d[i]
  BY <1>1, <1>2
<1> DEFINE e == (a \o b) \o c
<1>4. e \in Seq(S) /\ Len(e) = Len(d) /\ \A i \in 1 .. Len(d) : e[i] = d[i]
  BY <1>2, <1>3
<1> HIDE DEF e
<1>5. e = d
  BY <1>4
<1> QED BY <1>5 DEF e

\* Items are written once, in the order in which they came into the list, and
\* none behind the item of stop().
THEOREM WrittenInOrder == Spec => []InOrder
<1>1. IInv => InOrder
  <2> SUFFICES ASSUME IInv PROVE InOrder
    OBVIOUS
  <2>1. /\ written \in Seq(Item \cup {End}) /\ batch \in Seq(Item \cup {End})
        /\ queue \in Seq(Item \cup {End}) /\ appended \in Seq(Item \cup {End})
        /\ endAt \in 0 .. Len(appended)
    BY DEF IInv, TypeOK
  <2>2. CASE ~isStop
    <3>1. /\ Len(appended) = Len(written) + Len(batch) + Len(queue)
          /\ \A i \in 1 .. Len(appended) : appended[i] = Stage(i)
      BY <2>2 DEF IInv, FlowInv
    <3>2. written \o batch \o queue = appended
      BY <2>1, <3>1, ThreeParts DEF Stage
    <3> QED BY <2>2, <3>2 DEF InOrder
  <2>3. CASE isStop
    <3>1. /\ endAt > 0 /\ Len(written) = endAt - 1
          /\ \A i \in 1 .. endAt - 1 : appended[i] = written[i]
      BY <2>3 DEF IInv, FlowInv
    <3>2. /\ SubSeq(appended, 1, endAt - 1) \in Seq(Item \cup {End})
          /\ Len(SubSeq(appended, 1, endAt - 1)) = endAt - 1
          /\ \A i \in 1 .. endAt - 1 : SubSeq(appended, 1, endAt - 1)[i] = appended[i]
      BY <2>1, <3>1
    <3>3. written = SubSeq(appended, 1, endAt - 1)
      BY <2>1, <3>1, <3>2
    <3> QED BY <2>3, <3>3 DEF InOrder
  <2> QED BY <2>2, <2>3
<1> QED BY <1>1, Inductive, PTL

\* When stop() has joined the log thread, all that came before it is written.
THEOREM StopWaitsForAll == Spec => []NothingLost
<1>1. IInv => NothingLost
  BY DEF IInv, TypeOK, ThreadInv, FlowInv, NothingLost
<1> QED BY <1>1, Inductive, PTL

-----------------------------------------------------------------------------
(* The files that items go to.                                             *)

\* The file that is open was opened for an item of which all since then have had the
\* level and the hour of the day.
FileInv ==
    \A f \in Files :
       opened[f].fp =>
          \E k \in 1 .. Len(written) : OpenedBy(f, opened[f].name, k, Len(written))

\* An item that goes to a file goes to the one that is open after it.
LEMMA WriteFiles ==
  ASSUME IInv, FileInv, RightFile, Write
  PROVE  FileInv' /\ RightFile'
<1>1. PICK n \in Nat :
         /\ n = Len(written) /\ written \in Seq(Item) /\ dests \in Seq(File)
         /\ Len(dests) = n
  BY DEF IInv, TypeOK
<1>2. PICK it \in Item : it = curr /\ it.file \in Files
  <2>1. batch \in Seq(Item \cup {End}) /\ batch # <<>> /\ ~IsEnd(curr)
    BY DEF IInv, TypeOK, Write, Ends
  <2>2. curr \in Item \cup {End}
    BY <2>1 DEF curr
  <2> QED BY <2>1, <2>2, EndIsEnd DEF Item
<1>3. /\ Len(written') = n + 1 /\ written'[n + 1] = it
      /\ \A i \in 1 .. n : written'[i] = written[i]
  BY <1>1, <1>2 DEF Write
<1>4. PICK o \in Rotated(it.file, it), throws \in BOOLEAN :
         /\ opened' = [opened EXCEPT ![it.file] = o]
         /\ dests' = Append(dests, IF o.fp /\ ~throws THEN o ELSE Closed)
  BY <1>2 DEF Write
<1>5. opened'[it.file] = o /\ \A f \in Files : f # it.file => opened'[f] = opened[f]
  BY <1>2, <1>4 DEF IInv, TypeOK
<1>6. ASSUME NEW f, NEW name, NEW k \in 1 .. n, NEW last \in 1 .. n,
             OpenedBy(f, name, k, last)
      PROVE  OpenedBy(f, name, k, last)'
  <2>1. written'[k] = written[k] /\ \A i \in k .. last : written'[i] = written[i]
    BY <1>3
  <2> QED BY <1>6, <2>1 DEF OpenedBy
<1>7. ASSUME NEW f \in Files, f # it.file, opened[f].fp
      PROVE  \E k \in 1 .. n + 1 : OpenedBy(f, opened[f].name, k, n + 1)'
  <2>1. PICK k \in 1 .. n : OpenedBy(f, opened[f].name, k, n)
    BY <1>1, <1>7 DEF FileInv
  <2>2. written'[k] = written[k] /\ \A i \in k .. n : written'[i] = written[i]
    BY <1>3
  <2>3. \A i \in k .. n + 1 : i \in k .. n \/ i = n + 1
    OBVIOUS
  <2>4. \A i \in k .. n + 1 : written'[i].file = f => i \in k .. n
    BY <1>3, <1>7, <2>3
  <2>5. OpenedBy(f, opened[f].name, k, n + 1)'
    <3>1. /\ written[k].file = f
          /\ opened[f].name = [level |-> written[k].level, time |-> written[k].time]
          /\ \A i \in k .. n : written[i].file = f => SameHour(written[i], written[k])
      BY <2>1 DEF OpenedBy
    <3>2. opened'[f].name = opened[f].name
      BY <1>5, <1>7
    <3> QED BY <2>2, <2>4, <3>1, <3>2 DEF OpenedBy, SameHour
  <2> QED BY <2>5
<1>8. ASSUME o.fp
      PROVE  \E k \in 1 .. n + 1 : OpenedBy(it.file, o.name, k, n + 1)'
  <2>1. CASE MustRotate(it.file, it)
    <3>1. o.name = [level |-> it.level, time |-> it.time]
      BY <1>4, <2>1 DEF Rotated
    <3>2. \A i \in n + 1 .. n + 1 : i = n + 1
      OBVIOUS
    <3>3. OpenedBy(it.file, o.name, n + 1, n + 1)'
      BY <1>3, <3>1, <3>2 DEF OpenedBy, SameHour
    <3> QED BY <3>3
  <2>2. CASE ~MustRotate(it.file, it)
    <3>1. o = opened[it.file]
      BY <1>4, <2>2 DEF Rotated
    <3>2. PICK k \in 1 .. n : OpenedBy(it.file, o.name, k, n)
      BY <1>1, <1>2, <1>8, <3>1 DEF FileInv
    <3>3. /\ written[k].file = it.file
          /\ o.name = [level |-> written[k].level, time |-> written[k].time]
          /\ \A i \in k .. n : written[i].file = it.file => SameHour(written[i], written[k])
      BY <3>2 DEF OpenedBy
    <3>4. SameHour(it, written[k])
      <4>1. o.name.level = it.level /\ o.name.time % DayHours = it.time % DayHours
        BY <2>2, <3>1 DEF MustRotate
      <4> QED BY <3>3, <4>1 DEF SameHour
    <3>5. written'[k] = written[k] /\ \A i \in k .. n : written'[i] = written[i]
      BY <1>3
    <3>6. \A i \in k .. n + 1 : i \in k .. n \/ i = n + 1
      OBVIOUS
    <3>7. \A i \in k .. n + 1 :
             written'[i].file = it.file => SameHour(written'[i], written'[k])
      BY <1>3, <3>3, <3>4, <3>5, <3>6
    <3>8. OpenedBy(it.file, o.name, k, n + 1)'
      BY <3>3, <3>5, <3>7 DEF OpenedBy, SameHour
    <3> QED BY <3>8
  <2> QED BY <2>1, <2>2
<1>9. FileInv'
  <2> SUFFICES ASSUME NEW f \in Files, opened'[f].fp
               PROVE  \E k \in 1 .. n + 1 : OpenedBy(f, opened[f].name, k, n + 1)'
    BY <1>3 DEF FileInv
  <2>1. CASE f = it.file
    BY <1>5, <1>8, <2>1 DEF OpenedBy
  <2>2. CASE f # it.file
    BY <1>5, <1>7, <2>2
  <2> QED BY <2>1, <2>2
<1>10. RightFile'
  <2>1. /\ DOMAIN dests' = 1 .. n + 1 /\ DOMAIN dests = 1 .. n
        /\ \A i \in 1 .. n : dests'[i] = dests[i]
        /\ dests'[n + 1] = IF o.fp /\ ~throws THEN o ELSE Closed
    BY <1>1, <1>4
  <2> SUFFICES ASSUME NEW i \in 1 .. n + 1, dests'[i].fp
               PROVE  \E k \in 1 .. i : OpenedBy(written[i].file, dests[i].name, k, i)'
    BY <2>1 DEF RightFile
  <2>2. CASE i = n + 1
    <3>1. o.fp /\ dests'[i] = o
      BY <2>1, <2>2 DEF Closed
    <3>2. PICK k \in 1 .. n + 1 : OpenedBy(it.file, o.name, k, n + 1)'
      BY <1>8, <3>1
    <3> QED BY <1>3, <2>2, <3>1, <3>2 DEF OpenedBy
  <2>3. CASE i # n + 1
    <3>1. i \in 1 .. n /\ dests'[i] = dests[i] /\ written'[i] = written[i]
      BY <1>3, <2>1, <2>3
    <3>2. PICK k \in 1 .. i : OpenedBy(written[i].file, dests[i].name, k, i)
      BY <2>1, <3>1 DEF RightFile
    <3>3. k \in 1 .. n
      BY <3>1
    <3>4. OpenedBy(written[i].file, dests[i].name, k, i)'
      BY <1>3, <3>1, <3>2, <3>3 DEF OpenedBy, SameHour
    <3> QED BY <3>4
  <2> QED BY <2>2, <2>3
<1> QED BY <1>9, <1>10

LEMMA NextFiles ==
  ASSUME IInv, FileInv, RightFile, [Next]_vars
  PROVE  FileInv' /\ RightFile'
<1>1. CASE Write
  BY <1>1, WriteFiles
<1>2. ASSUME UNCHANGED <<written, dests, opened>> PROVE FileInv' /\ RightFile'
  BY <1>2 DEF FileInv, RightFile, OpenedBy, SameHour
<1>3. CASE LogThread \/ WakeSpuriously
  BY <1>1, <1>2, <1>3
     DEF LogThread, LoopTest, GetItems, Blocks, FallsAsleep, WriteRace, Discard,
         WakeSpuriously, logging
<1>4. CASE Main
  BY <1>2, <1>4
     DEF Main, SetRoot, SetRootNotify, Stop, StopAppend, Join, DeleteRest, logging
<1>5. CASE \E p \in Printers : MakeItem(p) \/ Call(p)
  BY <1>2, <1>5 DEF MakeItem, Call, AppendItem, AppendLate, logging
<1>6. CASE Tick \/ (\E f \in Files : AddFile(f)) \/ FileAdded \/ UNCHANGED vars
  BY <1>2, <1>6 DEF Tick, AddFile, FileAdded, vars, logging
<1> QED BY <1>3, <1>4, <1>5, <1>6 DEF Next, Over

\* However the threads' items are mixed, and whichever files could be opened, an item is
\* in a file that was opened for its hour, or for that hour of another day and has had
\* items of that hour only since then.
THEOREM FilesAreRight == Spec => []RightFile
<1>1. Init => FileInv /\ RightFile
  BY DEF Init, FileInv, RightFile, Closed
<1>2. IInv /\ (FileInv /\ RightFile) /\ [Next]_vars => (FileInv /\ RightFile)'
  BY NextFiles
<1> QED BY <1>1, <1>2, Inductive, PTL DEF Spec

\* Two times of one day have two hours.
LEMMA HoursOfADay ==
  ASSUME NEW D \in Nat \ {0}, NEW s \in 1 .. D, NEW t \in 1 .. D, s % D = t % D
  PROVE  s = t
<1>1. \A x \in 1 .. D : x < D => x % D = x
  OBVIOUS
<1>2. D % D = 0
  OBVIOUS
<1> QED BY <1>1, <1>2

\* The logger runs for a day at most: the hour is then the time.
OneDay == MaxClock <= DayHours

\* So only a program that runs for more than a day can put an item into the file of
\* another hour, against the documentation.
THEOREM HourlyOnTheFirstDay ==
  ASSUME OneDay
  PROVE  Spec => []HourlyFiles
<1>1. ASSUME IInv, RightFile, NEW i \in DOMAIN dests, dests[i].fp
      PROVE  dests[i].name = [level |-> written[i].level, time |-> written[i].time]
  <2>1. PICK k \in 1 .. i : OpenedBy(written[i].file, dests[i].name, k, i)
    BY <1>1 DEF RightFile
  <2>2. i \in 1 .. Len(written) /\ written \in Seq(Item)
    BY <1>1 DEF IInv, TypeOK
  <2>3. written[i] \in Item /\ written[k] \in Item
    BY <2>2
  <2>4. i \in k .. i
    BY <2>2
  <2>5. SameHour(written[i], written[k])
    BY <2>1, <2>4 DEF OpenedBy
  <2>6. written[i].time \in 1 .. DayHours /\ written[k].time \in 1 .. DayHours
    BY <2>3, BoundsAssumption DEF OneDay, Item
  <2>7. written[i].time = written[k].time
    BY <2>5, <2>6, HoursOfADay, BoundsAssumption DEF SameHour
  <2> QED BY <2>1, <2>5, <2>7 DEF OpenedBy, SameHour
<1>2. IInv /\ RightFile => HourlyFiles
  BY <1>1 DEF HourlyFiles
<1> QED BY <1>2, FilesAreRight, Inductive, PTL
=============================================================================
