------------------------------- MODULE AidGen -------------------------------
(***************************************************************************)
(* aid_gen of a.id.cpp, at the level of its atomic operations.  An id is   *)
(* made of the algorithm time, the machine number and a sequence number.   *)
(* Several threads share alg_ts_ and seq_, each accessed atomically, with  *)
(* any step of another thread in between.  The clock is the system clock:  *)
(* it goes forward and may be set back.                                    *)
(*                                                                         *)
(* MaxCalls bounds the calls, MaxClock the clock, Backs how often it is    *)
(* set back by one.  PerMs is how many calls begin in one millisecond.     *)
(***************************************************************************)
EXTENDS Integers, Sequences

CONSTANTS
    Threads,
    Epoch,      \* epoch_, the time at which the module was loaded
    TsSize,     \* 2^timestamp_bits_
    MachineSize,\* 2^machine_bits_
    SeqSize,    \* 2^sequence_bits_
    Machine,    \* machine_, drawn at random
    MaxWait,    \* 2000, the longest wait for the clock
    PerMs,
    MaxCalls,
    MaxClock,
    Backs

ASSUME SizesAssumption ==
    /\ TsSize \in Nat \ {0} /\ MachineSize \in Nat \ {0} /\ SeqSize \in Nat \ {0}
    /\ Machine \in 0 .. MachineSize - 1
ASSUME TimesAssumption ==
    /\ Epoch \in Nat /\ MaxWait \in Nat
    /\ MaxClock \in Nat /\ Epoch <= MaxClock
    /\ MaxCalls \in Nat /\ Backs \in Nat /\ PerMs \in Nat

VARIABLES
    pc,
    clock,      \* now_ms()
    algTs,      \* alg_ts_
    seq,        \* seq_
    realTs,     \* the local variables of the call of each thread
    myTs,       \* its alg_ts
    mySeq,      \* its seq, before it is masked
    calls,      \* calls begun
    recent,     \* calls begun since the clock last went forward
    backs,      \* times the clock was set back
    orderly,    \* history: one call after the other, no more in a millisecond than there
                \* are sequence numbers, and the clock never set back
    issued      \* history: the ids returned, and the seq_ each one took

locals == <<realTs, myTs, mySeq>>
env    == <<clock, backs, orderly>>
vars   == <<pc, env, algTs, seq, locals, calls, recent, issued>>

\* Every variable has its type; algorithm time stays within the bounds of the clock.
TypeOK ==
    /\ pc \in [Threads -> {"out", "load", "wait", "again", "seq", "store", "make", "failed"}]
    /\ clock \in 0 .. MaxClock /\ seq \in Nat
    /\ algTs \in 0 .. MaxClock
    /\ realTs \in [Threads -> Nat]
    /\ myTs \in [Threads -> Nat]
    /\ mySeq \in [Threads -> Nat]
    /\ calls \in 0 .. MaxCalls
    /\ recent \in Nat /\ backs \in 0 .. Backs /\ orderly \in BOOLEAN
    /\ issued \in Seq([id : Nat, taken : Nat])

Init ==
    /\ pc = [t \in Threads |-> "out"]
    /\ clock = Epoch
    /\ algTs = Epoch
    /\ seq = 0
    /\ realTs = [t \in Threads |-> Epoch]
    /\ myTs = [t \in Threads |-> Epoch]
    /\ mySeq = [t \in Threads |-> 0]
    /\ calls = 0
    /\ recent = 0
    /\ backs = 0
    /\ orderly = TRUE
    /\ issued = <<>>

Goto(t, point) == pc' = [pc EXCEPT ![t] = point]

-----------------------------------------------------------------------------
(* The clock.                                                              *)

Tick ==
    /\ clock < MaxClock
    /\ clock' = clock + 1
    /\ recent' = 0
    /\ UNCHANGED <<pc, algTs, seq, locals, calls, backs, orderly, issued>>

SetBack ==
    /\ backs < Backs
    /\ clock > 0
    /\ clock' = clock - 1
    /\ backs' = backs + 1
    /\ orderly' = FALSE
    /\ UNCHANGED <<pc, algTs, seq, locals, calls, recent, issued>>

-----------------------------------------------------------------------------
(* aid_gen, called by thread t.                                            *)

\* real_ts is read.
ReadClock(t) ==
    /\ pc[t] = "out"
    /\ calls < MaxCalls
    /\ recent < PerMs
    /\ calls' = calls + 1
    /\ recent' = recent + 1
    /\ realTs' = [realTs EXCEPT ![t] = clock]
    /\ orderly' = (orderly /\ recent < SeqSize /\ \A o \in Threads : pc[o] = "out")
    /\ Goto(t, "load")
    /\ UNCHANGED <<clock, backs, algTs, seq, myTs, mySeq, issued>>

\* Natural time behind algorithm time: the call waits.
Behind(real) == real < algTs

LoadTs(t) ==
    /\ pc[t] = "load"
    /\ myTs' = [myTs EXCEPT ![t] = algTs]
    /\ Goto(t, IF Behind(realTs[t]) THEN "wait" ELSE "seq")
    /\ UNCHANGED <<env, algTs, seq, realTs, mySeq, calls, recent, issued>>

\* wait_until returns; before that it sleeps for what remains.
WaitUntil(t) ==
    /\ pc[t] = "wait"
    /\ clock >= myTs[t]
    /\ Goto(t, "again")
    /\ UNCHANGED <<env, algTs, seq, locals, calls, recent, issued>>

\* It throws when too much remains.
NeverAdvances(t) ==
    /\ pc[t] = "wait"
    /\ myTs[t] - clock > MaxWait
    /\ Goto(t, "failed")
    /\ UNCHANGED <<env, algTs, seq, locals, calls, recent, issued>>

ReadAgain(t) ==
    /\ pc[t] = "again"
    /\ realTs' = [realTs EXCEPT ![t] = clock]
    /\ Goto(t, "seq")
    /\ UNCHANGED <<env, algTs, seq, myTs, mySeq, calls, recent, issued>>

\* seq_.fetch_add(1) & max_sequence_
MutantMask(n) == ((n \div SeqSize) % 2) * SeqSize
Masked(n)     == n % SeqSize

FetchAdd(t) ==
    /\ pc[t] = "seq"
    /\ mySeq' = [mySeq EXCEPT ![t] = seq]
    /\ seq' = seq + 1
    /\ Goto(t, IF Masked(seq) = 0 THEN "store" ELSE "make")
    /\ UNCHANGED <<env, algTs, realTs, myTs, calls, recent, issued>>

\* Out of sequence numbers: algorithm time moves on to natural time.
MutantAdvance(t)  == algTs + 1
NewTs(t)          == realTs[t]

StoreTs(t) ==
    /\ pc[t] = "store"
    /\ algTs' = NewTs(t)
    /\ myTs' = [myTs EXCEPT ![t] = NewTs(t)]
    /\ Goto(t, "make")
    /\ UNCHANGED <<env, seq, realTs, mySeq, calls, recent, issued>>

\* The shift drops what does not fit; the difference wraps around.
MutantSwap(ts, n) ==
    (Masked(n) * MachineSize + Machine) * TsSize + ((ts - Epoch) % TsSize)
Id(ts, n) ==
    (((ts - Epoch) % TsSize) * MachineSize + Machine) * SeqSize + Masked(n)

Return(t) ==
    /\ pc[t] = "make"
    /\ issued' = Append(issued, [id |-> Id(myTs[t], mySeq[t]), taken |-> mySeq[t]])
    /\ Goto(t, "out")
    /\ UNCHANGED <<env, algTs, seq, locals, calls, recent>>

Gen(t) ==
    \/ ReadClock(t) \/ LoadTs(t) \/ WaitUntil(t) \/ NeverAdvances(t)
    \/ ReadAgain(t) \/ FetchAdd(t) \/ StoreTs(t) \/ Return(t)

\* The end of the bounded clock, with no call under way.
Over ==
    /\ clock = MaxClock
    /\ \A t \in Threads : pc[t] \in {"out", "failed"}
    /\ UNCHANGED vars

Next ==
    \/ Tick \/ SetBack
    \/ \E t \in Threads : Gen(t)
    \/ Over

Spec == Init /\ [][Next]_vars

-----------------------------------------------------------------------------
\* As long as calls come one after the other and at the rate that the sequence numbers
\* allow, each returns a greater id than those before it, and so none is returned twice.
Increasing ==
    orderly => \A i, j \in DOMAIN issued : i < j => issued[i].id < issued[j].id

\* Calls that share one round of sequence numbers never share an id, however
\* old the algorithm time is that each of them has read.
RoundUnique ==
    \A i, j \in DOMAIN issued :
       /\ i # j
       /\ issued[i].taken \div SeqSize = issued[j].taken \div SeqSize
       => issued[i].id # issued[j].id

\* A call gives up only when the clock was set back by more than it may wait:
\* algorithm time is ahead of the clock by what the clock was set back, never by
\* what the other threads have used up.
NeverFails == \A t \in Threads : pc[t] = "failed" => backs > MaxWait
=============================================================================
