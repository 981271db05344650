------------------------------- MODULE MCAthd -------------------------------
(***************************************************************************)
(* Instances of Athd for TLC: Main, one or two workers, one outside thread *)
(* that calls athd_waitstops.                                              *)
(***************************************************************************)
EXTENDS Athd

CONSTANTS m, w, x, s

MainAndWorker  == <<m, w>>
MainAndWorkers == <<m, w, x>>
TwoWorkers     == <<w, x>>
\* athd_newpool registers each of its threads twice in pthreads_.
PoolTwice      == <<m, w, w>>
WorkersTwice   == <<m, w, w, x, x>>
=============================================================================
