---------------------------- MODULE MCWorkerPool ----------------------------
(***************************************************************************)
(* WorkerPool on a small instance: three threads, more jobs than threads,  *)
(* one of them dispatched without data.  Deadlock is not checked: a        *)
(* destroyed pool really stops.                                            *)
(***************************************************************************)
EXTENDS WorkerPool
CONSTANTS j1, j2, j3, j4
MCJobs == {j1, j2, j3, j4}
MCBuffered == {j1, j2, j3}
=============================================================================
