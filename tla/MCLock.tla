---- MODULE MCLock ----
(***************************************************************************)
(* Threads and processes for TLC.                                          *)
(***************************************************************************)
EXTENDS CwdLock, TLC

CONSTANTS t1, t2, t3, t4, p1, p2, p3

\* Two threads in one process, and two processes beside it.
Shared == t1 :> p1 @@ t2 :> p1 @@ t3 :> p2 @@ t4 :> p3
\* A thread in each process.
Apart == t1 :> p1 @@ t2 :> p2 @@ t3 :> p3
====
