--------------------------- MODULE MCOperationRuntime ---------------------------
(***************************************************************************)
(* Small instances of OperationRuntime for TLC.                            *)
(***************************************************************************)
EXTENDS OperationRuntime, TLC

CONSTANTS s1, s2, s3, c1, x1, p1

\* A Web apply and a CLI apply of one Plan, against a cancellation of it.
RaceTarget == s1 :> p1 @@ c1 :> p1 @@ x1 :> p1
RaceKey    == s1 :> 1 @@ c1 :> 2

\* Two Web requests that create a Plan with one key (a client retry) and a Web
\* apply that reuses their key: once the row behind the key is purged, each may
\* find the task that a failed dispatch of another left in the executor's queue.
RetryTarget == s1 :> NoPlan @@ s2 :> NoPlan @@ s3 :> p1
RetryKey    == s1 :> 1 @@ s2 :> 1 @@ s3 :> 1
=============================================================================
