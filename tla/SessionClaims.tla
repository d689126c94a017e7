--------------------------- MODULE SessionClaims ---------------------------
(***************************************************************************)
(* What the documentation and the comments of the session say of it, each  *)
(* as a property of Session.  TLC refutes every one of them: the           *)
(* counterexamples are the findings listed in the README.                  *)
(***************************************************************************)
EXTENDS Session

\* A caller whose writer accepts output, while its reader may block.
BlockedReaderSpec == FairSpec /\ WF_vars(TxEchoReturn) /\ WF_vars(RxOutputReturn)

(* "Returns transport, stream, timeout, or worker errors after bounded
   shutdown" (session.rs:552): once the flag is set the call returns.  A TX
   worker inside input.read is never woken and the coordinator has no way out
   of its loop but TxStopped, so the join deadline only records an error. *)
ShutdownIsBounded == cancelled ~> co = "done"

(* "Cancellation stops new input, drains submitted TX within the configured
   bound" (docs/uart-plan.md:116).  The TX worker of a cancelled session ends
   without a drain and the coordinator cancels the transport: what it had
   submitted may never be sent, and nothing waits for it. *)
CancellationDrains ==
    co = "done" /\ byCaller /\ tx = "done" => stats.completed = submitted

=============================================================================
