--------------------------- MODULE BridgeRefinement ---------------------------
(***************************************************************************)
(* BridgeRuntime implements SerialBridge.  A ping is no call: it maps to a *)
(* call that waits for ever.                                               *)
(***************************************************************************)
EXTENDS BridgeRuntime

\* How the server is done with r: it said "ok", or it never submitted the
\* exchange method, or it did and said something else.
PhaseWhenDone(r) ==
  IF answer[r] = "ok" THEN "succeeded"
  ELSE IF job[<<r, "exchange">>] = "none" THEN "refused" ELSE "failed"

PhaseOf(r) ==
  IF shape[r].route = "ping" THEN "waiting"
  ELSE IF pc[r] = "exchange" THEN "running"
  ELSE IF pc[r] = "augment" THEN "reporting"
  ELSE IF pc[r] = "done" THEN PhaseWhenDone(r)
  ELSE "waiting"

EffectOf(r) ==
  IF job[<<r, "exchange">>] \in {"ok", "err"} THEN job[<<r, "exchange">>] ELSE "none"

Serial == INSTANCE SerialBridge WITH
  Calls <- Requests,
  phase <- [r \in Requests |-> PhaseOf(r)],
  effect <- [r \in Requests |-> EffectOf(r)]

\* The bridge, with its checks before the lock, its pool and its diagnostics
\* after the lock, is a server that runs one call at a time, each at most once:
\* a call that is over without a run never runs, a call is not over before its
\* effect is settled, and "ok" is said of good effects only.
ImplementsSerialBridge == Serial!SSpec
=============================================================================
