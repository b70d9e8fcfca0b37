----------------------------- MODULE SerialBridge -----------------------------
(***************************************************************************)
(* What the bridge promises about exchange calls, without routes, threads, *)
(* locks or gas: it is a server that runs one call at a time and each call *)
(* at most once, that is done with a call only when the call's effect is   *)
(* settled, and that calls a success nothing but a good effect.  What the  *)
(* client can tell from an error is not promised here.                     *)
(***************************************************************************)
CONSTANT Calls

VARIABLES
  phase,  \* phase[c]: waiting, running, reporting, or how the server was done with c
  effect  \* effect[c]: none before the exchange method ends, then ok or err

svars == <<phase, effect>>

Final == {"refused", "succeeded", "failed"}

STypeOK ==
  /\ phase \in [Calls -> {"waiting", "running", "reporting"} \union Final]
  /\ effect \in [Calls -> {"none", "ok", "err"}]

SInit ==
  /\ phase = [c \in Calls |-> "waiting"]
  /\ effect = [c \in Calls |-> "none"]

To(c, p) == phase' = [phase EXCEPT ![c] = p]

\* A call may be refused for as long as it has not begun.
Refuse(c) ==
  /\ phase[c] = "waiting"
  /\ To(c, "refused")
  /\ UNCHANGED effect

\* A call begins only while no other runs.
Begin(c) ==
  /\ phase[c] = "waiting"
  /\ \A d \in Calls : phase[d] # "running"
  /\ To(c, "running")
  /\ UNCHANGED effect

\* The exchange method ends.
Perform(c) ==
  /\ phase[c] = "running" /\ effect[c] = "none"
  /\ \E e \in {"ok", "err"} : effect' = [effect EXCEPT ![c] = e]
  /\ UNCHANGED phase

\* The next call may begin although this one has yet to be answered.
Release(c) ==
  /\ phase[c] = "running" /\ effect[c] = "ok"
  /\ To(c, "reporting")
  /\ UNCHANGED effect

\* Only what has an effect is reported, and only a good one as a success;
\* reporting itself may fail.
Report(c) ==
  /\ phase[c] \in {"running", "reporting"} /\ effect[c] # "none"
  /\ \/ effect[c] = "ok" /\ To(c, "succeeded")
     \/ To(c, "failed")
  /\ UNCHANGED effect

SNext ==
  \E c \in Calls :
    \/ Refuse(c)
    \/ Begin(c)
    \/ Perform(c)
    \/ Release(c)
    \/ Report(c)

SSpec == SInit /\ [][SNext]_svars
=============================================================================
