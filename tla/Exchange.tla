-------------------------------- MODULE Exchange --------------------------------
(***************************************************************************)
(* What the redeem client relies on when it calls a transport: one request *)
(* leaves whole or it does not, only the broker ever gets it, an answer is *)
(* an answer to a request that left, and nothing happens after the return. *)
(* Pkgexec composes its broker connection from exactly these steps:        *)
(* Deliver is SendRedeem, Fail is SendFails, Answer is ReceiveReply and    *)
(* Lose is ReplyLost.                                                      *)
(***************************************************************************)
CONSTANTS Uids, RequiredUid

VARIABLES
  phase,   \* how far the exchange is
  peer     \* the kernel-verified uid at the other end

Phases == {"unsent", "sent", "failed", "answered", "lost"}

Init == phase = "unsent" /\ peer \in Uids

Deliver == phase = "unsent" /\ peer = RequiredUid /\ phase' = "sent" /\ UNCHANGED peer
Fail    == phase = "unsent" /\ phase' = "failed" /\ UNCHANGED peer
Answer  == phase = "sent" /\ phase' = "answered" /\ UNCHANGED peer
Lose    == phase = "sent" /\ phase' = "lost" /\ UNCHANGED peer

Next == Deliver \/ Fail \/ Answer \/ Lose

Ended == phase \in {"failed", "answered", "lost"}

vars == <<phase, peer>>

Spec == Init /\ [][Next]_vars
=================================================================================
