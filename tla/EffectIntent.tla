---------------------------- MODULE EffectIntent ----------------------------
(***************************************************************************)
(* What the authorisation path promises, without locks, processes or       *)
(* messages: a receipt is bound to one effect, is spent at most once, and  *)
(* is acted upon at most once, by the actor that spent it and with the     *)
(* effect it was bound to.                                                 *)
(***************************************************************************)
CONSTANTS Receipts, Actors, Effects, NoEffect, Nobody

VARIABLES bound,    \* receipt -> the effect it authorises, or NoEffect
          spentBy,  \* receipt -> the actor that redeemed it, or Nobody
          acted     \* the effects started, as [by, receipt, effect]

vars == <<bound, spentBy, acted>>

Init == /\ bound   = [r \in Receipts |-> NoEffect]
        /\ spentBy = [r \in Receipts |-> Nobody]
        /\ acted   = {}

Bind(r) ==
  /\ bound[r] = NoEffect
  /\ bound'[r] \in Effects
  /\ bound' = [bound EXCEPT ![r] = bound'[r]]
  /\ UNCHANGED <<spentBy, acted>>

Spend(r, a) ==
  /\ bound[r] # NoEffect
  /\ spentBy[r] = Nobody
  /\ spentBy' = [spentBy EXCEPT ![r] = a]
  /\ UNCHANGED <<bound, acted>>

Act(r) ==
  /\ spentBy[r] # Nobody
  /\ \A x \in acted : x.receipt # r
  /\ acted' = acted \cup {[by |-> spentBy[r], receipt |-> r, effect |-> bound[r]]}
  /\ UNCHANGED <<bound, spentBy>>

Next == \E r \in Receipts :
          \/ Bind(r)
          \/ \E a \in Actors : Spend(r, a)
          \/ Act(r)

Spec == Init /\ [][Next]_vars
=============================================================================
