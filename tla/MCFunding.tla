------------------------------ MODULE MCFunding ------------------------------
(* What the service gives away: gas (GasDrip) and starter kits (StarterKit).
   They are checked side by side: they share no state but the fact that the
   sender of each is a key of its own, a behaviour takes one of them, and the
   variables of the other stay what they were. *)
EXTENDS MCGasDrip, StarterKit

VARIABLE part

(* One more kit of AUSD in stock than of USDC. *)
MCStock == <<2, 1>>

MCInit == part \in {"dripping", "giving"} /\ Init /\ KitInit

MCNext == /\ UNCHANGED part
          /\ \/ part = "dripping" /\ Next    /\ UNCHANGED kitVars
             \/ part = "giving"   /\ KitNext /\ UNCHANGED vars

MCSpec == MCInit /\ [][MCNext]_<<part, vars, kitVars>>
===============================================================================
