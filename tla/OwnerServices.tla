---------------------------- MODULE OwnerServices ----------------------------
(***************************************************************************)
(* What the service keeps for an owner beside the mandates: their anchor   *)
(* on chain (MandateAnchor), what leaves the owner's wallets (WalletSends),*)
(* how the owner came by one (UserWallet) and the inference budget         *)
(* (Credits).  The four run side by side and share no state.               *)
(***************************************************************************)
EXTENDS Naturals

CONSTANTS
  Registrants, MaxRetries, MaxAmends, AmendsBack, MaxFailures, AnchorRestarts, AnchorFaults,
  Sends, Paths, NoTime, Spacing, Settling, Ttl, Patience, SendTime, SendFaults, SendTroubles,
  Asks, NoCall,  \* what is asked for, a wallet or a key, and nothing asked
  Devices, RegisterFaults, RegisterTroubles,
  Reads, OldLimit, FreeLimit, HandLimit, CreditFaults, CreditTroubles

VARIABLES
  anchored, hire, queue, job, timers, sent, failures, boots,
  time, send, ops, sends, lastEnd, happened, troubles,
  made, bound, registering, register, registerTroubles,
  keys, stored, minting, credit, tried, creditTroubles

anchors   == <<anchored, hire, queue, job, timers, sent, failures, boots>>
transfers == <<time, send, ops, sends, lastEnd, happened, troubles>>
registers == <<made, bound, registering, register, registerTroubles>>
credits   == <<keys, stored, minting, credit, tried, creditTroubles>>

Anchoring == INSTANCE MandateAnchor WITH
  record <- anchored, MaxRestarts <- AnchorRestarts, Faults <- AnchorFaults

Sending == INSTANCE WalletSends WITH
  now <- time, queue <- sends, MaxTime <- SendTime, Faults <- SendFaults, MaxTroubles <- SendTroubles

Registering == INSTANCE UserWallet WITH
  Calls <- Asks, call <- register, troubles <- registerTroubles,
  Faults <- RegisterFaults, MaxTroubles <- RegisterTroubles

Crediting == INSTANCE Credits WITH
  Calls <- Asks, call <- credit, troubles <- creditTroubles,
  Faults <- CreditFaults, MaxTroubles <- CreditTroubles

ServicesAssumption ==
  /\ Anchoring!AnchorAssumption /\ Sending!SendsAssumption
  /\ Registering!WalletAssumption /\ Crediting!CreditsAssumption

ServicesInit == Anchoring!Init /\ Sending!Init /\ Registering!Init /\ Crediting!Init

(* One of them takes a step, and the others rest. *)
ServicesNext ==
  \/ Anchoring!AnchorNext /\ UNCHANGED <<transfers, registers, credits>>
  \/ Sending!SendsNext /\ UNCHANGED <<anchors, registers, credits>>
  \/ Registering!RegisterNext /\ UNCHANGED <<anchors, transfers, credits>>
  \/ Crediting!CreditsNext /\ UNCHANGED <<anchors, transfers, registers>>

servicesVars == <<anchors, transfers, registers, credits>>

ServicesSpec == ServicesInit /\ [][ServicesNext]_servicesVars

-----------------------------------------------------------------------------
(* What is stored and told is true.  An anchor stored as current is on chain
   (mandate-anchor.ts:315), unless the agent is amended back to terms it had.  A
   transfer moves money at most once and not at all when its caller is told
   nothing moved; one of the wallet's sends is refused as too early only if an
   operation was slow or the spacer's mark was lost (user-wallet.service.ts:352);
   and the tracker's verdict is the operation's own, given to every one that
   landed before the time-out (operation-tracker.ts:66).  However often the user
   registers, from whichever device and across restarts, everyone answered has
   the one wallet of the registry and the key that owns it; and the only other
   wallets are those whose answer or binding was lost (user-wallet.service.ts:145).
   Nobody is minted a second inference key (file-credit-key-store.ts:3), and no
   read of a limit lowers it (credits.service.ts:276), unless it was raised
   between the read and the PATCH. *)
ServiceIsTrue ==
  /\ Anchoring!AnchorTypeOK /\ (~AmendsBack => Anchoring!CurrentIsOnChain)
  /\ Sending!SendsTypeOK /\ Sending!TransfersAreTrue
  /\ Registering!RegisterTypeOK /\ Registering!WalletIsOne
  /\ Crediting!CreditsTypeOK /\ Crediting!KeysAreOne
===============================================================================
