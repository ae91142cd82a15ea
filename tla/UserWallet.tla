------------------------------ MODULE UserWallet ------------------------------
(***************************************************************************)
(* One user's Privy wallet, made once: `register` of                       *)
(* services/api/src/wallet/user-wallet.service.ts and the registry that    *)
(* keeps the binding.  A wallet's address does not follow from its owner's *)
(* key, so a second wallet is money nobody finds.                          *)
(***************************************************************************)
EXTENDS Naturals, Sequences

CONSTANTS
  Calls,       \* calls of POST /wallet/register by the user
  Devices,     \* the P-256 keys they come with
  NoCall,
  Faults,      \* a subset of {"rejected", "lost", "unsaved", "restart"}
  MaxTroubles  \* bound: faults of a behaviour

WalletAssumption == NoCall \notin Calls /\ MaxTroubles \in Nat

VARIABLES
  made,       \* the wallets Privy made, with what became of them
  bound,      \* the registry: the number of the user's wallet, 0 for none
  registering,\* the call whose provision is in flight
  call,
  troubles

registerVars == <<made, bound, registering, call, troubles>>

-------------------------------------------------------------------------------
Trouble(kind) == kind \in Faults /\ troubles < MaxTroubles /\ troubles' = troubles + 1
Calm          == UNCHANGED troubles

Init ==
  /\ made = <<>> /\ bound = 0 /\ registering = NoCall /\ troubles = 0
  /\ \E key \in [Calls -> Devices] :
       call = [c \in Calls |-> [pc |-> "idle", key |-> key[c], wallet |-> 0]]

RegisterTypeOK ==
  /\ made \in Seq([key : Devices, fate : {"bound", "second", "lost", "unsaved", "cut"}])
  /\ bound \in 0..Len(made) /\ registering \in Calls \cup {NoCall} /\ troubles \in 0..MaxTroubles
  /\ call \in [Calls -> [pc : {"idle", "provisioning", "joined", "answered", "refused", "failed"},
                         key : Devices, wallet : 0..Len(made)]]

(* `assertSameDevice`. *)
Answered(c, w, key) ==
  IF key = call[c].key THEN [call[c] EXCEPT !.pc = "answered", !.wallet = w]
                       ELSE [call[c] EXCEPT !.pc = "refused"]

(* A provision is in flight. *)
Joins(c) == registering # NoCall

(* `bindOnce`: bound already, in flight already, or the call makes it. *)
Registers(c) ==
  /\ call[c].pc = "idle"
  /\ call' = [call EXCEPT ![c] =
       IF bound # 0     THEN Answered(c, bound, made[bound].key)
       ELSE IF Joins(c) THEN [@ EXCEPT !.pc = "joined"]
                        ELSE [@ EXCEPT !.pc = "provisioning"]]
  /\ registering' = IF bound = 0 /\ ~Joins(c) THEN c ELSE registering
  /\ UNCHANGED <<made, bound, troubles>>

Waiting(c) == {d \in Calls : d = c \/ (registering = c /\ call[d].pc = "joined")}

(* The provision ends, and everyone who waits for it has its answer. *)
Ends(c, w, key) ==
  /\ call' = [d \in Calls |-> IF d \in Waiting(c) THEN Answered(d, w, key) ELSE call[d]]
  /\ registering' = NoCall

EndsBadly(c) ==
  /\ call' = [d \in Calls |-> IF d \in Waiting(c) THEN [call[d] EXCEPT !.pc = "failed"] ELSE call[d]]
  /\ registering' = NoCall

Makes(c, fate) == made' = Append(made, [key |-> call[c].key, fate |-> fate])

(* Privy's answer, and the bind in the same stretch: the first to bind wins,
   and one that cannot be written is undone. *)
Binds(c) ==
  /\ call[c].pc = "provisioning"
  /\ \/ /\ bound = 0 /\ Makes(c, "bound") /\ bound' = Len(made) + 1
        /\ Ends(c, Len(made) + 1, call[c].key) /\ Calm
     \/ /\ bound = 0 /\ Trouble("unsaved") /\ Makes(c, "unsaved")
        /\ EndsBadly(c) /\ UNCHANGED bound
     \/ /\ bound # 0 /\ Makes(c, "second")
        /\ Ends(c, bound, made[bound].key) /\ UNCHANGED bound /\ Calm

(* Privy refuses, or makes a wallet and its answer is lost. *)
ProvisionThrows(c) ==
  /\ call[c].pc = "provisioning"
  /\ \/ Trouble("rejected") /\ UNCHANGED made
     \/ Trouble("lost") /\ Makes(c, "lost")
  /\ EndsBadly(c) /\ UNCHANGED bound

(* The registry is on disk; what was in flight may have been made. *)
Restarts ==
  /\ Trouble("restart")
  /\ \/ UNCHANGED made
     \/ registering # NoCall /\ Makes(registering, "cut")
  /\ registering' = NoCall
  /\ call' = [c \in Calls |-> IF call[c].pc \in {"provisioning", "joined"}
                              THEN [call[c] EXCEPT !.pc = "failed"] ELSE call[c]]
  /\ UNCHANGED bound

RegisterNext == (\E c \in Calls : Registers(c) \/ Binds(c) \/ ProvisionThrows(c)) \/ Restarts

RegisterSpec == Init /\ [][RegisterNext]_registerVars

-------------------------------------------------------------------------------
(* However often the user registers, from whichever device and across
   restarts, everyone answered has the one wallet of the registry and the key
   that owns it; and the only other wallets are those whose answer or binding
   was lost (user-wallet.service.ts:145). *)
WalletIsOne ==
  /\ \A c \in Calls : call[c].pc = "answered" =>
       bound # 0 /\ call[c].wallet = bound /\ made[bound].key = call[c].key
  /\ \A w \in DOMAIN made : made[w].fate \in {"bound", "second"} => w = bound
===============================================================================
