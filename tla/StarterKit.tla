------------------------------ MODULE StarterKit ------------------------------
(***************************************************************************)
(* Test AUSD and USDC for a new user's wallet, once per user ever: the     *)
(* StarterKitService of services/api/src/starter-kit/ and its store.  A    *)
(* register kicks a grant each time, and nobody waits for it.              *)
(*                                                                         *)
(* A grant claims its user's record, with the caps, in one stretch; reads  *)
(* the balances of the one sender; then sends one token after the other,   *)
(* each once the receipt of the one before is in.  Its pc is between two   *)
(* awaits.                                                                 *)
(***************************************************************************)
EXTENDS Integers, Sequences, FiniteSets

CONSTANTS
  KitUsers, Ips, NoIp,
  KitDailyCap,  \* STARTER_KIT_DAILY_CAP_USERS
  IpCap,        \* users of one IP a day
  Stock,        \* what the sender holds of each token, in kits
  LastDay,      \* bound: days
  MaxRestarts,  \* bound: restarts
  KitFaults     \* a subset of {"unread", "rejected", "lost", "late", "reverted", "unsaved"}

(* AUSD, then USDC. *)
Tokens == 1..2

ASSUME KitAssumption ==
  /\ {KitDailyCap, IpCap, LastDay, MaxRestarts} \subseteq Nat
  /\ Stock \in [Tokens -> Nat]

VARIABLES
  day,
  kits,      \* the store's records, in memory
  file,      \* starter-kits.json
  grant,     \* where the one grant that claimed a user's record stands
  held,      \* the sender's balance of each token, in kits
  transfers, \* what the sender sent, in the order of its nonces
  restarts

kitVars == <<day, kits, file, grant, held, transfers, restarts>>

-------------------------------------------------------------------------------
NoKit == [status |-> "none", day |-> 0, ip |-> NoIp]
Over  == [pc |-> "over", token |-> 1, tx |-> 0, seen |-> 0]

KitTypeOK ==
  /\ day \in 0..LastDay /\ restarts \in 0..MaxRestarts
  /\ {kits, file} \subseteq [KitUsers -> [status : {"none", "pending", "sent", "failed"},
                                          day : 0..LastDay, ip : Ips \cup {NoIp}]]
  /\ grant \in [KitUsers -> [pc : {"over", "reading", "sending", "receipt"}, token : Tokens,
                             tx : Nat, seen : Nat]]
  /\ \A t \in Tokens : held[t] \in 0..Stock[t]
  /\ transfers \in Seq([user : KitUsers, token : Tokens, seen : Nat,
                        state : {"pending", "success", "short", "reverted"}])

KitInit ==
  /\ day = 0 /\ restarts = 0
  /\ kits = [u \in KitUsers |-> NoKit] /\ file = kits
  /\ grant = [u \in KitUsers |-> Over]
  /\ held = Stock
  /\ transfers = <<>>

(* `update`: memory first, then the file, which may not be written. *)
Stores(u, status, saved) ==
  /\ kits' = [kits EXCEPT ![u].status = status]
  /\ file' = IF saved THEN kits' ELSE file

Saves == {TRUE} \cup (IF "unsaved" \in KitFaults THEN {FALSE} ELSE {})

(* `#fail`: for good, unless it cannot even be recorded. *)
Fails(u) == /\ \E saved \in Saves : Stores(u, "failed", saved)
            /\ grant' = [grant EXCEPT ![u] = Over]

-------------------------------------------------------------------------------
Today(ip) == {u \in KitUsers : kits[u].status # "none" /\ kits[u].day = day
                               /\ (ip = NoIp \/ kits[u].ip = ip)}

(* No record yet, and room under the day's caps, failed kits counted. *)
KitClaimable(u, ip) ==
  /\ kits[u].status = "none"
  /\ Cardinality(Today(NoIp)) < KitDailyCap
  /\ ip # NoIp => Cardinality(Today(ip)) < IpCap

(* `claim`: written through, or undone. *)
ClaimsKit(u, ip) ==
  /\ KitClaimable(u, ip)
  /\ kits' = [kits EXCEPT ![u] = [status |-> "pending", day |-> day, ip |-> ip]]
  /\ file' = kits'
  /\ grant' = [grant EXCEPT ![u] = [Over EXCEPT !.pc = "reading"]]
  /\ UNCHANGED <<day, held, transfers, restarts>>

Landed == Cardinality({i \in DOMAIN transfers : transfers[i].state # "pending"})

Transfer(u) == [user |-> u, token |-> grant[u].token, seen |-> grant[u].seen, state |-> "pending"]

(* Both balances, before anything is sent. *)
ReadsBalances(u) ==
  /\ grant[u].pc = "reading"
  /\ \/ /\ \A t \in Tokens : held[t] > 0
        /\ grant' = [grant EXCEPT ![u] = [@ EXCEPT !.pc = "sending", !.seen = Landed]]
        /\ UNCHANGED <<kits, file>>
     \/ /\ "unread" \in KitFaults \/ \E t \in Tokens : held[t] = 0
        /\ Fails(u)
  /\ UNCHANGED <<day, held, transfers, restarts>>

(* The hash is stored before the receipt is waited for; if it cannot be, the
   kit ends there. *)
Sends(u) ==
  /\ grant[u].pc = "sending"
  /\ transfers' = Append(transfers, Transfer(u))
  /\ \/ /\ grant' = [grant EXCEPT ![u] = [@ EXCEPT !.pc = "receipt", !.tx = Len(transfers) + 1]]
        /\ UNCHANGED <<kits, file>>
     \/ "unsaved" \in KitFaults /\ Fails(u)
  /\ UNCHANGED <<day, held, restarts>>

(* The broadcast threw: rejected, or accepted and the answer lost. *)
SendThrows(u) ==
  /\ grant[u].pc = "sending"
  /\ \/ "rejected" \in KitFaults /\ UNCHANGED transfers
     \/ /\ "lost" \in KitFaults
        /\ transfers' = Append(transfers, Transfer(u))
  /\ Fails(u)
  /\ UNCHANGED <<day, held, restarts>>

(* On success the next token, or the kit is sent; anything else ends it. *)
Receipt(u) ==
  LET state == transfers[grant[u].tx].state
  IN /\ grant[u].pc = "receipt"
     /\ \/ /\ state = "success" /\ grant[u].token = 1
           /\ grant' = [grant EXCEPT ![u] = [@ EXCEPT !.pc = "sending", !.token = 2]]
           /\ UNCHANGED <<kits, file>>
        \/ /\ state = "success" /\ grant[u].token = 2
           /\ \/ Stores(u, "sent", TRUE) /\ grant' = [grant EXCEPT ![u] = Over]
              \/ "unsaved" \in KitFaults /\ Fails(u)
        \/ /\ state \in {"short", "reverted"} \/ (state = "pending" /\ "late" \in KitFaults)
           /\ Fails(u)
     /\ UNCHANGED <<day, held, transfers, restarts>>

-------------------------------------------------------------------------------
(* The sender's transactions land in turn; one that cannot be paid reverts. *)
Lands(i) ==
  LET t == transfers[i].token
  IN /\ transfers[i].state = "pending"
     /\ \A j \in 1..(i - 1) : transfers[j].state # "pending"
     /\ \/ /\ held[t] > 0
           /\ held' = [held EXCEPT ![t] = @ - 1]
           /\ transfers' = [transfers EXCEPT ![i].state = "success"]
        \/ /\ held[t] = 0 /\ UNCHANGED held
           /\ transfers' = [transfers EXCEPT ![i].state = "short"]
        \/ /\ "reverted" \in KitFaults /\ held[t] > 0 /\ UNCHANGED held
           /\ transfers' = [transfers EXCEPT ![i].state = "reverted"]
     /\ UNCHANGED <<day, kits, file, grant, restarts>>

NextDay == /\ day < LastDay /\ day' = day + 1
           /\ UNCHANGED <<kits, file, grant, held, transfers, restarts>>

(* Mutant of Loaded: a kit that was interrupted may be claimed again. *)
LoadedAfresh(kit) == IF kit.status = "pending" THEN NoKit ELSE kit

(* `interrupted`: what a restart found pending has failed, for a transfer may
   have landed. *)
Loaded(kit) == IF kit.status = "pending" THEN [kit EXCEPT !.status = "failed"] ELSE kit

Restarts ==
  /\ restarts < MaxRestarts /\ restarts' = restarts + 1
  /\ kits' = [u \in KitUsers |-> Loaded(file[u])]
  /\ file' = kits'
  /\ grant' = [u \in KitUsers |-> Over]
  /\ UNCHANGED <<day, held, transfers>>

KitNext ==
  \/ \E u \in KitUsers :
       \/ \E ip \in Ips \cup {NoIp} : ClaimsKit(u, ip)
       \/ ReadsBalances(u) \/ Sends(u) \/ SendThrows(u) \/ Receipt(u)
  \/ (\E i \in DOMAIN transfers : Lands(i)) \/ NextDay \/ Restarts

KitSpec == KitInit /\ [][KitNext]_kitVars

-------------------------------------------------------------------------------
Of(u, t) == {i \in DOMAIN transfers : transfers[i].user = u /\ transfers[i].token = t}

(* Nobody is sent a token twice, however often they register and whatever
   failed, was lost, was not saved or was interrupted; and a kit that is sent
   moved both (starter-kit.service.ts:60). *)
TokensGoOnce ==
  \A u \in KitUsers :
    /\ \A t \in Tokens : Cardinality(Of(u, t)) <= 1
    /\ kits[u].status = "sent" =>
         \A t \in Tokens : \E i \in Of(u, t) : transfers[i].state = "success"

(* Half a kit for want of tokens takes another kit: a transfer that cannot be
   paid lost its tokens to one that landed after its balances were read
   (starter-kit.service.ts:65). *)
ShortOnlyIfShared ==
  \A i \in DOMAIN transfers :
    transfers[i].state = "short" =>
      \E j \in (transfers[i].seen + 1)..(i - 1) :
        /\ transfers[j].token = transfers[i].token /\ transfers[j].user # transfers[i].user
        /\ transfers[j].state = "success"

(* A user gets one kit, once, and half a kit only when another took the rest. *)
KitsAreOnce == KitTypeOK /\ TokensGoOnce /\ ShortOnlyIfShared
===============================================================================
