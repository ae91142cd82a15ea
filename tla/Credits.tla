-------------------------------- MODULE Credits --------------------------------
(***************************************************************************)
(* One user's OpenRouter key, which is the user's inference budget: the    *)
(* CreditsService of services/api/src/credits/.  It is made on the first   *)
(* provision and its limit raised to today's free tier when it is read.    *)
(***************************************************************************)
EXTENDS Naturals, Sequences

CONSTANTS
  Calls,       \* provisions of the user: the runs' and the app's
  Reads,       \* reads of the user's credits: the scheduler's and the app's
  NoCall,
  OldLimit, FreeLimit, HandLimit,  \* USD: an older free tier, today's, and more
  Faults,      \* a subset of {"rejected", "lost", "unsaved", "undeleted", "restart", "raised"}
  MaxTroubles  \* bound: faults of a behaviour

CreditsAssumption ==
  /\ NoCall \notin Calls \cup Reads /\ Calls \cap Reads = {}
  /\ {OldLimit, FreeLimit, HandLimit, MaxTroubles} \subseteq Nat
  /\ OldLimit < FreeLimit /\ FreeLimit < HandLimit

VARIABLES
  keys,     \* the user's keys at OpenRouter
  stored,   \* the store: the number of the user's key, 0 for none
  minting,  \* inFlight: the call whose provision everyone shares
  call,     \* where each provision and each read is
  tried,    \* raiseTried
  troubles

creditVars == <<keys, stored, minting, call, tried, troubles>>

-------------------------------------------------------------------------------
Trouble(kind) == kind \in Faults /\ troubles < MaxTroubles /\ troubles' = troubles + 1
Calm          == UNCHANGED troubles

NewKey(fate) == [limit |-> FreeLimit, monthly |-> FALSE, fate |-> fate, lowered |-> FALSE]
Idle         == [pc |-> "idle", limit |-> 0]

(* A user with no key, or with one of an older free tier, or one raised by hand
   before its monthly reset was given up. *)
Init ==
  /\ \/ keys = <<>> /\ stored = 0
     \/ /\ \E limit \in {OldLimit, HandLimit} :
             keys = <<[NewKey("stored") EXCEPT !.limit = limit, !.monthly = TRUE]>>
        /\ stored = 1
  /\ minting = NoCall /\ tried = {} /\ troubles = 0
  /\ call = [c \in Calls \cup Reads |-> Idle]

CreditsTypeOK ==
  /\ keys \in Seq([limit : Nat, monthly : BOOLEAN, lowered : BOOLEAN,
                   fate : {"stored", "deleted", "second", "lost", "unsaved", "undeleted", "cut"}])
  /\ stored \in 0..Len(keys) /\ tried \subseteq DOMAIN keys /\ troubles \in 0..MaxTroubles
  /\ minting \in Calls \cup {NoCall}
  /\ call \in [Calls \cup Reads ->
                 [pc : {"idle", "creating", "joined", "reading", "patching", "over"}, limit : Nat]]

-------------------------------------------------------------------------------
(* A call, and the provisions that share it, are over. *)
Over(c) ==
  /\ call' = [d \in Calls \cup Reads |->
                IF d = c \/ (minting = c /\ call[d].pc = "joined")
                THEN [call[d] EXCEPT !.pc = "over"] ELSE call[d]]
  /\ minting' = IF minting = c THEN NoCall ELSE minting

(* `inFlight`: concurrent provisions are one. *)
Shares == minting # NoCall

Provisions(c) ==
  /\ c \in Calls /\ call[c].pc = "idle"
  /\ call' = [call EXCEPT ![c].pc = IF Shares THEN "joined"
                                    ELSE IF stored # 0 THEN "reading" ELSE "creating"]
  /\ minting' = IF Shares THEN minting ELSE c
  /\ UNCHANGED <<keys, stored, tried, troubles>>

(* The key is made and claimed in one stretch; a claim that cannot be written
   throws, and one that comes second has its key deleted and reads the first. *)
Claims(c) ==
  /\ call[c].pc = "creating"
  /\ \/ /\ stored = 0 /\ keys' = Append(keys, NewKey("stored")) /\ stored' = Len(keys) + 1
        /\ Over(c) /\ Calm
     \/ /\ stored = 0 /\ Trouble("unsaved") /\ keys' = Append(keys, NewKey("unsaved"))
        /\ Over(c) /\ UNCHANGED stored
     \/ /\ stored # 0 /\ keys' = Append(keys, NewKey("second"))
        /\ call' = [call EXCEPT ![c].pc = "reading"] /\ UNCHANGED <<stored, minting>> /\ Calm
  /\ UNCHANGED tried

(* `createKey` threw, with the key made or not. *)
CreateThrows(c) ==
  /\ call[c].pc = "creating"
  /\ \/ Trouble("rejected") /\ UNCHANGED keys
     \/ Trouble("lost") /\ keys' = Append(keys, NewKey("lost"))
  /\ Over(c) /\ UNCHANGED <<stored, tried>>

(* `discard`, which the claim awaits before it reads the other key. *)
Discards(k) ==
  /\ keys[k].fate = "second"
  /\ \/ keys' = [keys EXCEPT ![k].fate = "deleted"] /\ Calm
     \/ Trouble("undeleted") /\ keys' = [keys EXCEPT ![k].fate = "undeleted"]
  /\ UNCHANGED <<stored, minting, call, tried>>

Looks(r) ==
  /\ r \in Reads /\ call[r].pc = "idle" /\ stored # 0
  /\ call' = [call EXCEPT ![r].pc = "reading"]
  /\ UNCHANGED <<keys, stored, minting, tried, troubles>>

Qualifies(k) == keys[k].limit < FreeLimit \/ keys[k].monthly

(* `readKey`: the key is raised the first time this process finds it wanting. *)
ReadsKey(c) ==
  /\ call[c].pc = "reading" /\ \A k \in DOMAIN keys : keys[k].fate # "second"
  /\ \/ /\ Qualifies(stored) /\ stored \notin tried
        /\ tried' = tried \cup {stored}
        /\ call' = [call EXCEPT ![c] = [pc |-> "patching", limit |-> keys[stored].limit]]
        /\ UNCHANGED minting /\ Calm
     \/ /\ ~Qualifies(stored) \/ stored \in tried
        /\ Over(c) /\ UNCHANGED tried /\ Calm
     \/ Trouble("rejected") /\ Over(c) /\ UNCHANGED tried
  /\ UNCHANGED <<keys, stored>>

Raised(limit) == IF limit < FreeLimit THEN FreeLimit ELSE limit

(* The PATCH sets what the read saw, raised; a lowered key is noted. *)
Patched(k, limit) ==
  LET key == keys[k]
  IN [keys EXCEPT ![k] = [key EXCEPT !.limit = Raised(limit), !.monthly = FALSE,
        !.lowered = key.lowered \/ (Raised(limit) < key.limit /\ limit = key.limit)]]

Patches(c) ==
  /\ call[c].pc = "patching"
  /\ \/ keys' = Patched(stored, call[c].limit) /\ Calm
     \/ Trouble("lost") /\ keys' = Patched(stored, call[c].limit)
     \/ Trouble("rejected") /\ UNCHANGED keys
  /\ Over(c) /\ UNCHANGED <<stored, tried>>

-------------------------------------------------------------------------------
(* An operator raises the limit by hand. *)
RaisedByHand ==
  /\ stored # 0 /\ Trouble("raised")
  /\ keys' = [keys EXCEPT ![stored].limit = HandLimit]
  /\ UNCHANGED <<stored, minting, call, tried>>

(* The store is on disk; a key that was asked for may have been made, and one
   that was to be deleted was not. *)
Restarts ==
  /\ Trouble("restart")
  /\ LET kept == [k \in DOMAIN keys |-> IF keys[k].fate = "second"
                                        THEN [keys[k] EXCEPT !.fate = "undeleted"] ELSE keys[k]]
     IN \/ keys' = kept
        \/ /\ \E c \in Calls : call[c].pc = "creating"
           /\ keys' = Append(kept, NewKey("cut"))
  /\ minting' = NoCall /\ tried' = {}
  /\ call' = [c \in Calls \cup Reads |-> IF call[c].pc = "idle" THEN Idle ELSE [Idle EXCEPT !.pc = "over"]]
  /\ UNCHANGED stored

CreditsNext ==
  \/ \E c \in Calls \cup Reads : \/ Provisions(c) \/ Claims(c) \/ CreateThrows(c)
                                 \/ Looks(c) \/ ReadsKey(c) \/ Patches(c)
  \/ \E k \in DOMAIN keys : Discards(k)
  \/ RaisedByHand \/ Restarts

CreditsSpec == Init /\ [][CreditsNext]_creditVars

-------------------------------------------------------------------------------
(* However many provisions, reads and restarts, a user's only other keys are
   those whose answer or record was lost: nobody is minted a second allowance
   (file-credit-key-store.ts:3).  And a limit is lowered by no read of it
   (credits.service.ts:276), unless it was raised between the read and the
   PATCH. *)
KeysAreOne ==
  /\ \A k \in DOMAIN keys :
       keys[k].fate \notin {"deleted", "lost", "unsaved", "undeleted", "cut"} => k = stored
  /\ \A k \in DOMAIN keys : ~keys[k].lowered
===============================================================================
