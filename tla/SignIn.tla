-------------------------------- MODULE SignIn --------------------------------
(***************************************************************************)
(* Sessions with the API: a challenge, its signature and a token for it     *)
(* (services/api/src/auth), as the phones ask for them                      *)
(* (apps/mobile/src/session/auth.ts): one sign-in at a time for however     *)
(* many requests, shared with what was asked before, thrown away if the     *)
(* user switched accounts meanwhile, and, in a browser, kept sealed over a   *)
(* reload.  A request that is refused with a token asks for another, once   *)
(* (trade/api.ts, wallet/api.ts and the other clients alike).               *)
(***************************************************************************)
EXTENDS Naturals, Sequences

CONSTANTS
  Devices, Web,      \* the phones, and those of them that are browsers
  Accounts, Nobody,
  Calls, CallsOf,    \* requests, and the device each is made on
  MaxChallenges,     \* bound: challenges that are issued
  MaxSwitches,       \* bound: sign-ins, sign-outs and reloads
  MaxMishaps,        \* bound: faults of a behaviour
  Mishaps            \* a subset of {"lost", "doubled", "restart", "expired", "rotated"}

SignInAssumption ==
  /\ Web \subseteq Devices /\ Nobody \notin Accounts /\ CallsOf \in [Calls -> Devices]
  /\ {MaxChallenges, MaxSwitches, MaxMishaps} \subseteq Nat

VARIABLES
  who,        \* the account each device is signed in with
  token,      \* `tokenRef`
  mayReuse,   \* `mayReuseRef`
  flight,     \* `inFlightRef`: the sign-in that is under way
  seal,       \* sessionStorage: the sealed session, the token sealed beside it, and a save under way
  call,       \* each request
  challenge,  \* the server's outstanding challenge of each account
  issued,     \* whom each was issued to
  minted,     \* the tokens each challenge was swapped for
  secret,     \* stands for the server's secret, and for what has not expired
  switches, mishaps

signInVars == <<who, token, mayReuse, flight, seal, call, challenge, issued, minted, secret,
                switches, mishaps>>

-------------------------------------------------------------------------------
NoToken     == [of |-> Nobody, secret |-> 0]
Token(a)    == [of |-> a, secret |-> secret]
NoFlight    == [pc |-> "idle", signer |-> Nobody, nonce |-> 0, token |-> NoToken]
NoChallenge == 0
NoSeal      == [id |-> 0, of |-> Nobody, copyOf |-> 0, copy |-> NoToken, saving |-> 0,
                save |-> NoToken]
Unasked     == [pc |-> "idle", by |-> Nobody, with |-> NoToken, switched |-> FALSE]

Tokens  == [of : Accounts \cup {Nobody}, secret : Nat]
Flights == [pc : {"idle", "loading", "asking", "presenting", "minted", "loaded"},
            signer : Accounts \cup {Nobody}, nonce : 0..MaxChallenges, token : Tokens]
Seals   == [id : Nat, of : Accounts \cup {Nobody}, copyOf : Nat, copy : Tokens, saving : Nat,
            save : Tokens]
Asked   == [pc : {"idle", "sent", "waiting", "again", "last", "served", "refused"},
            by : Accounts \cup {Nobody}, with : Tokens, switched : BOOLEAN]

SignInTypeOK ==
  /\ who \in [Devices -> Accounts \cup {Nobody}] /\ token \in [Devices -> Tokens]
  /\ mayReuse \in [Devices -> BOOLEAN] /\ flight \in [Devices -> Flights]
  /\ seal \in [Devices -> Seals] /\ call \in [Calls -> Asked]
  /\ challenge \in [Accounts -> 0..MaxChallenges] /\ issued \in Seq([of : Accounts, to : Devices])
  /\ minted \in [1..MaxChallenges -> Nat] /\ secret \in Nat
  /\ switches \in 0..MaxSwitches /\ mishaps \in 0..MaxMishaps

SignInInit ==
  /\ who = [d \in Devices |-> Nobody] /\ token = [d \in Devices |-> NoToken]
  /\ mayReuse = [d \in Devices |-> TRUE] /\ flight = [d \in Devices |-> NoFlight]
  /\ seal = [d \in Devices |-> NoSeal] /\ call = [c \in Calls |-> Unasked]
  /\ challenge = [a \in Accounts |-> NoChallenge] /\ issued = <<>>
  /\ minted = [n \in 1..MaxChallenges |-> 0] /\ secret = 1 /\ switches = 0 /\ mishaps = 0

Mishap(kind) == kind \in Mishaps /\ mishaps < MaxMishaps /\ mishaps' = mishaps + 1

ServerKeeps == UNCHANGED <<challenge, issued, minted, secret>>
On(d)       == {c \in Calls : CallsOf[c] = d}
Open(c)     == call[c].pc \in {"sent", "waiting", "again", "last"}

-------------------------------------------------------------------------------
(* The user signs in or out, or reloads the page.  A browser seals what it signs
   in with, under a key of its own, and drops it all at sign-out. *)
Switches(d, to) ==
  /\ switches < MaxSwitches /\ switches' = switches + 1 /\ to # who[d]
  /\ who' = [who EXCEPT ![d] = to]
  /\ token' = [token EXCEPT ![d] = NoToken] /\ mayReuse' = [mayReuse EXCEPT ![d] = TRUE]
  /\ seal' = IF d \in Web
             THEN [seal EXCEPT ![d].id = IF to = Nobody THEN 0 ELSE switches + 1, ![d].of = to,
                               ![d].copyOf = 0, ![d].copy = NoToken]
             ELSE seal
  /\ call' = [c \in Calls |-> IF c \in On(d) /\ Open(c) THEN [call[c] EXCEPT !.switched = TRUE] ELSE call[c]]
  /\ UNCHANGED <<flight, mishaps>> /\ ServerKeeps

Reloads(d) ==
  /\ switches < MaxSwitches /\ switches' = switches + 1 /\ who[d] # Nobody
  /\ who' = [who EXCEPT ![d] = seal[d].of]
  /\ token' = [token EXCEPT ![d] = NoToken] /\ mayReuse' = [mayReuse EXCEPT ![d] = TRUE]
  /\ flight' = [flight EXCEPT ![d] = NoFlight]
  /\ seal' = [seal EXCEPT ![d].saving = 0, ![d].save = NoToken]
  /\ call' = [c \in Calls |-> IF c \in On(d) /\ Open(c) THEN Unasked ELSE call[c]]
  /\ UNCHANGED mishaps /\ ServerKeeps

-------------------------------------------------------------------------------
(* `refresh`: the attempt under way, whoever it is for, or a new one. *)
Taken(d) == flight[d].pc # "idle"

Joins(d) ==
  IF Taken(d) THEN UNCHANGED <<flight, mayReuse>>
  ELSE /\ flight' = [flight EXCEPT ![d] =
            [NoFlight EXCEPT !.pc = IF mayReuse[d] THEN "loading" ELSE "asking", !.signer = who[d]]]
       /\ mayReuse' = [mayReuse EXCEPT ![d] = FALSE]

(* As soon as there is a key to sign with. *)
SignsIn(d) ==
  /\ who[d] # Nobody /\ token[d] = NoToken /\ ~Taken(d) /\ Joins(d)
  /\ UNCHANGED <<who, token, seal, call, switches, mishaps>> /\ ServerKeeps

(* Mutant of Settled: nobody looks who is signed in by now. *)
SettledBlindly(d, t) == t

(* What arrives after a switch is thrown away. *)
Settled(d, t) == IF who[d] = flight[d].signer THEN t ELSE NoToken

(* The attempt is over: the requests that wait go on with its token, or without. *)
Lands(d, t) ==
  LET kept == Settled(d, t)
  IN /\ flight' = [flight EXCEPT ![d] = NoFlight]
     /\ token' = IF kept = NoToken THEN token ELSE [token EXCEPT ![d] = kept]
     /\ call' = [c \in Calls |->
          IF c \in On(d) /\ call[c].pc \in {"waiting", "again"}
          THEN [call[c] EXCEPT !.pc = IF kept = NoToken THEN "refused" ELSE "last", !.with = kept]
          ELSE call[c]]

(* `unsealToken`: the copy beside this session's seal, of this account. *)
Unsealed(d) == IF seal[d].copyOf = seal[d].id /\ seal[d].id # 0 /\ seal[d].of = flight[d].signer
               THEN seal[d].copy ELSE NoToken

Loads(d) ==
  /\ flight[d].pc = "loading"
  /\ flight' = [flight EXCEPT ![d].pc = IF Unsealed(d) = NoToken THEN "asking" ELSE "loaded",
                              ![d].token = Unsealed(d)]
  /\ UNCHANGED <<who, token, mayReuse, seal, call, switches, mishaps>> /\ ServerKeeps

(* `put`: an earlier challenge of the account is abandoned. *)
Challenges(d) ==
  LET n == Len(issued) + 1
  IN /\ flight[d].pc = "asking" /\ n <= MaxChallenges
     /\ issued' = Append(issued, [of |-> flight[d].signer, to |-> d])
     /\ challenge' = [challenge EXCEPT ![flight[d].signer] = n]
     /\ flight' = [flight EXCEPT ![d].pc = "presenting", ![d].nonce = n]
     /\ UNCHANGED <<who, token, mayReuse, seal, call, minted, secret, switches, mishaps>>

(* `take`: spent on presentation. *)
Spent(a, n) == [challenge EXCEPT ![a] = NoChallenge]

Presents(d) ==
  LET a == flight[d].signer
      n == flight[d].nonce
  IN /\ flight[d].pc = "presenting" /\ challenge' = Spent(a, n)
     /\ IF challenge[a] = n
        THEN /\ minted' = [minted EXCEPT ![n] = @ + 1]
             /\ flight' = [flight EXCEPT ![d].pc = "minted", ![d].token = Token(a)]
             /\ UNCHANGED <<token, call>>
        ELSE Lands(d, NoToken) /\ UNCHANGED minted
     /\ UNCHANGED <<who, mayReuse, seal, issued, secret, switches, mishaps>>

(* The answered request reaches the server once more. *)
Repeats(d) ==
  LET a == flight[d].signer
      n == flight[d].nonce
  IN /\ flight[d].pc = "minted" /\ Mishap("doubled") /\ challenge' = Spent(a, n)
     /\ minted' = [minted EXCEPT ![n] = IF challenge[a] = n THEN @ + 1 ELSE @]
     /\ UNCHANGED <<who, token, mayReuse, flight, seal, call, issued, secret, switches>>

(* Kept, and sealed in a while if it was signed for. *)
Arrives(d) ==
  /\ flight[d].pc \in {"minted", "loaded"} /\ Lands(d, flight[d].token)
  /\ seal' = IF flight[d].pc = "minted" /\ Settled(d, flight[d].token) # NoToken /\ seal[d].id # 0
             THEN [seal EXCEPT ![d].saving = seal[d].id, ![d].save = flight[d].token] ELSE seal
  /\ UNCHANGED <<who, mayReuse, switches, mishaps>> /\ ServerKeeps

Saves(d) ==
  /\ seal[d].saving # 0
  /\ seal' = [seal EXCEPT ![d].copyOf = seal[d].saving, ![d].copy = seal[d].save,
                          ![d].saving = 0, ![d].save = NoToken]
  /\ UNCHANGED <<who, token, mayReuse, flight, call, switches, mishaps>> /\ ServerKeeps

(* A request or its answer is lost, after or before the server acted on it. *)
Loses(d) ==
  /\ flight[d].pc \in {"asking", "presenting", "minted"} /\ Mishap("lost")
  /\ Lands(d, NoToken)
  /\ UNCHANGED <<who, mayReuse, seal, switches>> /\ ServerKeeps

-------------------------------------------------------------------------------
(* Requests: with the token there is, or with the one that is waited for. *)
Asks(c) ==
  LET d == CallsOf[c]
  IN /\ call[c].pc = "idle" /\ who[d] # Nobody
     /\ IF token[d] = NoToken
        THEN Joins(d) /\ call' = [call EXCEPT ![c] = [Unasked EXCEPT !.pc = "waiting", !.by = who[d]]]
        ELSE /\ call' = [call EXCEPT ![c] =
                           [Unasked EXCEPT !.pc = "sent", !.by = who[d], !.with = token[d]]]
             /\ UNCHANGED <<flight, mayReuse>>
     /\ UNCHANGED <<who, token, seal, switches, mishaps>> /\ ServerKeeps

Good(t) == t # NoToken /\ t.secret = secret

(* A refusal asks for another token, once. *)
Answered(c) ==
  LET d == CallsOf[c]
  IN /\ call[c].pc \in {"sent", "last"}
     /\ IF Good(call[c].with)
        THEN call' = [call EXCEPT ![c].pc = "served"] /\ UNCHANGED <<flight, mayReuse>>
        ELSE IF call[c].pc = "last" \/ who[d] = Nobody
        THEN call' = [call EXCEPT ![c].pc = "refused"] /\ UNCHANGED <<flight, mayReuse>>
        ELSE call' = [call EXCEPT ![c].pc = "again"] /\ Joins(d)
     /\ UNCHANGED <<who, token, seal, switches, mishaps>> /\ ServerKeeps

-------------------------------------------------------------------------------
(* The server restarts and forgets its challenges; one expires; every token does,
   or is not good under a new secret. *)
Forgets ==
  /\ \/ Mishap("restart") /\ challenge' = [a \in Accounts |-> NoChallenge]
     \/ \E a \in Accounts : challenge[a] # NoChallenge /\ Mishap("expired")
                            /\ challenge' = [challenge EXCEPT ![a] = NoChallenge]
  /\ challenge' # challenge
  /\ UNCHANGED <<who, token, mayReuse, flight, seal, call, issued, minted, secret, switches>>

Rotates ==
  /\ Mishap("rotated") /\ secret' = secret + 1
  /\ UNCHANGED <<who, token, mayReuse, flight, seal, call, challenge, issued, minted, switches>>

SignInNext ==
  \/ Forgets \/ Rotates
  \/ \E d \in Devices :
       \/ \E a \in Accounts \cup {Nobody} : Switches(d, a)
       \/ Reloads(d) \/ SignsIn(d) \/ Loads(d) \/ Challenges(d) \/ Presents(d) \/ Repeats(d)
       \/ Arrives(d) \/ Saves(d) \/ Loses(d)
  \/ \E c \in Calls : Asks(c) \/ Answered(c)

SignInSpec == SignInInit /\ [][SignInNext]_signInVars

-------------------------------------------------------------------------------
(* The token at hand, and every one that is sent, names whoever was signed in:
   what arrives after a switch, or was sealed for another, is not used.  A
   request that waited for a token while the user switched is the exception: it
   is sent for the one who is signed in now (trade/api.ts:224). *)
TokensNameTheUser ==
  /\ \A d \in Devices : token[d] # NoToken => token[d].of = who[d]
  /\ \A c \in Calls : call[c].with # NoToken /\ ~call[c].switched => call[c].with.of = call[c].by

(* A challenge is swapped for one token at most, whoever presents it again. *)
ChallengesAreSpent == \A n \in 1..MaxChallenges : minted[n] <= 1

(* A device's requests never abandon each other's challenge, nor does a switch
   and back: a signature is refused because another device asked meanwhile, or
   because the challenge was lost. *)
NobodyAbandonsTheirOwn ==
  \A d \in Devices :
    LET a == flight[d].signer
    IN flight[d].pc = "presenting" /\ challenge[a] # flight[d].nonce =>
         \/ mishaps > 0
         \/ \E n \in DOMAIN issued : issued[n].of = a /\ issued[n].to # d

(* A device holds, and sends, only tokens of the account that is signed in on
   it, whatever it switched to or reloaded while one was asked for
   (session/auth.ts:183); a challenge is swapped for one token at most
   (challenge.ts:107); and only another device, or a loss, makes a signature come
   too late (session/auth.ts:171). *)
SessionsAreTrue ==
  SignInTypeOK /\ TokensNameTheUser /\ ChallengesAreSpent /\ NobodyAbandonsTheirOwn
===============================================================================
