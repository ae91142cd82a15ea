--------------------------- MODULE UserTradesProofs ---------------------------
(***************************************************************************)
(* What a user's trades promise, for any number of trades, readers, phones *)
(* and orders: the requests the server sends of them and what it records   *)
(* (TradeExecution), what the phone that follows one is told               *)
(* (TradeFollow), and what it says of its orders at Perpl (PerplOrders).   *)
(*                                                                         *)
(* TradeExecution's invariant relates, trade by trade, the record, the     *)
(* requests and the executor's place in it (StepsFit, StageFits,           *)
(* MoneyFits); a read's copy of the steps to the steps it will overwrite   *)
(* (ReadFits); the executor to the wallet's queue (QueueFits); and the     *)
(* requests sent so far to the trades they were sent for (LogFits).        *)
(***************************************************************************)
EXTENDS TradeExecution, TradeFollow, PerplOrders, TLAPS

-------------------------------------------------------------------------------
(* The execution of a trade (TradeExecution). *)

StepRecs      == [kind : Kinds, status : StepStatuses, hash : BOOLEAN]
TradeStatuses == {"none", "planning", "prepared", "executing", "completed", "failed", "forgotten"}
TradeRecs     == [status : TradeStatuses, client : ClientIds \cup {Nobody}, steps : StepsOf,
                  deadline : Nat, updated : Nat, result : {"none", "order", "nothing"},
                  funds : {"unsaid", "wallet", "kuru"}]
Places        == [pc : {"idle", "queued", "sending", "asked", "following", "reading"}, step : Nat]
Ops           == {"none", "asked", "out", "landed", "empty", "reverted", "gone"}

Unsent == {"awaiting_signature", "queued", "not_sent"}
Taken  == {"asked", "out", "landed", "empty", "reverted"}
Ran    == {"landed", "empty"}
Shut   == {"landed", "empty", "reverted"}

(* What may have become of the request of a step with this status. *)
Fits(status, o) ==
  /\ status \in {"awaiting_signature", "queued"} => o = "none"
  /\ status = "submitted" => o \in {"out", "landed", "empty", "reverted"}
  /\ status = "included" => o \in Ran
  /\ status = "reverted" => o = "reverted"
  /\ status = "not_sent" => o \in {"none", "gone"}
  /\ status = "unknown" => o \in Taken

(* After a step that is not known to have landed, nothing is requested. *)
InOrder(steps) ==
  \A i, j \in DOMAIN steps :
    i < j /\ steps[i].status # "included" => steps[j].status \in Unsent

OnePlace(steps) ==
  \A i, j \in DOMAIN steps : {steps[i].kind, steps[j].kind} \subseteq Placing => i = j

(* A trade's record and its requests; a is the executor's place in it. *)
StepsFit(rec, ops, a) ==
  /\ DOMAIN ops = DOMAIN rec.steps
  /\ \A i \in DOMAIN ops : IF a.pc = "asked" /\ i = a.step THEN ops[i] \in Taken
                           ELSE Fits(rec.steps[i].status, ops[i])
  /\ \A i, j \in DOMAIN ops :
       i < j /\ rec.steps[i].status # "included" => ops[j] = "none"
  /\ InOrder(rec.steps) /\ OnePlace(rec.steps)

Stored == {"prepared", "executing", "completed", "failed"}
Ended  == {"included", "reverted", "not_sent", "unknown"}

(* Where the executor is in a trade's steps. *)
PlaceFits(rec, a) ==
  /\ a.step \in DOMAIN rec.steps
  /\ \A j \in DOMAIN rec.steps :
       /\ j < a.step => rec.steps[j].status = "included"
       /\ j > a.step => rec.steps[j].status = IF a.pc = "queued" THEN "awaiting_signature"
                                              ELSE "queued"
       /\ j = a.step =>
            rec.steps[j].status \in CASE a.pc = "queued" -> {"awaiting_signature"}
                                      [] a.pc = "following" -> {"submitted"}
                                      [] a.pc = "reading" -> {"included", "reverted"}
                                      [] OTHER -> {"queued"}

StageFits(rec, a) ==
  /\ rec.status \in {"none", "planning"} => rec.steps = <<>>
  /\ rec.status \in Stored => rec.steps # <<>>
  /\ rec.status \in Stored \cup {"planning"} => rec.client \in ClientIds
  /\ rec.status = "prepared" =>
       \A i \in DOMAIN rec.steps : rec.steps[i].status = "awaiting_signature"
  /\ a.pc # "idle" => rec.status = "executing" /\ rec.funds = "unsaid" /\ PlaceFits(rec, a)
  /\ a.pc = "queued" => a.step = 1
  /\ a.pc = "idle" /\ rec.status \in {"executing", "completed", "failed"} =>
       \A i \in DOMAIN rec.steps : rec.steps[i].status \in Ended
  /\ rec.status = "completed" => \A i \in DOMAIN rec.steps : rec.steps[i].status = "included"

(* An order that found nothing to take, and money said to be where it is. *)
ResultFits(result, steps, ops) ==
  result = "nothing" =>
    \E i \in DOMAIN steps : steps[i].kind \in Placing /\ ops[i] \in {"empty", "reverted"}

FundsFit(said, steps, ops) ==
  /\ said # "unsaid" => \A i \in DOMAIN steps : steps[i].status \notin InFlight
  /\ said = "wallet" =>
       \A i \in DOMAIN steps :
         steps[i].kind \in {"deposit", "batch"} => ops[i] \notin {"asked", "out"} \cup Ran
  /\ said = "kuru" =>
       /\ \E i \in DOMAIN steps : steps[i].kind \in {"deposit", "batch"} /\ ops[i] \in Ran
       /\ \A i \in DOMAIN steps :
            steps[i].kind \in Placing => ops[i] \notin {"asked", "out", "landed"}

MoneyFits(rec, ops) == ResultFits(rec.result, rec.steps, ops) /\ FundsFit(rec.funds, rec.steps, ops)

(* The trade that a read is about, and the steps as they were read: only the
   unknown one may have been settled since, by what became of its request. *)
Apart(steps, was, i) ==
  /\ was[i].status = "unknown"
  /\ \E status \in {"included", "reverted"} : steps[i] = [was[i] EXCEPT !.status = status]

ReadFits(r) ==
  LET t == read[r].trade
      was == read[r].steps
      steps == trade[t].steps
  IN /\ t \in Trades /\ at[t].pc = "idle"
     /\ trade[t].status \in {"executing", "completed", "failed", "forgotten"}
     /\ DOMAIN was = DOMAIN steps /\ InOrder(was)
     /\ \A i \in DOMAIN was : was[i].status \in Ended
     /\ \A i \in DOMAIN was : was[i] = steps[i] \/ Apart(steps, was, i)
     /\ read[r].pc = "settling" =>
          \A i \in Unsettled(was) : op[t][i] \in Shut /\ read[r].settled = Verdict(t, i)

QueueFits(t) ==
  /\ at[t].pc # "idle" => \E k \in DOMAIN queue : queue[k] = t
  /\ at[t].pc \notin {"idle", "queued"} => Head(queue) = t

HeldOnce ==
  \A t, u \in Trades : Held(t) /\ Held(u) /\ trade[t].client = trade[u].client => t = u

LogFits ==
  /\ \A k \in DOMAIN log : LET e == log[k] IN
       /\ e.step \in DOMAIN op[e.trade] /\ op[e.trade][e.step] # "none"
       /\ e.client = trade[e.trade].client
       /\ e.time <= now
       /\ trade[e.trade].status \in {"completed", "failed"} => e.time <= trade[e.trade].updated
       /\ trade[e.trade].status = "forgotten" => e.time + Retention <= now
       /\ at[e.trade].pc \notin {"idle", "queued"} => log[Len(log)].trade = e.trade

Grouped ==
  \A i, j, k \in DOMAIN log :
    i < j /\ j < k /\ log[i].trade = log[k].trade => log[j].trade = log[i].trade

Inv ==
  /\ TypeOK
  /\ \A t \in Trades :
       /\ StepsFit(trade[t], op[t], at[t]) /\ StageFits(trade[t], at[t])
       /\ MoneyFits(trade[t], op[t])
       /\ trade[t].updated <= now
       /\ QueueFits(t)
  /\ \A r \in Readers : read[r].pc # "idle" => ReadFits(r)
  /\ HeldOnce
  /\ LogFits /\ Grouped /\ KeysAreUsedOnce
-------------------------------------------------------------------------------
(* Sequences of steps and of requests. *)

(* A function of the first n numbers into a set is a sequence over it. *)
LEMMA IsSeq ==
  ASSUME NEW S, NEW n \in Nat, NEW f \in [1..n -> S]
  PROVE  f \in Seq(S) /\ Len(f) = n /\ DOMAIN f = 1..n
  OBVIOUS

(* Replacing one element leaves a sequence as long. *)
LEMMA Replaced ==
  ASSUME NEW S, NEW s \in Seq(S), NEW i \in DOMAIN s, NEW e \in S
  PROVE  LET f == [s EXCEPT ![i] = e]
         IN /\ f \in Seq(S) /\ Len(f) = Len(s) /\ DOMAIN f = DOMAIN s
            /\ f[i] = e /\ \A j \in DOMAIN s : j # i => f[j] = s[j]
  OBVIOUS

(* The elements of a sequence, and those of its tail, are those of its set. *)
LEMMA SeqParts ==
  ASSUME NEW S, NEW s \in Seq(S)
  PROVE  /\ Len(s) \in Nat /\ DOMAIN s = 1..Len(s)
         /\ \A i \in DOMAIN s : s[i] \in S
         /\ s # <<>> <=> 1 \in DOMAIN s
         /\ s # <<>> => /\ Tail(s) \in Seq(S)
                        /\ \A k \in DOMAIN s : k > 1 => k - 1 \in DOMAIN Tail(s)
                                                     /\ Tail(s)[k - 1] = s[k]
  OBVIOUS

(* What TypeOK says of one trade, of one read and of one request. *)
LEMMA TypedTrade ==
  ASSUME TypeOK, NEW t \in Trades
  PROVE  /\ trade[t] \in TradeRecs /\ trade[t].steps \in Seq(StepRecs)
         /\ at[t] \in Places /\ op[t] \in Seq(Ops)
  BY DEF TypeOK, TradeRecs, TradeStatuses, StepsOf, StepRecs, Places, Ops

LEMMA TypedRead ==
  ASSUME TypeOK, NEW r \in Readers
  PROVE  /\ read[r].steps \in Seq(StepRecs) /\ read[r].trade \in Trades \cup {Nobody}
         /\ read[r].settled \in {"none", "included", "reverted"}
         /\ read[r].pc \in {"idle", "asking", "settling"}
         /\ read[r] = [pc |-> read[r].pc, trade |-> read[r].trade, steps |-> read[r].steps,
                       settled |-> read[r].settled]
  BY DEF TypeOK, StepsOf, StepRecs

LEMMA TypedLog ==
  ASSUME TypeOK, NEW k \in DOMAIN log
  PROVE  /\ log[k].trade \in Trades /\ log[k].client \in ClientIds
         /\ log[k].step \in Nat /\ log[k].time \in Nat
<1>1. log \in Seq([trade : Trades, client : ClientIds, step : Nat, time : Nat])
  BY DEF TypeOK
<1>2. log[k] \in [trade : Trades, client : ClientIds, step : Nat, time : Nat]
  BY <1>1, SeqParts
<1> QED BY <1>2

LEMMA Typed ==
  ASSUME TypeOK
  PROVE  /\ trade \in [Trades -> TradeRecs] /\ at \in [Trades -> Places]
         /\ op \in [Trades -> Seq(Ops)] /\ queue \in Seq(Trades) /\ now \in Nat
         /\ \A t \in Trades : /\ trade[t].steps \in Seq(StepRecs)
                              /\ trade[t].result \in {"none", "order", "nothing"}
                              /\ trade[t].updated \in Nat
<1>1. now \in 0..MaxTime
  BY DEF TypeOK
<1>2. MaxTime \in Nat
  BY TradeAssumption
<1>3. now \in Nat
  BY <1>1, <1>2
<1>4. /\ trade \in [Trades -> TradeRecs] /\ at \in [Trades -> Places]
      /\ op \in [Trades -> Seq(Ops)] /\ queue \in Seq(Trades)
  BY DEF TypeOK, TradeRecs, TradeStatuses, StepsOf, StepRecs, Places, Ops
<1>5. \A t \in Trades : trade[t] \in TradeRecs
  BY <1>4
<1>6. \A t \in Trades : /\ trade[t].steps \in Seq(StepRecs)
                        /\ trade[t].result \in {"none", "order", "nothing"}
                        /\ trade[t].updated \in Nat
  BY <1>5 DEF TradeRecs, StepsOf, StepRecs
<1> QED BY <1>3, <1>4, <1>6

-------------------------------------------------------------------------------
(* What the steps say of the money. *)

(* What a landed placing step is read to have left is so. *)
LEMMA ResultsFit ==
  ASSUME NEW t \in Trades, NEW steps \in Seq(StepRecs), NEW i \in DOMAIN steps,
         NEW before \in {"none", "order", "nothing"},
         NEW result \in Results(t, i, steps[i], before),
         ResultFits(before, steps, op[t]), DOMAIN op[t] = DOMAIN steps,
         steps[i].status \in {"included", "reverted"}, Fits(steps[i].status, op[t][i])
  PROVE  ResultFits(result, steps, op[t]) /\ result \in {"none", "order", "nothing"}
  BY DEF Results, ResultFits, Fits, Ran

(* When the funds are newly said to be somewhere. *)
LEMMA FundsAfterCases ==
  ASSUME NEW steps, NEW result, NEW said, FundsAfter(steps, result, said) # said
  PROVE  LET after == FundsAfter(steps, result, said)
         IN /\ after \in {"wallet", "kuru"}
            /\ ~Some(steps, Kinds, InFlight)
            /\ after = "wallet" => ~Some(steps, {"deposit", "batch"}, {"included"})
            /\ after = "kuru" => /\ Some(steps, {"deposit", "batch"}, {"included"})
                                 /\ ~Some(steps, Placing, {"included"}) \/ result = "nothing"
  BY DEF FundsAfter

(* Steps of the same kinds place as often. *)
LEMMA SameKinds ==
  ASSUME NEW was, NEW steps, DOMAIN steps = DOMAIN was, OnePlace(was),
         \A i \in DOMAIN steps : steps[i].kind = was[i].kind
  PROVE  OnePlace(steps)
  BY DEF OnePlace

(* Where the funds are said to be, they are. *)
LEMMA FundsAfterFit ==
  ASSUME NEW steps \in Seq(StepRecs), NEW ops \in Seq(Ops),
         NEW result \in {"none", "order", "nothing"}, NEW said \in {"unsaid", "wallet", "kuru"},
         DOMAIN ops = DOMAIN steps, \A i \in DOMAIN ops : Fits(steps[i].status, ops[i]),
         OnePlace(steps), ResultFits(result, steps, ops), FundsFit(said, steps, ops)
  PROVE  /\ FundsFit(FundsAfter(steps, result, said), steps, ops)
         /\ FundsAfter(steps, result, said) \in {"unsaid", "wallet", "kuru"}
<1> DEFINE after == FundsAfter(steps, result, said)
<1>1. CASE after = said
  BY <1>1
<1>2. CASE after # said
  <2>1. /\ after \in {"wallet", "kuru"}
        /\ ~Some(steps, Kinds, InFlight)
        /\ after = "wallet" => ~Some(steps, {"deposit", "batch"}, {"included"})
        /\ after = "kuru" => /\ Some(steps, {"deposit", "batch"}, {"included"})
                             /\ ~Some(steps, Placing, {"included"}) \/ result = "nothing"
    BY <1>2, FundsAfterCases
  <2>2. \A i \in DOMAIN steps : steps[i].kind \in Kinds /\ steps[i].status \in StepStatuses
    <3>1. \A i \in DOMAIN steps : steps[i] \in StepRecs
      BY SeqParts
    <3> QED BY <3>1 DEF StepRecs
  <2>3. \A i \in DOMAIN steps : /\ steps[i].status \in {"included", "reverted", "not_sent"}
                                /\ Fits(steps[i].status, ops[i])
    BY <2>1, <2>2 DEF Some, InFlight, StepStatuses
  <2>4. CASE after = "wallet"
    BY <2>1, <2>2, <2>3, <2>4 DEF Some, FundsFit, Fits, Ran, InFlight
  <2>5. CASE after = "kuru"
    <3>1. \E i \in DOMAIN steps : steps[i].kind \in {"deposit", "batch"} /\ ops[i] \in Ran
      BY <2>1, <2>3, <2>5 DEF Some, Fits
    <3>2. ASSUME NEW i \in DOMAIN steps, steps[i].kind \in Placing
          PROVE  ops[i] \notin {"asked", "out", "landed"}
      <4>1. CASE ~Some(steps, Placing, {"included"})
        BY <2>3, <3>2, <4>1 DEF Some, Fits
      <4>2. CASE result = "nothing"
        <5>1. PICK j \in DOMAIN steps : /\ steps[j].kind \in Placing
                                        /\ ops[j] \in {"empty", "reverted"}
          BY <4>2 DEF ResultFits
        <5>2. i = j
          BY <3>2, <5>1 DEF OnePlace
        <5> QED BY <5>1, <5>2
      <4> QED BY <2>1, <2>5, <4>1, <4>2
    <3>3. \A i \in DOMAIN steps : steps[i].status \notin InFlight
      BY <2>3 DEF InFlight
    <3> QED BY <2>5, <3>1, <3>2, <3>3 DEF FundsFit
  <2> QED BY <2>1, <2>4, <2>5
<1> QED BY <1>1, <1>2

-------------------------------------------------------------------------------
(* The executor's steps. *)

RecordFits(t) ==
  /\ StepsFit(trade[t], op[t], at[t]) /\ StageFits(trade[t], at[t]) /\ MoneyFits(trade[t], op[t])

(* What every step of the executor at trade t does to that trade, and all that
   it does but for what it sends. *)
Worked(t) ==
  /\ at[t].pc # "idle" /\ trade[t].status = "executing"
  /\ trade' = [trade EXCEPT ![t] = trade'[t]] /\ trade'[t] \in TradeRecs
  /\ at' = [at EXCEPT ![t] = at'[t]] /\ at'[t] \in Places
  /\ op' = [op EXCEPT ![t] = op'[t]] /\ op'[t] \in Seq(Ops)
  /\ at'[t].step \in 0..Len(trade'[t].steps)
  /\ trade'[t].client = trade[t].client
  /\ trade'[t].status \in {"executing", "completed", "failed"}
  /\ trade'[t].updated \in {trade[t].updated, now}
  /\ trade'[t].status # "executing" => trade'[t].updated = now
  /\ RecordFits(t)'
  /\ \A i \in DOMAIN op[t] : op[t][i] # "none" => i \in DOMAIN op'[t] /\ op'[t][i] # "none"
  /\ \/ queue' = queue /\ at'[t].pc # "idle" /\ Head(queue) = t
     \/ queue' = Tail(queue) /\ at'[t].pc = "idle" /\ at[t].pc # "queued"
  /\ UNCHANGED <<now, read>>

(* A trade that is being executed has a place in its steps. *)
LEMMA WhereItIs ==
  ASSUME Inv, NEW t \in Trades, at[t].pc # "idle"
  PROVE  /\ trade[t].status = "executing" /\ trade[t].funds = "unsaid"
         /\ trade[t].client \in ClientIds
         /\ PlaceFits(trade[t], at[t])
         /\ at[t].step \in DOMAIN trade[t].steps
         /\ DOMAIN op[t] = DOMAIN trade[t].steps
         /\ DOMAIN trade[t].steps = 1..Len(trade[t].steps) /\ Len(trade[t].steps) \in Nat
         /\ now \in Nat /\ trade[t].updated <= now
<1>1. TypeOK /\ StageFits(trade[t], at[t]) /\ StepsFit(trade[t], op[t], at[t])
      /\ trade[t].updated <= now
  BY DEF Inv
<1>2. trade[t].steps \in Seq(StepRecs)
  BY <1>1, TypedTrade
<1>3. now \in Nat
  BY <1>1, TradeAssumption DEF TypeOK
<1> QED BY <1>1, <1>2, <1>3, SeqParts DEF StageFits, StepsFit, PlaceFits, Stored

(* A step that does not end the trade: its record's steps and result, its
   place and its requests are as they should be. *)
GoesOnWith(t, steps, result, place, ops) ==
  /\ trade' = [trade EXCEPT ![t] = [trade[t] EXCEPT !.steps = steps, !.result = result,
                                                    !.updated = trade'[t].updated]]
  /\ trade'[t].updated \in {trade[t].updated, now}
  /\ at' = [at EXCEPT ![t] = place] /\ op' = [op EXCEPT ![t] = ops]
  /\ UNCHANGED <<now, queue, read>>
  /\ place.pc \notin {"idle", "queued"} /\ Head(queue) = t
  /\ DOMAIN steps = DOMAIN trade[t].steps /\ DOMAIN ops = DOMAIN op[t]
  /\ \A i \in DOMAIN steps : steps[i].kind = trade[t].steps[i].kind
  /\ \A i \in DOMAIN ops : IF place.pc = "asked" /\ i = place.step THEN ops[i] \in Taken
                           ELSE Fits(steps[i].status, ops[i])
  /\ \A i \in DOMAIN op[t] : op[t][i] # "none" => ops[i] # "none"
  /\ PlaceFits([trade[t] EXCEPT !.steps = steps], place)
  /\ ResultFits(result, steps, ops)

LEMMA GoesOn ==
  ASSUME Inv, NEW t \in Trades, at[t].pc # "idle",
         NEW steps \in Seq(StepRecs), NEW result \in {"none", "order", "nothing"},
         NEW place \in Places, NEW ops \in Seq(Ops), GoesOnWith(t, steps, result, place, ops)
  PROVE  Worked(t)
<1> USE DEF GoesOnWith
<1> USE DEF Inv
<1>1. /\ trade \in [Trades -> TradeRecs] /\ at \in [Trades -> Places]
      /\ op \in [Trades -> Seq(Ops)] /\ now \in Nat
  BY Typed
<1>2. /\ trade[t].status = "executing" /\ trade[t].funds = "unsaid"
      /\ trade[t].client \in ClientIds
      /\ at[t].step \in DOMAIN trade[t].steps /\ DOMAIN op[t] = DOMAIN trade[t].steps
  BY WhereItIs
<1> DEFINE rec == [trade[t] EXCEPT !.steps = steps, !.result = result,
                                   !.updated = trade'[t].updated]
<1>3. /\ rec \in TradeRecs /\ rec.steps = steps /\ rec.result = result
      /\ rec.status = "executing" /\ rec.funds = "unsaid" /\ rec.client = trade[t].client
  <2>1. trade'[t].updated \in Nat
    BY <1>1, Typed DEF Inv
  <2> HIDE DEF Inv
  <2>2. trade[t] \in TradeRecs /\ steps \in StepsOf
    BY <1>1 DEF StepsOf, StepRecs
  <2> QED BY <1>2, <2>1, <2>2 DEF TradeRecs
<1> USE DEF Inv
<1>4. trade'[t] = rec /\ at'[t] = place /\ op'[t] = ops
  BY <1>1
<1>5. place.step \in DOMAIN steps /\ DOMAIN steps = 1..Len(steps)
  <2>1. [trade[t] EXCEPT !.steps = steps].steps = steps
    BY <1>1 DEF TradeRecs
  <2> QED BY <2>1, SeqParts DEF PlaceFits
<1>6. StepsFit(rec, ops, place)
  <2>1. ASSUME NEW i \in DOMAIN ops, NEW j \in DOMAIN ops, i < j, steps[i].status # "included"
        PROVE  ops[j] = "none" /\ steps[j].status \in Unsent
    <3>1. ~(i < place.step)
      BY <1>1, <1>2, <2>1 DEF PlaceFits, TradeRecs
    <3>2. j > place.step
      BY <1>2, <1>5, <2>1, <3>1
    <3>3. steps[j].status = "queued"
      BY <1>1, <1>2, <2>1, <3>2 DEF PlaceFits, TradeRecs
    <3>4. Fits(steps[j].status, ops[j])
      BY <1>2, <1>5, <2>1, <3>2
    <3> QED BY <3>3, <3>4 DEF Fits, Unsent
  <2>2. OnePlace(trade[t].steps)
    BY DEF StepsFit
  <2>3. OnePlace(steps)
    BY <2>2, SameKinds
  <2>4. InOrder(steps)
    BY <1>2, <2>1 DEF InOrder
  <2> QED BY <1>2, <1>3, <2>1, <2>3, <2>4 DEF StepsFit
<1>7. StageFits(rec, place)
  <2>1. PlaceFits(rec, place)
    BY <1>1, <1>3 DEF PlaceFits, TradeRecs
  <2>2. steps # <<>>
    BY <1>5, SeqParts
  <2> QED BY <1>2, <1>3, <2>1, <2>2 DEF StageFits
<1>8. MoneyFits(rec, ops)
  BY <1>3 DEF MoneyFits, FundsFit
<1>9. RecordFits(t)'
  BY <1>4, <1>6, <1>7, <1>8 DEF RecordFits
<1>10. place.step \in 0..Len(steps)
  BY <1>5
<1> QED BY <1>1, <1>2, <1>3, <1>4, <1>9, <1>10 DEF Worked

LEMMA StartsWorks ==
  ASSUME Inv, NEW t \in Trades, Starts(t)
  PROVE  Worked(t) /\ log' = log
<1> DEFINE steps == [i \in DOMAIN trade[t].steps |->
                       [trade[t].steps[i] EXCEPT !.status = "queued"]]
           place == [at[t] EXCEPT !.pc = "sending"]
<1>1. /\ trade \in [Trades -> TradeRecs] /\ at \in [Trades -> Places]
      /\ op \in [Trades -> Seq(Ops)] /\ trade[t].steps \in Seq(StepRecs)
  BY Typed DEF Inv
<1>2. /\ at[t].pc = "queued" /\ PlaceFits(trade[t], at[t]) /\ at[t].step = 1
      /\ DOMAIN op[t] = DOMAIN trade[t].steps
      /\ DOMAIN trade[t].steps = 1..Len(trade[t].steps) /\ Len(trade[t].steps) \in Nat
  BY WhereItIs DEF Starts, Inv, StageFits
<1>3. \A i \in DOMAIN trade[t].steps : trade[t].steps[i].status = "awaiting_signature"
  BY <1>2 DEF PlaceFits
<1>4. \A i \in DOMAIN op[t] : op[t][i] = "none"
  BY <1>2, <1>3 DEF Inv, StepsFit, Fits
<1>5. steps \in Seq(StepRecs) /\ DOMAIN steps = DOMAIN trade[t].steps
  <2>1. ASSUME NEW i \in DOMAIN trade[t].steps
        PROVE  [trade[t].steps[i] EXCEPT !.status = "queued"] \in StepRecs
    <3>1. trade[t].steps[i] \in StepRecs
      BY <1>1, SeqParts
    <3> QED BY <3>1 DEF StepRecs, StepStatuses
  <2>2. steps \in [1..Len(trade[t].steps) -> StepRecs]
    BY <1>2, <2>1
  <2> QED BY <1>2, <2>2, IsSeq
<1>6. \A i \in DOMAIN steps : steps[i].status = "queued" /\ steps[i].kind = trade[t].steps[i].kind
  BY <1>1, SeqParts DEF StepRecs
<1>7. place \in Places /\ place.pc = "sending" /\ place.step = at[t].step
  BY <1>1 DEF Places
<1>8. trade' = [trade EXCEPT ![t] = [trade[t] EXCEPT !.steps = steps, !.updated = now]]
  BY <1>1 DEF Starts, Update, TradeRecs
<1>9. /\ trade' = [trade EXCEPT ![t] = [trade[t] EXCEPT !.steps = steps, !.result = trade[t].result,
                                                       !.updated = trade'[t].updated]]
      /\ trade'[t].updated = now
  BY <1>1, <1>8 DEF TradeRecs
<1>10. ResultFits(trade[t].result, steps, op[t])
  BY <1>4, <1>2 DEF Inv, MoneyFits, ResultFits
<1>11. PlaceFits([trade[t] EXCEPT !.steps = steps], place)
  <2>1. [trade[t] EXCEPT !.steps = steps].steps = steps
    BY <1>1 DEF TradeRecs
  <2> QED BY <1>2, <1>5, <1>6, <1>7, <2>1 DEF PlaceFits
<1>12. \A i \in DOMAIN op[t] : Fits(steps[i].status, op[t][i])
  BY <1>2, <1>4, <1>6 DEF Fits
<1>13. /\ at' = [at EXCEPT ![t] = place] /\ op' = [op EXCEPT ![t] = op[t]]
       /\ Head(queue) = t /\ UNCHANGED <<now, queue, read, log>>
  BY <1>1 DEF Starts
<1>14. trade[t].result \in {"none", "order", "nothing"} /\ op[t] \in Seq(Ops)
  BY <1>1 DEF TradeRecs
<1> HIDE DEF steps, place
<1>15. GoesOnWith(t, steps, trade[t].result, place, op[t])
  BY <1>5, <1>6, <1>7, <1>9, <1>10, <1>11, <1>12, <1>13 DEF GoesOnWith
<1> QED BY <1>2, <1>5, <1>7, <1>13, <1>14, <1>15, GoesOn

LEMMA SendsWorks ==
  ASSUME Inv, NEW t \in Trades, Sends(t)
  PROVE  Worked(t) /\ op[t][at[t].step] = "none" /\ op'[t][at[t].step] = "asked"
                   /\ at[t].pc = "sending" /\ at'[t].pc = "asked"
<1> DEFINE i == at[t].step
           ops == [op[t] EXCEPT ![i] = "asked"]
           place == [at[t] EXCEPT !.pc = "asked"]
<1>1. /\ trade \in [Trades -> TradeRecs] /\ at \in [Trades -> Places]
      /\ op \in [Trades -> Seq(Ops)] /\ trade[t].steps \in Seq(StepRecs)
  BY Typed DEF Inv
<1>2. /\ at[t].pc = "sending" /\ PlaceFits(trade[t], at[t]) /\ i \in DOMAIN trade[t].steps
      /\ DOMAIN op[t] = DOMAIN trade[t].steps
      /\ DOMAIN trade[t].steps = 1..Len(trade[t].steps) /\ Len(trade[t].steps) \in Nat
  BY WhereItIs DEF Sends
<1>3. trade[t].steps[i].status = "queued"
  BY <1>2 DEF PlaceFits
<1>4. \A j \in DOMAIN op[t] : Fits(trade[t].steps[j].status, op[t][j])
  BY <1>2 DEF Inv, StepsFit
<1>5. op[t][i] = "none"
  BY <1>2, <1>3, <1>4 DEF Fits
<1>6. /\ ops \in Seq(Ops) /\ DOMAIN ops = DOMAIN op[t] /\ ops[i] = "asked"
      /\ \A j \in DOMAIN op[t] : j # i => ops[j] = op[t][j]
  BY <1>1, <1>2, Replaced DEF Ops
<1>7. place \in Places /\ place.pc = "asked" /\ place.step = i
  BY <1>1 DEF Places
<1>8. /\ trade' = [trade EXCEPT ![t] = [trade[t] EXCEPT !.steps = trade[t].steps,
                     !.result = trade[t].result, !.updated = trade'[t].updated]]
      /\ trade'[t].updated = trade[t].updated
  BY <1>1 DEF Sends, TradeRecs
<1>9. /\ at' = [at EXCEPT ![t] = place] /\ op' = [op EXCEPT ![t] = ops]
      /\ UNCHANGED <<now, queue, read>> /\ op'[t] = ops /\ at'[t] = place
  BY <1>1 DEF Sends
<1>10. Head(queue) = t
  BY <1>2 DEF Inv, QueueFits
<1>11. ResultFits(trade[t].result, trade[t].steps, ops)
  BY <1>5, <1>6, <1>2 DEF Inv, MoneyFits, ResultFits
<1>12. PlaceFits([trade[t] EXCEPT !.steps = trade[t].steps], place)
  <2>1. [trade[t] EXCEPT !.steps = trade[t].steps].steps = trade[t].steps
    BY <1>1 DEF TradeRecs
  <2> QED BY <1>2, <1>7, <2>1 DEF PlaceFits
<1>13. \A j \in DOMAIN ops : IF place.pc = "asked" /\ j = place.step THEN ops[j] \in Taken
                             ELSE Fits(trade[t].steps[j].status, ops[j])
  BY <1>4, <1>6, <1>7 DEF Taken
<1>14. trade[t].result \in {"none", "order", "nothing"}
  BY <1>1 DEF TradeRecs
<1>15. \A j \in DOMAIN op[t] : op[t][j] # "none" => ops[j] # "none"
  BY <1>6
<1> HIDE DEF ops, place
<1>16. GoesOnWith(t, trade[t].steps, trade[t].result, place, ops)
  BY <1>6, <1>7, <1>8, <1>9, <1>10, <1>11, <1>12, <1>13, <1>15 DEF GoesOnWith
<1>17. Worked(t)
  BY <1>1, <1>2, <1>6, <1>7, <1>14, <1>16, GoesOn
<1> QED BY <1>2, <1>5, <1>6, <1>7, <1>9, <1>17

(* A step's status changes and the executor's wait with it, nothing else. *)
LEMMA StatusChanges ==
  ASSUME Inv, NEW t \in Trades, NEW step \in StepRecs, NEW pc \in {"following", "reading"},
         at[t].pc \in {"asked", "following"}, at[t].pc = "following" => pc = "reading",
         step.kind = trade[t].steps[at[t].step].kind,
         pc = "following" => step.status = "submitted",
         pc = "reading" => step.status \in {"included", "reverted"},
         Fits(step.status, op[t][at[t].step]),
         trade' = [trade EXCEPT ![t] = [[trade[t] EXCEPT !.steps[at[t].step] = step]
                                          EXCEPT !.updated = now]],
         at' = [at EXCEPT ![t].pc = pc],
         UNCHANGED <<now, queue, read, op, log>>
  PROVE  Worked(t)
<1> DEFINE i == at[t].step
           steps == [trade[t].steps EXCEPT ![i] = step]
           place == [at[t] EXCEPT !.pc = pc]
<1>1. /\ trade \in [Trades -> TradeRecs] /\ at \in [Trades -> Places]
      /\ op \in [Trades -> Seq(Ops)] /\ trade[t].steps \in Seq(StepRecs)
  BY Typed DEF Inv
<1>2. /\ PlaceFits(trade[t], at[t]) /\ i \in DOMAIN trade[t].steps
      /\ DOMAIN op[t] = DOMAIN trade[t].steps
      /\ DOMAIN trade[t].steps = 1..Len(trade[t].steps) /\ Len(trade[t].steps) \in Nat
  BY WhereItIs
<1>3. \A j \in DOMAIN op[t] : j # i => Fits(trade[t].steps[j].status, op[t][j])
  BY <1>2 DEF Inv, StepsFit
<1>4. /\ steps \in Seq(StepRecs) /\ DOMAIN steps = DOMAIN trade[t].steps /\ steps[i] = step
      /\ \A j \in DOMAIN trade[t].steps : j # i => steps[j] = trade[t].steps[j]
  BY <1>1, <1>2, Replaced
<1>5. place \in Places /\ place.pc = pc /\ place.step = i
  BY <1>1 DEF Places
<1>6. /\ trade' = [trade EXCEPT ![t] = [trade[t] EXCEPT !.steps = steps,
                     !.result = trade[t].result, !.updated = trade'[t].updated]]
      /\ trade'[t].updated = now
  BY <1>1 DEF TradeRecs
<1>7. at' = [at EXCEPT ![t] = place] /\ op' = [op EXCEPT ![t] = op[t]]
  BY <1>1
<1>8. Head(queue) = t
  BY DEF Inv, QueueFits
<1>9. ResultFits(trade[t].result, steps, op[t])
  BY <1>2, <1>4 DEF Inv, MoneyFits, ResultFits
<1>10. PlaceFits([trade[t] EXCEPT !.steps = steps], place)
  <2>1. [trade[t] EXCEPT !.steps = steps].steps = steps
    BY <1>1 DEF TradeRecs
  <2> QED BY <1>2, <1>4, <1>5, <2>1 DEF PlaceFits
<1>11. \A j \in DOMAIN op[t] : Fits(steps[j].status, op[t][j])
  BY <1>2, <1>3, <1>4
<1>12. trade[t].result \in {"none", "order", "nothing"} /\ op[t] \in Seq(Ops)
  BY <1>1 DEF TradeRecs
<1>13. \A j \in DOMAIN steps : steps[j].kind = trade[t].steps[j].kind
  BY <1>4
<1> HIDE DEF steps, place
<1>14. GoesOnWith(t, steps, trade[t].result, place, op[t])
  BY <1>4, <1>5, <1>6, <1>7, <1>8, <1>9, <1>10, <1>11, <1>13 DEF GoesOnWith
<1> QED BY <1>4, <1>5, <1>12, <1>14, GoesOn

LEMMA SubmittedWorks ==
  ASSUME Inv, NEW t \in Trades, Submitted(t)
  PROVE  Worked(t) /\ log' = log
<1> DEFINE i == at[t].step
           step == [trade[t].steps[i] EXCEPT !.status = "submitted", !.hash = TRUE]
<1>1. trade \in [Trades -> TradeRecs] /\ trade[t].steps \in Seq(StepRecs)
  BY Typed DEF Inv
<1>2. i \in DOMAIN trade[t].steps /\ DOMAIN op[t] = DOMAIN trade[t].steps /\ at[t].pc = "asked"
      /\ PlaceFits(trade[t], at[t])
  BY WhereItIs DEF Submitted
<1>3. trade[t].steps[i] \in StepRecs
  BY <1>1, <1>2, SeqParts
<1>4. step \in StepRecs /\ step.status = "submitted" /\ step.kind = trade[t].steps[i].kind
  BY <1>3 DEF StepRecs, StepStatuses
<1>5. op[t][i] \in {"out", "landed", "empty", "reverted"}
  <2>1. op[t][i] \in Taken
    BY <1>2 DEF Inv, StepsFit
  <2> QED BY <2>1 DEF Submitted, Taken
<1>6. Fits(step.status, op[t][i])
  BY <1>4, <1>5 DEF Fits
<1>7. trade' = [trade EXCEPT ![t] = [[trade[t] EXCEPT !.steps[i] = step] EXCEPT !.updated = now]]
  BY <1>1 DEF Submitted, Update, TradeRecs
<1>8. at' = [at EXCEPT ![t].pc = "following"] /\ UNCHANGED <<now, queue, read, op, log>>
  BY DEF Submitted
<1> HIDE DEF step
<1> QED BY <1>2, <1>4, <1>6, <1>7, <1>8, StatusChanges

(* The verdict on an operation that is in a block. *)
LEMMA VerdictFits ==
  ASSUME NEW t \in Trades, NEW i, op[t][i] \in Shut
  PROVE  Verdict(t, i) \in {"included", "reverted"} /\ Fits(Verdict(t, i), op[t][i])
  BY DEF Verdict, Fits, Shut, Ran

LEMMA ReceiptInWorks ==
  ASSUME Inv, NEW t \in Trades, ReceiptIn(t)
  PROVE  Worked(t) /\ log' = log
<1> DEFINE i == at[t].step
           step == [trade[t].steps[i] EXCEPT !.status = Verdict(t, i)]
<1>1. trade \in [Trades -> TradeRecs] /\ trade[t].steps \in Seq(StepRecs)
  BY Typed DEF Inv
<1>2. i \in DOMAIN trade[t].steps /\ at[t].pc = "following"
  BY WhereItIs DEF ReceiptIn
<1>3. Verdict(t, i) \in {"included", "reverted"} /\ Fits(Verdict(t, i), op[t][i])
  BY VerdictFits DEF ReceiptIn, Shut
<1>4. trade[t].steps[i] \in StepRecs
  BY <1>1, <1>2, SeqParts
<1>5. /\ step \in StepRecs /\ step.status = Verdict(t, i)
      /\ step.kind = trade[t].steps[i].kind
  BY <1>3, <1>4 DEF StepRecs, StepStatuses
<1>6. trade' = [trade EXCEPT ![t] = [[trade[t] EXCEPT !.steps[i] = step] EXCEPT !.updated = now]]
  BY <1>1 DEF ReceiptIn, Update, TradeRecs
<1>7. at' = [at EXCEPT ![t].pc = "reading"] /\ UNCHANGED <<now, queue, read, op, log>>
  BY DEF ReceiptIn
<1> HIDE DEF step
<1> QED BY <1>2, <1>3, <1>5, <1>6, <1>7, StatusChanges

(* A step that ends the executor's run of a trade. *)
ClosesWith(t, steps, result, status, ops) ==
  /\ trade' = [trade EXCEPT ![t] = [trade[t] EXCEPT
                 !.steps = steps, !.result = result, !.status = status,
                 !.funds = FundsAfter(steps, result, trade[t].funds), !.updated = now]]
  /\ at' = [at EXCEPT ![t] = Nowhere] /\ op' = [op EXCEPT ![t] = ops]
  /\ queue' = Tail(queue) /\ UNCHANGED <<now, read>>
  /\ DOMAIN steps = DOMAIN trade[t].steps /\ DOMAIN ops = DOMAIN op[t]
  /\ \A i \in DOMAIN steps : /\ steps[i].kind = trade[t].steps[i].kind
                             /\ Fits(steps[i].status, ops[i])
                             /\ steps[i].status \in Ended
                             /\ status = "completed" => steps[i].status = "included"
                             /\ op[t][i] # "none" => ops[i] # "none"
  /\ \A i, j \in DOMAIN steps :
       i < j /\ steps[i].status # "included" => steps[j].status \in Unsent /\ ops[j] = "none"
  /\ ResultFits(result, steps, ops)

LEMMA Closes ==
  ASSUME Inv, NEW t \in Trades, at[t].pc \notin {"idle", "queued"},
         NEW steps \in Seq(StepRecs), NEW result \in {"none", "order", "nothing"},
         NEW status \in {"executing", "completed", "failed"}, NEW ops \in Seq(Ops),
         ClosesWith(t, steps, result, status, ops)
  PROVE  Worked(t)
<1> USE DEF ClosesWith
<1>1. /\ trade \in [Trades -> TradeRecs] /\ at \in [Trades -> Places]
      /\ op \in [Trades -> Seq(Ops)] /\ now \in Nat
  BY Typed DEF Inv
<1>2. /\ trade[t].status = "executing" /\ trade[t].funds = "unsaid"
      /\ trade[t].client \in ClientIds
      /\ at[t].step \in DOMAIN trade[t].steps /\ DOMAIN op[t] = DOMAIN trade[t].steps
  BY WhereItIs
<1>3. OnePlace(steps)
  <2>1. OnePlace(trade[t].steps)
    BY DEF Inv, StepsFit
  <2> QED BY <2>1, SameKinds
<1> DEFINE funds == FundsAfter(steps, result, trade[t].funds)
<1>4. FundsFit(funds, steps, ops) /\ funds \in {"unsaid", "wallet", "kuru"}
  <2>1. FundsFit("unsaid", steps, ops)
    BY DEF FundsFit
  <2> QED BY <1>2, <1>3, <2>1, FundsAfterFit
<1> HIDE DEF funds
<1> DEFINE rec == [trade[t] EXCEPT !.steps = steps, !.result = result, !.status = status,
                                   !.funds = funds, !.updated = now]
<1>5. /\ rec \in TradeRecs /\ rec.steps = steps /\ rec.result = result /\ rec.status = status
      /\ rec.funds = funds /\ rec.client = trade[t].client /\ rec.updated = now
  <2>1. steps \in StepsOf
    BY DEF StepsOf, StepRecs
  <2>2. status \in TradeStatuses /\ now \in Nat /\ trade[t] \in TradeRecs
    BY <1>1 DEF TradeStatuses
  <2>3. rec \in TradeRecs
    BY <1>4, <2>1, <2>2 DEF TradeRecs
  <2>4. rec.steps = steps /\ rec.result = result /\ rec.status = status
    BY <2>2 DEF TradeRecs
  <2>5. rec.funds = funds /\ rec.client = trade[t].client /\ rec.updated = now
    BY <2>2 DEF TradeRecs
  <2> QED BY <2>3, <2>4, <2>5
<1>6. trade'[t] = rec /\ at'[t] = Nowhere /\ op'[t] = ops
  BY <1>1 DEF funds
<1>7. Nowhere \in Places /\ Nowhere.pc = "idle" /\ Nowhere.step = 0
  BY DEF Nowhere, Places
<1>8. StepsFit(rec, ops, Nowhere)
  BY <1>2, <1>3, <1>5, <1>7 DEF StepsFit, InOrder
<1>9. StageFits(rec, Nowhere)
  <2>1. steps # <<>>
    BY <1>2, SeqParts
  <2> QED BY <1>2, <1>5, <1>7, <2>1 DEF StageFits
<1>10. MoneyFits(rec, ops)
  BY <1>4, <1>5 DEF MoneyFits
<1>11. RecordFits(t)'
  BY <1>6, <1>8, <1>9, <1>10 DEF RecordFits
<1>12. 0 \in 0..Len(steps)
  BY SeqParts
<1>13. trade' = [trade EXCEPT ![t] = trade'[t]] /\ at' = [at EXCEPT ![t] = at'[t]]
       /\ op' = [op EXCEPT ![t] = op'[t]]
  BY <1>1
<1> HIDE DEF rec
<1> QED BY <1>2, <1>5, <1>6, <1>7, <1>11, <1>12, <1>13 DEF Worked

(* Whatever stops a trade at a step. *)
LEMMA StopWorks ==
  ASSUME Inv, NEW t \in Trades, NEW status \in {"unknown", "not_sent", "reverted"},
         NEW hash \in BOOLEAN, NEW ops \in Seq(Ops), Stop(t, status, hash),
         at[t].pc \in {"asked", "following", "reading"},
         op' = [op EXCEPT ![t] = ops], DOMAIN ops = DOMAIN op[t],
         \A j \in DOMAIN op[t] : j # at[t].step => ops[j] = op[t][j],
         ops[at[t].step] # op[t][at[t].step] => op[t][at[t].step] = "asked",
         ops[at[t].step] # "none", Fits(status, ops[at[t].step]),
         at[t].pc = "reading" => status = "reverted" /\ ops = op[t],
         UNCHANGED <<now, read>>
  PROVE  Worked(t)
<1> DEFINE i == at[t].step
           stopped(j) == IF j < i THEN trade[t].steps[j]
                         ELSE IF j = i THEN [trade[t].steps[j] EXCEPT !.status = status,
                                                                      !.hash = hash]
                         ELSE [trade[t].steps[j] EXCEPT !.status = "not_sent"]
           steps == [j \in DOMAIN trade[t].steps |-> stopped(j)]
<1>1. /\ trade \in [Trades -> TradeRecs] /\ at \in [Trades -> Places]
      /\ op \in [Trades -> Seq(Ops)] /\ trade[t].steps \in Seq(StepRecs)
  BY Typed DEF Inv
<1>2. /\ PlaceFits(trade[t], at[t]) /\ i \in DOMAIN trade[t].steps
      /\ DOMAIN op[t] = DOMAIN trade[t].steps
      /\ DOMAIN trade[t].steps = 1..Len(trade[t].steps) /\ Len(trade[t].steps) \in Nat
      /\ trade[t].status = "executing"
  BY WhereItIs
<1>3. \A j \in DOMAIN op[t] : j # i => Fits(trade[t].steps[j].status, op[t][j])
  BY <1>2 DEF Inv, StepsFit
<1>4. \A j \in DOMAIN trade[t].steps : trade[t].steps[j] \in StepRecs
  BY <1>1, SeqParts
<1>5. \A j \in DOMAIN trade[t].steps :
        /\ stopped(j) \in StepRecs /\ stopped(j).kind = trade[t].steps[j].kind
        /\ j < i => stopped(j).status = "included"
        /\ j = i => stopped(j).status = status
        /\ j > i => stopped(j).status = "not_sent" /\ ops[j] = "none"
  <2> TAKE j \in DOMAIN trade[t].steps
  <2>1. CASE j < i
    BY <1>2, <1>4, <2>1 DEF PlaceFits
  <2>2. CASE j = i
    <3>1. trade[t].steps[j] \in StepRecs
      BY <1>4
    <3>2. /\ stopped(j) = [trade[t].steps[j] EXCEPT !.status = status, !.hash = hash]
          /\ status \in StepStatuses
      BY <1>2, <2>2 DEF StepStatuses
    <3> HIDE DEF stopped
    <3>3. stopped(j) \in StepRecs /\ stopped(j).kind = trade[t].steps[j].kind
          /\ stopped(j).status = status
      BY <3>1, <3>2 DEF StepRecs
    <3> QED BY <1>2, <2>2, <3>3
  <2>3. CASE j > i
    <3>1. ops[j] = "none"
      BY <1>2, <1>3, <2>3 DEF PlaceFits, Fits
    <3> QED BY <1>2, <1>4, <2>3, <3>1 DEF StepRecs, StepStatuses
  <2> QED BY <1>2, <2>1, <2>2, <2>3
<1>6. steps \in Seq(StepRecs) /\ DOMAIN steps = DOMAIN trade[t].steps
  <2>1. steps \in [1..Len(trade[t].steps) -> StepRecs]
    BY <1>2, <1>5
  <2> QED BY <1>2, <2>1, IsSeq
<1>7. \A j \in DOMAIN steps : steps[j] = stopped(j)
  OBVIOUS
<1>8. PICK result \in IF at[t].pc = "reading" THEN Results(t, i, steps[i], trade[t].result)
                      ELSE {trade[t].result} :
        Update(t, [trade[t] EXCEPT !.steps = steps, !.result = result,
                     !.status = IF status = "unknown" THEN @ ELSE "failed",
                     !.funds = FundsAfter(steps, result, @)])
  BY <1>2 DEF Stop
<1>9. /\ queue' = Tail(queue) /\ at' = [at EXCEPT ![t] = Nowhere]
  BY DEF Stop
<1> HIDE DEF steps, stopped
<1>10. /\ steps[i].status = status /\ Fits(steps[i].status, ops[i])
       /\ \A j \in DOMAIN steps : j # i => Fits(steps[j].status, ops[j])
  BY <1>2, <1>3, <1>5, <1>6, <1>7 DEF Fits, PlaceFits
<1>11. ResultFits(trade[t].result, steps, ops) /\ trade[t].result \in {"none", "order", "nothing"}
  <2>1. ResultFits(trade[t].result, trade[t].steps, op[t])
    BY DEF Inv, MoneyFits
  <2> QED BY <1>1, <1>2, <1>5, <1>6, <1>7, <2>1 DEF ResultFits, TradeRecs
<1>12. ResultFits(result, steps, ops) /\ result \in {"none", "order", "nothing"}
  <2>1. CASE at[t].pc = "reading"
    <3>1. ops = op[t] /\ result \in Results(t, i, steps[i], trade[t].result)
      BY <1>8, <2>1
    <3>2. i \in DOMAIN steps /\ steps[i].status \in {"included", "reverted"}
          /\ DOMAIN op[t] = DOMAIN steps
      BY <1>2, <1>6, <1>10, <2>1
    <3> QED BY <1>6, <1>10, <1>11, <3>1, <3>2, ResultsFit
  <2>2. CASE at[t].pc # "reading"
    BY <1>8, <1>11, <2>2
  <2> QED BY <2>1, <2>2
<1> DEFINE after == IF status = "unknown" THEN "executing" ELSE "failed"
<1>13. trade' = [trade EXCEPT ![t] = [trade[t] EXCEPT
                   !.steps = steps, !.result = result, !.status = after,
                   !.funds = FundsAfter(steps, result, trade[t].funds), !.updated = now]]
  BY <1>1, <1>2, <1>8 DEF Update, TradeRecs
<1>14. \A j \in DOMAIN steps : /\ steps[j].kind = trade[t].steps[j].kind
                               /\ Fits(steps[j].status, ops[j])
                               /\ steps[j].status \in Ended
                               /\ op[t][j] # "none" => ops[j] # "none"
  BY <1>2, <1>5, <1>6, <1>7, <1>10 DEF Ended
<1>15. \A j, k \in DOMAIN steps :
         j < k /\ steps[j].status # "included" => steps[k].status \in Unsent /\ ops[k] = "none"
  BY <1>2, <1>5, <1>6, <1>7 DEF Unsent
<1>16. after \in {"executing", "failed"}
  OBVIOUS
<1> HIDE DEF after
<1>17. ClosesWith(t, steps, result, after, ops)
  BY <1>2, <1>6, <1>9, <1>12, <1>13, <1>14, <1>15, <1>16 DEF ClosesWith
<1> QED BY <1>6, <1>12, <1>16, <1>17, Closes

LEMMA StopsWork ==
  ASSUME Inv, NEW t \in Trades,
         Unfollowable(t) \/ SendRefused(t) \/ SendDropped(t) \/ TimesOut(t)
  PROVE  Worked(t) /\ log' = log
<1> DEFINE i == at[t].step
<1>1. op \in [Trades -> Seq(Ops)]
  BY DEF Inv, TypeOK, Ops
<1>2. /\ at[t].pc \in {"asked", "following"}
      /\ i \in DOMAIN op[t] /\ PlaceFits(trade[t], at[t])
  BY WhereItIs DEF Unfollowable, SendRefused, SendDropped, TimesOut
<1>3. op[t][i] \in Taken
  <2>1. CASE at[t].pc = "asked"
    BY <1>2, <2>1 DEF Inv, StepsFit
  <2>2. CASE at[t].pc = "following"
    <3>1. Fits("submitted", op[t][i])
      BY <1>2, <2>2 DEF Inv, StepsFit, PlaceFits
    <3> QED BY <3>1 DEF Fits, Taken
  <2> QED BY <1>2, <2>1, <2>2
<1>4. CASE SendRefused(t)
  <2> DEFINE ops == [op[t] EXCEPT ![i] = "gone"]
  <2>1. /\ ops \in Seq(Ops) /\ DOMAIN ops = DOMAIN op[t] /\ ops[i] = "gone"
        /\ \A j \in DOMAIN op[t] : j # i => ops[j] = op[t][j]
    BY <1>1, <1>2, Replaced DEF Ops
  <2>2. op' = [op EXCEPT ![t] = ops]
    BY <1>1, <1>4 DEF SendRefused
  <2>3. /\ Stop(t, "not_sent", FALSE) /\ op[t][i] = "asked" /\ at[t].pc = "asked"
        /\ UNCHANGED <<now, read, log>>
    BY <1>4 DEF SendRefused
  <2>4. Fits("not_sent", ops[i])
    BY <2>1 DEF Fits
  <2> HIDE DEF ops
  <2> QED BY <2>1, <2>2, <2>3, <2>4, StopWorks
<1>5. CASE Unfollowable(t) \/ SendDropped(t) \/ TimesOut(t)
  <2>1. PICK hash \in BOOLEAN : Stop(t, "unknown", hash)
    BY <1>5 DEF Unfollowable, SendDropped, TimesOut
  <2>2. op' = op /\ UNCHANGED <<now, read, log>>
    BY <1>5 DEF Unfollowable, SendDropped, TimesOut
  <2>3. op' = [op EXCEPT ![t] = op[t]] /\ op[t] \in Seq(Ops)
    BY <1>1, <2>2
  <2>4. Fits("unknown", op[t][i]) /\ op[t][i] # "none"
    BY <1>3 DEF Fits, Taken
  <2> QED BY <1>2, <2>1, <2>2, <2>3, <2>4, StopWorks
<1> QED BY <1>4, <1>5

LEMMA StepEndsWorks ==
  ASSUME Inv, NEW t \in Trades, StepEnds(t)
  PROVE  Worked(t) /\ log' = log
<1> DEFINE i == at[t].step
           steps == trade[t].steps
<1>1. /\ trade \in [Trades -> TradeRecs] /\ at \in [Trades -> Places]
      /\ op \in [Trades -> Seq(Ops)] /\ steps \in Seq(StepRecs)
      /\ trade[t].result \in {"none", "order", "nothing"}
  BY Typed DEF Inv
<1>2. /\ at[t].pc = "reading" /\ PlaceFits(trade[t], at[t]) /\ i \in DOMAIN steps
      /\ DOMAIN op[t] = DOMAIN steps
      /\ DOMAIN steps = 1..Len(steps) /\ Len(steps) \in Nat
      /\ trade[t].status = "executing"
  BY WhereItIs DEF StepEnds
<1>3. \A j \in DOMAIN steps : Fits(steps[j].status, op[t][j])
  BY <1>2 DEF Inv, StepsFit
<1>4. ResultFits(trade[t].result, steps, op[t])
  BY DEF Inv, MoneyFits
<1>5. UNCHANGED <<now, read, op, log>> /\ op' = [op EXCEPT ![t] = op[t]] /\ op[t] \in Seq(Ops)
  BY <1>1 DEF StepEnds
<1>6. steps[i].status \in {"included", "reverted"}
  BY <1>2 DEF PlaceFits
<1>7. CASE steps[i].status = "reverted" /\ Stop(t, "reverted", TRUE)
  <2>1. Fits("reverted", op[t][i])
    BY <1>2, <1>3, <1>7
  <2>2. op[t][i] # "none"
    BY <2>1 DEF Fits
  <2> QED BY <1>2, <1>5, <1>7, <2>1, <2>2, StopWorks
<1>8. CASE /\ steps[i].status = "included" /\ More(t, i)
           /\ \E result \in Results(t, i, steps[i], trade[t].result) :
                Update(t, [trade[t] EXCEPT !.result = result])
           /\ at' = [at EXCEPT ![t] = [pc |-> "sending", step |-> i + 1]]
           /\ UNCHANGED queue
  <2>1. PICK result \in Results(t, i, steps[i], trade[t].result) :
          Update(t, [trade[t] EXCEPT !.result = result])
    BY <1>8
  <2>2. ResultFits(result, steps, op[t]) /\ result \in {"none", "order", "nothing"}
    BY <1>1, <1>2, <1>3, <1>4, <1>6, ResultsFit
  <2> DEFINE place == [pc |-> "sending", step |-> i + 1]
  <2>3. place \in Places /\ place.pc = "sending" /\ place.step = i + 1
    BY <1>2 DEF Places
  <2>4. i + 1 \in DOMAIN steps
    BY <1>2, <1>8 DEF More
  <2>5. PlaceFits([trade[t] EXCEPT !.steps = steps], place)
    <3>1. [trade[t] EXCEPT !.steps = steps].steps = steps
      BY <1>1 DEF TradeRecs
    <3>2. \A j \in DOMAIN steps : /\ j < i + 1 => steps[j].status = "included"
                                  /\ j > i => steps[j].status = "queued"
      BY <1>2, <1>8 DEF PlaceFits
    <3> HIDE DEF place
    <3> QED BY <1>2, <2>3, <2>4, <3>1, <3>2 DEF PlaceFits
  <2>6. /\ trade' = [trade EXCEPT ![t] = [trade[t] EXCEPT !.steps = steps, !.result = result,
                       !.updated = trade'[t].updated]]
        /\ trade'[t].updated = now
    BY <1>1, <2>1 DEF Update, TradeRecs
  <2>7. at' = [at EXCEPT ![t] = place] /\ Head(queue) = t
    BY <1>2, <1>8 DEF Inv, QueueFits
  <2> HIDE DEF place
  <2>8. GoesOnWith(t, steps, result, place, op[t])
    BY <1>2, <1>3, <1>5, <1>8, <2>2, <2>3, <2>5, <2>6, <2>7 DEF GoesOnWith
  <2> QED BY <1>1, <1>2, <1>5, <2>2, <2>3, <2>8, GoesOn
<1>9. CASE /\ steps[i].status = "included" /\ ~More(t, i)
           /\ \E result \in Results(t, i, steps[i], trade[t].result) :
                Update(t, [trade[t] EXCEPT !.status = "completed", !.result = result,
                                           !.funds = FundsAfter(steps, result, @)])
           /\ at' = [at EXCEPT ![t] = Nowhere]
           /\ queue' = Tail(queue)
  <2>1. PICK result \in Results(t, i, steps[i], trade[t].result) :
          Update(t, [trade[t] EXCEPT !.status = "completed", !.result = result,
                                     !.funds = FundsAfter(steps, result, @)])
    BY <1>9
  <2>2. ResultFits(result, steps, op[t]) /\ result \in {"none", "order", "nothing"}
    BY <1>1, <1>2, <1>3, <1>4, <1>6, ResultsFit
  <2>3. i = Len(steps)
    BY <1>2, <1>9 DEF More
  <2>4. \A j \in DOMAIN steps : steps[j].status = "included"
    BY <1>2, <1>9, <2>3 DEF PlaceFits
  <2>5. trade' = [trade EXCEPT ![t] = [trade[t] EXCEPT
                   !.steps = steps, !.result = result, !.status = "completed",
                   !.funds = FundsAfter(steps, result, trade[t].funds), !.updated = now]]
    BY <1>1, <2>1 DEF Update, TradeRecs
  <2>6. \A j \in DOMAIN steps : /\ steps[j].kind = trade[t].steps[j].kind
                                /\ Fits(steps[j].status, op[t][j])
                                /\ steps[j].status \in Ended
    BY <1>3, <2>4 DEF Ended
  <2>7. ClosesWith(t, steps, result, "completed", op[t])
    BY <1>2, <1>5, <1>9, <2>2, <2>4, <2>5, <2>6 DEF ClosesWith
  <2> QED BY <1>1, <1>2, <1>5, <2>2, <2>7, Closes
<1> QED BY <1>7, <1>8, <1>9 DEF StepEnds

(* All of the executor's steps but those that send. *)
LEMMA WorkWorks ==
  ASSUME Inv, NEW t \in Trades, Work(t), ~Sends(t)
  PROVE  Worked(t) /\ log' = log
  BY StartsWorks, SubmittedWorks, StopsWork, ReceiptInWorks, StepEndsWorks
     DEF Work, Answer, Follow

(* What the invariant says, but of the log. *)
TradesFit ==
  /\ TypeOK
  /\ \A t \in Trades : RecordFits(t) /\ trade[t].updated <= now /\ QueueFits(t)
  /\ \A r \in Readers : read[r].pc # "idle" => ReadFits(r)
  /\ HeldOnce

LEMMA WorkKeepsTrades ==
  ASSUME Inv, NEW t \in Trades, Worked(t),
         log' \in Seq([trade : Trades, client : ClientIds, step : Nat, time : Nat])
  PROVE  TradesFit'
<1> USE DEF Worked
<1>1. /\ trade \in [Trades -> TradeRecs] /\ at \in [Trades -> Places]
      /\ op \in [Trades -> Seq(Ops)] /\ queue \in Seq(Trades) /\ now \in Nat
  BY Typed DEF Inv
<1>2. \A u \in Trades : u # t => trade'[u] = trade[u] /\ at'[u] = at[u] /\ op'[u] = op[u]
  BY <1>1
<1>3. queue # <<>>
  BY DEF Inv, QueueFits
<1>4. \A u \in Trades : QueueFits(u)'
  <2>1. CASE queue' = queue
    BY <1>2, <2>1 DEF Inv, QueueFits
  <2>2. CASE queue' = Tail(queue) /\ at'[t].pc = "idle" /\ at[t].pc # "queued"
    <3>1. Head(queue) = t /\ queue[1] = t /\ DOMAIN queue = 1..Len(queue) /\ Len(queue) \in Nat
      BY <1>1, <1>3, <2>2 DEF Inv, QueueFits
    <3>2. ASSUME NEW u \in Trades, u # t, at[u].pc # "idle"
          PROVE  QueueFits(u)'
      <4>1. PICK k \in DOMAIN queue : queue[k] = u
        BY <3>2 DEF Inv, QueueFits
      <4>2. k > 1
        BY <3>1, <3>2, <4>1
      <4>3. k - 1 \in DOMAIN Tail(queue) /\ Tail(queue)[k - 1] = u
        BY <1>1, <1>3, <4>1, <4>2, SeqParts
      <4>4. at[u].pc = "queued"
        BY <3>1, <3>2 DEF Inv, QueueFits
      <4> QED BY <1>2, <2>2, <3>2, <4>3, <4>4 DEF QueueFits
    <3> QED BY <1>2, <2>2, <3>2 DEF QueueFits
  <2> QED BY <2>1, <2>2
<1>5. TypeOK'
  <2>1. queue' \in Seq(Trades)
    <3>1. queue' = queue \/ queue' = Tail(queue)
      OBVIOUS
    <3>2. Tail(queue) \in Seq(Trades)
      BY <1>1, <1>3, SeqParts
    <3> QED BY <1>1, <3>1, <3>2
  <2>2. trade' \in [Trades -> TradeRecs] /\ at' \in [Trades -> Places] /\ op' \in [Trades -> Seq(Ops)]
    BY <1>1
  <2>3. \A u \in Trades : at'[u].step <= Len(trade'[u].steps)
    <3>1. at'[t].step <= Len(trade'[t].steps)
      OBVIOUS
    <3>2. \A u \in Trades : at[u].step <= Len(trade[u].steps)
      BY DEF Inv, TypeOK
    <3> QED BY <1>2, <3>1, <3>2
  <2>4. now \in 0..MaxTime
    BY DEF Inv, TypeOK
  <2> QED
    BY <1>1, <2>1, <2>2, <2>3, <2>4
       DEF Inv, TypeOK, TradeRecs, TradeStatuses, StepsOf, StepRecs, Places, Ops
<1>6. \A u \in Trades : RecordFits(u)'
  BY <1>2 DEF Inv, RecordFits
<1>7. \A u \in Trades : trade'[u].updated <= now
  <2>1. \A u \in Trades : trade[u].updated <= now
    BY DEF Inv
  <2>2. now <= now
    BY <1>1
  <2>3. trade'[t].updated = trade[t].updated \/ trade'[t].updated = now
    OBVIOUS
  <2> QED BY <1>2, <2>1, <2>2, <2>3
<1>8. ASSUME NEW r \in Readers, read[r].pc # "idle"
      PROVE  ReadFits(r)'
  <2>1. ReadFits(r) /\ read[r].trade # t
    BY <1>8 DEF Inv, ReadFits
  <2>2. UNCHANGED read /\ read[r].trade \in Trades
    BY <1>1, <1>2, <2>1 DEF ReadFits, Inv, TypeOK
  <2>3. trade'[read[r].trade] = trade[read[r].trade] /\ at'[read[r].trade] = at[read[r].trade]
        /\ op'[read[r].trade] = op[read[r].trade]
    BY <1>2, <2>1, <2>2
  <2> QED BY <2>1, <2>2, <2>3 DEF ReadFits, Verdict
<1>9. HeldOnce'
  BY <1>2 DEF Inv, HeldOnce, Held
<1> QED BY <1>4, <1>5, <1>6, <1>7, <1>8, <1>9 DEF TradesFit

(* A trade whose requests are in the log is no longer queued. *)
LEMMA SentIsStarted ==
  ASSUME Inv, NEW t \in Trades, at[t].pc = "queued", NEW i \in DOMAIN op[t]
  PROVE  op[t][i] = "none"
<1>1. /\ PlaceFits(trade[t], at[t]) /\ at[t].step = 1 /\ i \in 1..Len(trade[t].steps)
      /\ Len(trade[t].steps) \in Nat /\ i \in DOMAIN trade[t].steps
  BY WhereItIs DEF Inv, StageFits
<1>2. trade[t].steps[i].status = "awaiting_signature"
  BY <1>1 DEF PlaceFits
<1>3. Fits(trade[t].steps[i].status, op[t][i])
  BY DEF Inv, StepsFit
<1> QED BY <1>2, <1>3 DEF Fits

(* What LogFits says of one request; last is the trade of the last one. *)
LoggedFits(e, last) ==
  /\ e.step \in DOMAIN op[e.trade] /\ op[e.trade][e.step] # "none"
  /\ e.client = trade[e.trade].client
  /\ e.time <= now
  /\ trade[e.trade].status \in {"completed", "failed"} => e.time <= trade[e.trade].updated
  /\ trade[e.trade].status = "forgotten" => e.time + Retention <= now
  /\ at[e.trade].pc \notin {"idle", "queued"} => last = e.trade

LEMMA WorkKeepsLog ==
  ASSUME Inv, NEW t \in Trades, Worked(t), log' = log
  PROVE  LogFits' /\ Grouped' /\ KeysAreUsedOnce'
<1> USE DEF Worked
<1>1. /\ trade \in [Trades -> TradeRecs] /\ at \in [Trades -> Places]
      /\ op \in [Trades -> Seq(Ops)] /\ now \in Nat
  BY Typed DEF Inv
<1>2. \A u \in Trades : u # t => trade'[u] = trade[u] /\ at'[u] = at[u] /\ op'[u] = op[u]
  BY <1>1
<1>3. LogFits'
  <2> SUFFICES ASSUME NEW k \in DOMAIN log
               PROVE  LoggedFits(log[k], log[Len(log)].trade)'
    BY DEF LogFits, LoggedFits
  <2>1. LoggedFits(log[k], log[Len(log)].trade) /\ log[k].trade \in Trades
    BY TypedLog DEF Inv, LogFits, LoggedFits
  <2>2. CASE log[k].trade = t
    <3>1. at[t].pc # "queued"
      BY <2>1, <2>2, SentIsStarted DEF LoggedFits
    <3> QED BY <2>1, <2>2, <3>1 DEF LoggedFits
  <2>3. CASE log[k].trade # t
    BY <1>2, <2>1, <2>3 DEF LoggedFits
  <2> QED BY <2>2, <2>3
<1>4. Grouped'
  BY DEF Inv, Grouped
<1>5. KeysAreUsedOnce'
  BY DEF Inv, KeysAreUsedOnce
<1> QED BY <1>3, <1>4, <1>5

LEMMA SendsKeepsLog ==
  ASSUME Inv, NEW t \in Trades, Sends(t)
  PROVE  /\ LogFits' /\ Grouped' /\ KeysAreUsedOnce'
         /\ log' \in Seq([trade : Trades, client : ClientIds, step : Nat, time : Nat])
<1> DEFINE S == [trade : Trades, client : ClientIds, step : Nat, time : Nat]
           i == at[t].step
           e == [trade |-> t, client |-> trade[t].client, step |-> i, time |-> now]
           n == Len(log) + 1
<1>1. /\ trade \in [Trades -> TradeRecs] /\ at \in [Trades -> Places]
      /\ op \in [Trades -> Seq(Ops)] /\ now \in Nat
  BY Typed DEF Inv
<1>0. log \in Seq(S)
  BY DEF Inv, TypeOK
<1>2. Worked(t) /\ op[t][i] = "none" /\ op'[t][i] = "asked" /\ at[t].pc = "sending"
      /\ at'[t].pc = "asked"
  BY SendsWorks
<1>3. \A u \in Trades : u # t => trade'[u] = trade[u] /\ at'[u] = at[u] /\ op'[u] = op[u]
  BY <1>1, <1>2 DEF Worked
<1>4. /\ trade[t].client \in ClientIds /\ trade[t].status = "executing"
      /\ i \in DOMAIN op[t] /\ i \in Nat
  BY <1>1, WhereItIs, <1>2 DEF Places
<1>5. e \in S /\ e.trade = t /\ e.client = trade[t].client /\ e.step = i /\ e.time = now
  BY <1>1, <1>4
<1>6. log' = Append(log, e) /\ UNCHANGED <<now, trade>>
  BY DEF Sends
<1> HIDE DEF e
<1>7. /\ log' \in Seq(S) /\ Len(log') = n /\ DOMAIN log = 1..Len(log) /\ Len(log) \in Nat
      /\ DOMAIN log' = 1..n /\ log'[n] = e /\ \A k \in DOMAIN log : log'[k] = log[k]
  BY <1>0, <1>5, <1>6
<1>8. \A k \in DOMAIN log : LoggedFits(log[k], log[Len(log)].trade) /\ log[k] \in S
  <2>1. \A k \in DOMAIN log : log[k] \in S
    BY <1>0, SeqParts
  <2> QED BY <2>1 DEF Inv, LogFits, LoggedFits
<1>9. Head(queue) = t
  BY <1>2 DEF Inv, QueueFits
<1>10. \A u \in Trades : at'[u].pc \notin {"idle", "queued"} => u = t
  BY <1>3, <1>9 DEF Inv, QueueFits
<1>11. LogFits'
  <2> SUFFICES ASSUME NEW k \in DOMAIN log'
               PROVE  LoggedFits(log[k], log[Len(log)].trade)'
    BY DEF LogFits, LoggedFits
  <2>1. CASE k = n
    <3>1. log'[k] = e /\ log'[Len(log')] = e
      BY <1>7, <2>1
    <3>2. i \in DOMAIN op'[t]
      BY <1>1, <1>4 DEF Sends
    <3>3. now <= now
      BY <1>1
    <3> QED BY <1>2, <1>4, <1>5, <1>6, <3>1, <3>2, <3>3 DEF LoggedFits
  <2>2. CASE k \in DOMAIN log
    <3>1. LoggedFits(log[k], log[Len(log)].trade) /\ log[k].trade \in Trades /\ log'[k] = log[k]
      BY <1>7, <1>8, <2>2
    <3>2. log'[Len(log')].trade = t
      BY <1>5, <1>7
    <3>3. CASE log[k].trade = t
      BY <1>2, <1>4, <1>6, <3>1, <3>2, <3>3 DEF LoggedFits, Worked
    <3>4. CASE log[k].trade # t
      BY <1>3, <1>6, <1>10, <3>1, <3>2, <3>4 DEF LoggedFits
    <3> QED BY <3>3, <3>4
  <2> QED BY <1>7, <2>1, <2>2
<1>12. Grouped'
  <2> SUFFICES ASSUME NEW a \in DOMAIN log', NEW b \in DOMAIN log', NEW c \in DOMAIN log',
                      a < b, b < c, log'[a].trade = log'[c].trade
               PROVE  log'[b].trade = log'[a].trade
    BY DEF Grouped
  <2>0. \A x, y, z \in DOMAIN log :
          x < y /\ y < z /\ log[x].trade = log[z].trade => log[y].trade = log[x].trade
    BY DEF Inv, Grouped
  <2>1. CASE c # n
    <3>1. a \in DOMAIN log /\ b \in DOMAIN log /\ c \in DOMAIN log
      BY <1>7, <2>1
    <3> QED BY <1>7, <2>0, <3>1
  <2>2. CASE c = n
    <3>1. a \in DOMAIN log /\ b \in DOMAIN log /\ log[a].trade = t
          /\ Len(log) \in DOMAIN log /\ b <= Len(log)
      BY <1>5, <1>7, <2>2
    <3>2. log[Len(log)].trade = t
      BY <1>2, <1>8, <3>1 DEF LoggedFits
    <3> QED
      <4>1. CASE b = Len(log)
        BY <1>5, <1>7, <2>2, <3>2, <4>1
      <4>2. CASE b # Len(log)
        <5>1. b < Len(log) /\ log[a].trade = log[Len(log)].trade
          BY <1>7, <3>1, <3>2, <4>2
        <5>2. log[b].trade = log[a].trade
          BY <2>0, <3>1, <5>1
        <5> QED BY <1>7, <3>1, <5>2
      <4> QED BY <4>1, <4>2
  <2> QED BY <2>1, <2>2
<1>13. KeysAreUsedOnce'
  <2> SUFFICES ASSUME NEW a \in DOMAIN log', NEW b \in DOMAIN log', a < b,
                      log'[a].client = log'[b].client, log'[a].step = log'[b].step
               PROVE  log'[b].time >= log'[a].time + Retention
    BY DEF KeysAreUsedOnce
  <2>1. CASE b # n
    <3>1. a \in DOMAIN log /\ b \in DOMAIN log
      BY <1>7, <2>1
    <3>2. log'[a] = log[a] /\ log'[b] = log[b]
      BY <1>7, <3>1
    <3> QED BY <3>1, <3>2 DEF Inv, KeysAreUsedOnce
  <2>2. CASE b = n
    <3>1. a \in DOMAIN log /\ log'[a] = log[a] /\ log[a].client = trade[t].client
          /\ log[a].step = i /\ log'[b].time = now
      BY <1>5, <1>7, <2>2
    <3> DEFINE u == log[a].trade
    <3>2. u \in Trades /\ LoggedFits(log[a], log[Len(log)].trade) /\ log[a].time \in Nat
      BY <1>8, <3>1
    <3>3. u # t
      BY <1>2, <3>1, <3>2 DEF LoggedFits
    <3>4. ~Held(u)
      BY <1>4, <3>1, <3>2, <3>3 DEF Inv, HeldOnce, Held, LoggedFits
    <3>5. trade[u].status \notin {"none", "planning"}
      <4>1. StepsFit(trade[u], op[u], at[u]) /\ StageFits(trade[u], at[u])
        BY <3>2 DEF Inv
      <4> QED BY <1>1, <3>1, <3>2, <4>1 DEF StepsFit, StageFits, LoggedFits
    <3>6. trade[u].status = "forgotten"
      BY <1>1, <3>2, <3>4, <3>5 DEF Held, TradeRecs, TradeStatuses
    <3> QED BY <1>1, <3>1, <3>2, <3>6, TradeAssumption DEF LoggedFits
  <2> QED BY <2>1, <2>2
<1> QED BY <1>7, <1>11, <1>12, <1>13

LEMMA WorkKeeps ==
  ASSUME Inv, NEW t \in Trades, Work(t)
  PROVE  Inv'
<1>1. CASE Sends(t)
  BY <1>1, SendsWorks, SendsKeepsLog, WorkKeepsTrades
     DEF Inv, TradesFit, RecordFits
<1>2. CASE ~Sends(t)
  <2>1. Worked(t) /\ log' = log
    BY <1>2, WorkWorks
  <2>2. log' \in Seq([trade : Trades, client : ClientIds, step : Nat, time : Nat])
    BY <2>1 DEF Inv, TypeOK
  <2> QED BY <2>1, <2>2, WorkKeepsTrades, WorkKeepsLog DEF Inv, TradesFit, RecordFits
<1> QED BY <1>1, <1>2

-------------------------------------------------------------------------------
(* Preparing, forgetting and giving up: the store's own steps. *)

(* What such a step does to a trade that it changes: one not stored yet may
   become anything that fits; another is forgotten or given up. *)
Moved(t) ==
  /\ at[t].pc = "idle" /\ at[t].step <= Len(trade'[t].steps)
  /\ RecordFits(t)' /\ trade'[t].updated <= now
  /\ \/ trade[t].status \in {"none", "planning"}
     \/ /\ op'[t] = op[t]
        /\ trade'[t].steps = trade[t].steps /\ trade'[t].client = trade[t].client
        /\ \/ trade[t].status = "prepared" /\ trade'[t].status = "forgotten"
           \/ /\ trade[t].status \in {"completed", "failed"} /\ trade'[t].status = "forgotten"
              /\ trade[t].updated + Retention <= now
           \/ /\ trade[t].status = "executing" /\ trade'[t].status = "failed"
              /\ trade'[t].updated = now

(* A trade that is not stored, or only prepared, has been asked for nothing. *)
LEMMA NothingAskedYet ==
  ASSUME Inv, NEW t \in Trades, trade[t].status \in {"none", "planning", "prepared"}
  PROVE  /\ at[t].pc = "idle" /\ \A i \in DOMAIN op[t] : op[t][i] = "none"
         /\ trade[t].status \in {"none", "planning"} =>
              trade[t].steps = <<>> /\ DOMAIN op[t] = {} /\ at[t].step = 0
<1>1. StepsFit(trade[t], op[t], at[t]) /\ StageFits(trade[t], at[t])
  BY DEF Inv
<1>2. at[t].pc = "idle"
  BY <1>1 DEF StageFits
<1>3. \A i \in DOMAIN op[t] : Fits(trade[t].steps[i].status, op[t][i])
  BY <1>1, <1>2 DEF StepsFit
<1>4. CASE trade[t].status = "prepared"
  <2>1. \A i \in DOMAIN op[t] : trade[t].steps[i].status = "awaiting_signature"
    BY <1>1, <1>4 DEF StageFits, StepsFit
  <2> QED BY <1>2, <1>3, <1>4, <2>1 DEF Fits
<1>5. CASE trade[t].status \in {"none", "planning"}
  <2>1. trade[t].steps = <<>>
    BY <1>1, <1>5 DEF StageFits
  <2>2. DOMAIN op[t] = {}
    BY <1>1, <2>1 DEF StepsFit
  <2>3. at[t].step <= 0 /\ at[t].step \in Nat
    <3>1. at[t].step <= Len(trade[t].steps) /\ at[t] \in Places
      BY Typed DEF Inv, TypeOK
    <3> QED BY <2>1, <3>1 DEF Places
  <2> QED BY <1>2, <2>1, <2>2, <2>3
<1> QED BY <1>4, <1>5

LEMMA StoreChange ==
  ASSUME Inv, UNCHANGED <<now, queue, at, read, log>>,
         trade' \in [Trades -> TradeRecs], op' \in [Trades -> Seq(Ops)],
         \A t \in Trades : (trade'[t] = trade[t] /\ op'[t] = op[t]) \/ Moved(t),
         HeldOnce'
  PROVE  Inv'
<1>1. /\ trade \in [Trades -> TradeRecs] /\ at \in [Trades -> Places]
      /\ op \in [Trades -> Seq(Ops)] /\ now \in Nat
  BY Typed DEF Inv
<1>2. TypeOK'
  <2>1. \A t \in Trades : at'[t].step <= Len(trade'[t].steps)
    <3>1. \A t \in Trades : at[t].step <= Len(trade[t].steps)
      BY DEF Inv, TypeOK
    <3> QED BY <3>1 DEF Moved
  <2> QED BY <2>1 DEF Inv, TypeOK, TradeRecs, TradeStatuses, StepsOf, StepRecs, Places, Ops
<1>3. \A t \in Trades : RecordFits(t)' /\ trade'[t].updated <= now /\ QueueFits(t)'
  <2> TAKE t \in Trades
  <2>1. QueueFits(t)'
    BY DEF Inv, QueueFits
  <2>2. RecordFits(t) /\ trade[t].updated <= now
    BY DEF Inv, RecordFits
  <2>3. RecordFits(t)' /\ trade'[t].updated <= now
    BY <2>2 DEF Moved, RecordFits
  <2> QED BY <2>1, <2>3
<1>4. ASSUME NEW r \in Readers, read[r].pc # "idle"
      PROVE  ReadFits(r)'
  <2>1. ReadFits(r)
    BY <1>4 DEF Inv
  <2> DEFINE t == read[r].trade
  <2>2. /\ t \in Trades
        /\ trade[t].status \in {"executing", "completed", "failed", "forgotten"}
    BY <2>1 DEF ReadFits
  <2>3. /\ trade'[t].steps = trade[t].steps /\ op'[t] = op[t]
        /\ trade'[t].status \in {"executing", "completed", "failed", "forgotten"}
    BY <2>2 DEF Moved
  <2> QED BY <2>1, <2>2, <2>3 DEF ReadFits, Verdict
<1>5. LogFits'
  <2> SUFFICES ASSUME NEW k \in DOMAIN log
               PROVE  LoggedFits(log[k], log[Len(log)].trade)'
    BY DEF LogFits, LoggedFits
  <2> DEFINE e == log[k]
             t == e.trade
  <2>1. /\ LoggedFits(e, log[Len(log)].trade) /\ t \in Trades /\ e.time \in Nat
        /\ Retention \in Nat /\ trade[t].updated \in Nat
    BY TypedLog, Typed, TradeAssumption DEF Inv, LogFits, LoggedFits
  <2>2. trade[t].status \notin {"none", "planning", "prepared"}
    BY <2>1, NothingAskedYet DEF LoggedFits
  <2>3. CASE trade'[t] = trade[t] /\ op'[t] = op[t]
    BY <2>1, <2>3 DEF LoggedFits
  <2>4. CASE Moved(t)
    <3>1. op'[t] = op[t] /\ trade'[t].client = trade[t].client
      BY <2>2, <2>4 DEF Moved
    <3>2. trade'[t].status \in {"completed", "failed"} => e.time <= trade'[t].updated
      BY <2>1, <2>2, <2>4 DEF Moved, LoggedFits
    <3>3. trade'[t].status = "forgotten" => e.time + Retention <= now
      BY <1>1, <2>1, <2>2, <2>4 DEF Moved, LoggedFits
    <3> QED BY <2>1, <3>1, <3>2, <3>3 DEF LoggedFits
  <2> QED BY <2>1, <2>3, <2>4
<1>6. Grouped' /\ KeysAreUsedOnce'
  BY DEF Inv, Grouped, KeysAreUsedOnce
<1> QED BY <1>2, <1>3, <1>4, <1>5, <1>6 DEF Inv, RecordFits

(* A trade with no steps and nothing asked fits any record without money. *)
LEMMA EmptyFits ==
  ASSUME NEW t \in Trades, trade'[t].status \in {"planning", "forgotten"},
         trade'[t].steps = <<>>, DOMAIN op'[t] = {}, at'[t].pc = "idle",
         trade'[t].result = "none", trade'[t].funds = "unsaid",
         trade'[t].status = "planning" => trade'[t].client \in ClientIds
  PROVE  RecordFits(t)'
  BY DEF RecordFits, StepsFit, StageFits, MoneyFits, ResultFits, FundsFit, InOrder, OnePlace, Stored

LEMMA EmptyRecords ==
  /\ NoTrade \in TradeRecs /\ NoTrade.steps = <<>> /\ NoTrade.result = "none"
  /\ NoTrade.funds = "unsaid" /\ NoTrade.updated = 0
  /\ Unstored \in TradeRecs /\ Unstored.status = "forgotten" /\ Unstored.steps = <<>>
  /\ Unstored.result = "none" /\ Unstored.funds = "unsaid" /\ Unstored.updated = 0
<1>1. <<>> \in StepsOf
  BY DEF StepsOf
<1>2. NoTrade \in TradeRecs
  BY <1>1 DEF NoTrade, TradeRecs, TradeStatuses
<1>3. Unstored \in TradeRecs
  BY <1>2 DEF Unstored, TradeRecs, TradeStatuses
<1> QED BY <1>2, <1>3 DEF NoTrade, Unstored

LEMMA PreparesKeeps ==
  ASSUME Inv, NEW t \in Trades, Prepares(t)
  PROVE  Inv'
<1>1. trade \in [Trades -> TradeRecs] /\ op \in [Trades -> Seq(Ops)] /\ now \in Nat
  BY Typed DEF Inv
<1>2. UNCHANGED <<now, queue, at, read, op, log>> /\ trade[t].status = "none"
  BY DEF Prepares
<1>3. PICK c \in ClientIds :
        trade' = [trade EXCEPT ![t] = [NoTrade EXCEPT !.status = "planning", !.client = c,
                                                      !.updated = now]]
  BY DEF Prepares
<1> DEFINE rec == [NoTrade EXCEPT !.status = "planning", !.client = c, !.updated = now]
<1>4. /\ rec \in TradeRecs /\ rec.status = "planning" /\ rec.client = c /\ rec.updated = now
      /\ rec.steps = <<>> /\ rec.result = "none" /\ rec.funds = "unsaid"
  BY <1>1, EmptyRecords DEF TradeRecs, TradeStatuses
<1> HIDE DEF rec
<1>5. trade' = [trade EXCEPT ![t] = rec]
  BY <1>3 DEF rec
<1>6. trade' \in [Trades -> TradeRecs] /\ trade'[t] = rec
      /\ \A u \in Trades : u # t => trade'[u] = trade[u]
  BY <1>1, <1>4, <1>5
<1>7. at[t].pc = "idle" /\ DOMAIN op[t] = {} /\ at[t].step = 0
  BY <1>2, NothingAskedYet
<1>8. RecordFits(t)'
  BY <1>2, <1>4, <1>6, <1>7, EmptyFits
<1>9. at[t].step <= Len(trade'[t].steps) /\ now <= now
  BY <1>1, <1>4, <1>6, <1>7
<1>10. Moved(t)
  BY <1>2, <1>4, <1>6, <1>7, <1>8, <1>9 DEF Moved
<1>11. HeldOnce'
  BY <1>4, <1>6 DEF Inv, HeldOnce, Held
<1> QED BY <1>1, <1>2, <1>6, <1>10, <1>11, StoreChange

LEMMA PlanRefusedKeeps ==
  ASSUME Inv, NEW t \in Trades, PlanRefused(t)
  PROVE  Inv'
<1>1. trade \in [Trades -> TradeRecs] /\ op \in [Trades -> Seq(Ops)] /\ now \in Nat
  BY Typed DEF Inv
<1>2. /\ UNCHANGED <<now, queue, at, read, op, log>> /\ trade[t].status = "planning"
      /\ trade' = [trade EXCEPT ![t] = Unstored]
  BY DEF PlanRefused
<1>3. trade' \in [Trades -> TradeRecs] /\ trade'[t] = Unstored
      /\ \A u \in Trades : u # t => trade'[u] = trade[u]
  BY <1>1, <1>2, EmptyRecords
<1>4. at[t].pc = "idle" /\ DOMAIN op[t] = {} /\ at[t].step = 0
  BY <1>2, NothingAskedYet
<1>5. RecordFits(t)'
  BY <1>2, <1>3, <1>4, EmptyFits, EmptyRecords
<1>6. at[t].step <= Len(trade'[t].steps) /\ trade'[t].updated <= now
  BY <1>1, <1>3, <1>4, EmptyRecords
<1>7. Moved(t)
  BY <1>2, <1>4, <1>5, <1>6 DEF Moved
<1>8. HeldOnce'
  BY <1>3, EmptyRecords DEF Inv, HeldOnce, Held
<1> QED BY <1>1, <1>2, <1>3, <1>7, <1>8, StoreChange

(* The steps of a plan, to be signed. *)
LEMMA PlannedSteps ==
  ASSUME NEW plan \in Plans
  PROVE  LET steps == [i \in DOMAIN plan |->
                         [kind |-> plan[i], status |-> "awaiting_signature", hash |-> FALSE]]
             ops == [i \in DOMAIN steps |-> "none"]
         IN /\ steps \in Seq(StepRecs) /\ steps # <<>> /\ OnePlace(steps) /\ InOrder(steps)
            /\ \A i \in DOMAIN steps : steps[i].status = "awaiting_signature"
            /\ ops \in Seq(Ops) /\ DOMAIN ops = DOMAIN steps
            /\ \A i \in DOMAIN ops : ops[i] = "none"
<1> DEFINE step(i) == [kind |-> plan[i], status |-> "awaiting_signature", hash |-> FALSE]
           steps == [i \in DOMAIN plan |-> step(i)]
           ops == [i \in DOMAIN steps |-> "none"]
<1>1. plan \in Seq(Kinds) /\ plan # <<>>
  BY TradeAssumption
<1>2. /\ DOMAIN plan = 1..Len(plan) /\ Len(plan) \in Nat /\ 1 \in DOMAIN plan
      /\ \A i \in DOMAIN plan : plan[i] \in Kinds
  BY <1>1, SeqParts
<1>3. \A i \in DOMAIN plan : step(i) \in StepRecs
  BY <1>2 DEF StepRecs, StepStatuses
<1>4. steps \in [1..Len(plan) -> StepRecs]
  BY <1>2, <1>3
<1>5. steps \in Seq(StepRecs) /\ DOMAIN steps = 1..Len(plan)
  BY <1>2, <1>4, IsSeq
<1>6. steps # <<>>
  BY <1>2, <1>5, SeqParts
<1>7. \A i \in DOMAIN steps : /\ steps[i].status = "awaiting_signature"
                              /\ steps[i].kind = plan[i]
  OBVIOUS
<1>8. \A i, j \in DOMAIN plan : {plan[i], plan[j]} \subseteq Placing => i = j
  BY TradeAssumption
<1>9. ops \in [1..Len(plan) -> Ops]
  BY <1>5 DEF Ops
<1>10. ops \in Seq(Ops) /\ DOMAIN ops = DOMAIN steps
  BY <1>2, <1>5, <1>9, IsSeq
<1>11. \A i \in DOMAIN ops : ops[i] = "none"
  OBVIOUS
<1>12. OnePlace(steps)
  BY <1>2, <1>5, <1>7, <1>8 DEF OnePlace
<1>13. InOrder(steps)
  BY <1>7 DEF InOrder, Unsent
<1> QED BY <1>5, <1>6, <1>7, <1>10, <1>11, <1>12, <1>13

(* Forgetting a trade leaves its steps and its requests as they fit. *)
LEMMA ForgottenFits ==
  ASSUME Inv, NEW t \in Trades, trade[t].status \in Stored, at[t].pc = "idle",
         trade'[t] = [trade[t] EXCEPT !.status = "forgotten"], op'[t] = op[t], at'[t] = at[t]
  PROVE  /\ RecordFits(t)' /\ trade'[t].steps = trade[t].steps
         /\ trade'[t].client = trade[t].client /\ trade'[t].updated = trade[t].updated
         /\ trade'[t].status = "forgotten"
<1>1. /\ StepsFit(trade[t], op[t], at[t]) /\ StageFits(trade[t], at[t])
      /\ MoneyFits(trade[t], op[t]) /\ trade[t] \in TradeRecs
  BY Typed DEF Inv
<1>2. /\ trade'[t].steps = trade[t].steps /\ trade'[t].status = "forgotten"
      /\ trade'[t].client = trade[t].client /\ trade'[t].updated = trade[t].updated
      /\ trade'[t].funds = trade[t].funds /\ trade'[t].result = trade[t].result
  BY <1>1 DEF TradeRecs
<1> QED BY <1>1, <1>2 DEF RecordFits, StepsFit, StageFits, MoneyFits, Stored

LEMMA StoresKeeps ==
  ASSUME Inv, NEW t \in Trades, Stores(t)
  PROVE  Inv'
<1> DEFINE c == trade[t].client
           started == trade[t].updated
           swept == {u \in Trades : Forgettable(u, started)}
           wins == \E u \in Trades \ swept : Names(u, c, started)
           old == {u \in Trades : Held(u) /\ trade[u].client = c /\ Expired(u, started)}
<1>1. /\ trade \in [Trades -> TradeRecs] /\ at \in [Trades -> Places]
      /\ op \in [Trades -> Seq(Ops)] /\ now \in Nat /\ started \in Nat /\ started <= now
      /\ Retention \in Nat /\ TTL \in Nat
  BY Typed, TradeAssumption DEF Inv
<1>2. UNCHANGED <<now, queue, at, read, log>> /\ trade[t].status = "planning"
  BY DEF Stores
<1>3. /\ at[t].pc = "idle" /\ DOMAIN op[t] = {} /\ at[t].step = 0 /\ c \in ClientIds
      /\ ~Held(t) /\ t \notin swept /\ t \notin old
  BY <1>2, NothingAskedYet DEF Inv, StageFits, Held, Forgettable
<1>4. PICK plan \in Plans :
        Put(t, c, started,
            [i \in DOMAIN plan |->
               [kind |-> plan[i], status |-> "awaiting_signature", hash |-> FALSE]])
  BY DEF Stores
<1> DEFINE steps == [i \in DOMAIN plan |->
                       [kind |-> plan[i], status |-> "awaiting_signature", hash |-> FALSE]]
           ops == [i \in DOMAIN steps |-> "none"]
<1>5. /\ steps \in Seq(StepRecs) /\ steps # <<>> /\ OnePlace(steps) /\ InOrder(steps)
      /\ \A i \in DOMAIN steps : steps[i].status = "awaiting_signature"
      /\ ops \in Seq(Ops) /\ DOMAIN ops = DOMAIN steps /\ \A i \in DOMAIN ops : ops[i] = "none"
  BY PlannedSteps
<1>6. /\ trade' = [u \in Trades |->
                     IF u = t THEN IF wins THEN Unstored ELSE Prepared(c, started, steps)
                     ELSE IF u \in swept \cup old THEN [trade[u] EXCEPT !.status = "forgotten"]
                     ELSE trade[u]]
      /\ op' = IF wins THEN op ELSE [op EXCEPT ![t] = ops]
  BY <1>4 DEF Put
<1> HIDE DEF steps, ops, wins, swept, old
<1>7. /\ Prepared(c, started, steps) \in TradeRecs
      /\ Prepared(c, started, steps).status = "prepared"
      /\ Prepared(c, started, steps).steps = steps /\ Prepared(c, started, steps).client = c
      /\ Prepared(c, started, steps).updated = started
      /\ Prepared(c, started, steps).funds = "unsaid"
      /\ Prepared(c, started, steps).result = "none"
  <2>1. started + TTL \in Nat /\ steps \in StepsOf
    BY <1>1, <1>5 DEF StepsOf, StepRecs
  <2> QED BY <1>1, <1>3, <2>1, EmptyRecords DEF Prepared, TradeRecs, TradeStatuses
<1>8. ASSUME NEW u \in Trades, u \in swept \cup old
      PROVE  /\ u # t /\ at[u].pc = "idle" /\ Held(u)
             /\ \/ trade[u].status = "prepared"
                \/ /\ trade[u].status \in {"completed", "failed"}
                   /\ trade[u].updated + Retention <= now
  <2>1. u # t
    BY <1>3, <1>8
  <2>2. Held(u) /\ trade[u].status # "executing"
    BY <1>8 DEF swept, old, Forgettable, Expired
  <2>3. at[u].pc = "idle"
    BY <2>2 DEF Inv, StageFits
  <2>4. trade[u].status # "prepared" => trade[u].updated + Retention <= started
    BY <1>8, <2>2 DEF swept, old, Forgettable, Expired, LastChange
  <2>5. trade[u].updated \in Nat
    BY Typed DEF Inv
  <2>6. trade[u].status # "prepared" => trade[u].updated + Retention <= now
    BY <1>1, <2>4, <2>5
  <2> QED BY <2>1, <2>2, <2>3, <2>6 DEF Held
<1>9. /\ trade' \in [Trades -> TradeRecs] /\ op' \in [Trades -> Seq(Ops)]
  <2>1. \A u \in Trades : [trade[u] EXCEPT !.status = "forgotten"] \in TradeRecs
    BY <1>1 DEF TradeRecs, TradeStatuses
  <2>2. \A u \in Trades : trade[u] \in TradeRecs
    BY <1>1
  <2> QED BY <1>1, <1>5, <1>6, <1>7, <2>1, <2>2, EmptyRecords
<1>10. \A u \in Trades : u # t => op'[u] = op[u]
  BY <1>1, <1>6
<1>11. Moved(t)
  <2>1. CASE wins
    <3>1. trade'[t] = Unstored /\ op'[t] = op[t]
      BY <1>6, <2>1
    <3>2. RecordFits(t)'
      BY <1>2, <1>3, <3>1, EmptyFits, EmptyRecords
    <3>3. at[t].step <= Len(trade'[t].steps) /\ trade'[t].updated <= now
      BY <1>1, <1>3, <3>1, EmptyRecords
    <3> QED BY <1>2, <1>3, <3>2, <3>3 DEF Moved
  <2>2. CASE ~wins
    <3> DEFINE rec == trade'[t]
    <3>1. rec = Prepared(c, started, steps) /\ op'[t] = ops
      BY <1>1, <1>6, <2>2
    <3>2. /\ rec.status = "prepared" /\ rec.steps = steps /\ rec.client = c
          /\ rec.updated = started /\ rec.funds = "unsaid" /\ rec.result = "none"
      BY <1>7, <3>1
    <3>3. StepsFit(rec, ops, at[t])
      BY <1>3, <1>5, <3>2 DEF StepsFit, Fits
    <3>4. StageFits(rec, at[t])
      BY <1>3, <1>5, <3>2 DEF StageFits, Stored
    <3>5. MoneyFits(rec, ops)
      BY <3>2 DEF MoneyFits, ResultFits, FundsFit
    <3>6. RecordFits(t)'
      BY <1>2, <3>1, <3>3, <3>4, <3>5 DEF RecordFits
    <3>7. at[t].step <= Len(rec.steps)
      BY <1>3, <1>5, <3>2, SeqParts
    <3> QED BY <1>1, <1>2, <1>3, <3>2, <3>6, <3>7 DEF Moved
  <2> QED BY <2>1, <2>2
<1>12. ASSUME NEW u \in Trades, u # t, u \in swept \cup old
       PROVE  Moved(u)
  <2>1. /\ at[u].pc = "idle" /\ Held(u) /\ trade[u].status \in Stored
        /\ \/ trade[u].status = "prepared"
           \/ /\ trade[u].status \in {"completed", "failed"}
              /\ trade[u].updated + Retention <= now
    BY <1>8, <1>12 DEF Held, Stored
  <2>2. trade'[u] = [trade[u] EXCEPT !.status = "forgotten"] /\ op'[u] = op[u] /\ at'[u] = at[u]
    BY <1>2, <1>6, <1>10, <1>12
  <2>3. /\ RecordFits(u)' /\ trade'[u].steps = trade[u].steps
        /\ trade'[u].client = trade[u].client /\ trade'[u].updated = trade[u].updated
        /\ trade'[u].status = "forgotten"
    BY <2>1, <2>2, ForgottenFits
  <2>4. at[u].step <= Len(trade[u].steps) /\ trade[u].updated <= now
    BY DEF Inv, TypeOK
  <2> QED BY <2>1, <2>2, <2>3, <2>4 DEF Moved
<1>13. \A u \in Trades : (trade'[u] = trade[u] /\ op'[u] = op[u]) \/ Moved(u)
  BY <1>6, <1>10, <1>11, <1>12
<1>14. HeldOnce'
  <2>1. \A u \in Trades : u # t /\ Held(u)' =>
          u \notin swept \cup old /\ trade'[u] = trade[u] /\ Held(u)
    <3>1. \A u \in Trades : [trade[u] EXCEPT !.status = "forgotten"].status = "forgotten"
      BY <1>1 DEF TradeRecs
    <3> QED BY <1>6, <3>1 DEF Held
  <2>2. Held(t)' => ~wins /\ trade'[t].client = c
    BY <1>6, <1>7, EmptyRecords DEF Held
  <2>3. ASSUME NEW u \in Trades, u # t, Held(u)', Held(t)', trade'[u].client = trade'[t].client
        PROVE  FALSE
    <3>1. u \notin swept \cup old /\ Held(u) /\ trade[u].client = c /\ ~wins
      BY <2>1, <2>2, <2>3
    <3>2. ~Expired(u, started)
      BY <3>1 DEF old
    <3> QED BY <3>1, <3>2 DEF wins, Names
  <2> QED BY <2>1, <2>3 DEF Inv, HeldOnce
<1> QED BY <1>2, <1>9, <1>13, <1>14, StoreChange

(* While a trade is being executed none of its steps is unknown. *)
LEMMA NotUnknownYet ==
  ASSUME Inv, NEW t \in Trades, at[t].pc # "idle", NEW i \in DOMAIN trade[t].steps
  PROVE  trade[t].steps[i].status # "unknown"
<1>1. PlaceFits(trade[t], at[t]) /\ i \in 1..Len(trade[t].steps) /\ at[t].step \in Nat
      /\ Len(trade[t].steps) \in Nat
  BY WhereItIs
<1>2. i < at[t].step \/ i > at[t].step \/ i = at[t].step
  BY <1>1
<1> QED BY <1>1, <1>2 DEF PlaceFits

LEMMA GivesUpKeeps ==
  ASSUME Inv, NEW t \in Trades, GivesUp(t)
  PROVE  Inv'
<1>1. /\ trade \in [Trades -> TradeRecs] /\ op \in [Trades -> Seq(Ops)] /\ now \in Nat
      /\ trade[t] \in TradeRecs
  BY Typed DEF Inv
<1>2. /\ UNCHANGED <<now, queue, at, read, op, log>> /\ trade[t].status = "executing"
      /\ trade' = [trade EXCEPT ![t] = [[trade[t] EXCEPT !.status = "failed"] EXCEPT !.updated = now]]
  BY DEF GivesUp, Update
<1> DEFINE rec == [[trade[t] EXCEPT !.status = "failed"] EXCEPT !.updated = now]
<1>3. /\ rec \in TradeRecs /\ rec.status = "failed" /\ rec.updated = now
      /\ rec.steps = trade[t].steps /\ rec.client = trade[t].client
      /\ rec.funds = trade[t].funds /\ rec.result = trade[t].result
  BY <1>1 DEF TradeRecs, TradeStatuses
<1> HIDE DEF rec
<1>4. trade' = [trade EXCEPT ![t] = rec]
  BY <1>2 DEF rec
<1>5. trade' \in [Trades -> TradeRecs] /\ trade'[t] = rec
      /\ \A u \in Trades : u # t => trade'[u] = trade[u]
  BY <1>1, <1>3, <1>4
<1>6. /\ StepsFit(trade[t], op[t], at[t]) /\ StageFits(trade[t], at[t])
      /\ MoneyFits(trade[t], op[t])
  BY DEF Inv
<1>7. at[t].pc = "idle"
  <2>1. PICK i \in DOMAIN trade[t].steps : trade[t].steps[i].status = "unknown"
    BY DEF GivesUp, Unsettled
  <2>2. SUFFICES ASSUME at[t].pc # "idle" PROVE FALSE
    OBVIOUS
  <2> QED BY <2>1, <2>2, NotUnknownYet
<1>8. RecordFits(t)'
  <2>1. StepsFit(rec, op[t], at[t])
    BY <1>3, <1>6 DEF StepsFit
  <2>2. StageFits(rec, at[t])
    BY <1>2, <1>3, <1>6, <1>7 DEF StageFits, Stored
  <2>3. MoneyFits(rec, op[t])
    BY <1>3, <1>6 DEF MoneyFits
  <2> QED BY <1>2, <1>5, <2>1, <2>2, <2>3 DEF RecordFits
<1>9. at[t].step <= Len(rec.steps) /\ now <= now
  BY <1>1, <1>3 DEF Inv, TypeOK
<1>10. Moved(t)
  BY <1>2, <1>3, <1>5, <1>7, <1>8, <1>9 DEF Moved
<1>11. HeldOnce'
  BY <1>2, <1>3, <1>5 DEF Inv, HeldOnce, Held
<1> QED BY <1>1, <1>2, <1>5, <1>10, <1>11, StoreChange

-------------------------------------------------------------------------------
(* Committing; Privy, the chain and the clock. *)

LEMMA CommitsKeeps ==
  ASSUME Inv, NEW t \in Trades, Commits(t)
  PROVE  Inv'
<1>1. /\ trade \in [Trades -> TradeRecs] /\ op \in [Trades -> Seq(Ops)] /\ now \in Nat
      /\ at \in [Trades -> Places] /\ queue \in Seq(Trades) /\ trade[t] \in TradeRecs
  BY Typed DEF Inv
<1> DEFINE rec == [[trade[t] EXCEPT !.status = "executing"] EXCEPT !.updated = now]
           place == [pc |-> "queued", step |-> 1]
<1>2. /\ UNCHANGED <<now, read, op, log>> /\ trade[t].status = "prepared"
      /\ trade' = [trade EXCEPT ![t] = rec] /\ at' = [at EXCEPT ![t] = place]
      /\ queue' = Append(queue, t)
  BY DEF Commits, Update
<1>3. /\ rec \in TradeRecs /\ rec.status = "executing" /\ rec.updated = now
      /\ rec.steps = trade[t].steps /\ rec.client = trade[t].client
      /\ rec.funds = trade[t].funds /\ rec.result = trade[t].result
  BY <1>1 DEF TradeRecs, TradeStatuses
<1>4. place \in Places /\ place.pc = "queued" /\ place.step = 1
  BY DEF Places
<1> HIDE DEF rec, place
<1>5. /\ trade' \in [Trades -> TradeRecs] /\ trade'[t] = rec
      /\ \A u \in Trades : u # t => trade'[u] = trade[u]
      /\ at' \in [Trades -> Places] /\ at'[t] = place
      /\ \A u \in Trades : u # t => at'[u] = at[u]
  BY <1>1, <1>2, <1>3, <1>4
<1>6. /\ queue' \in Seq(Trades) /\ Len(queue') = Len(queue) + 1 /\ queue'[Len(queue) + 1] = t
      /\ DOMAIN queue' = 1..Len(queue) + 1 /\ Len(queue) \in Nat /\ DOMAIN queue = 1..Len(queue)
      /\ \A k \in DOMAIN queue : queue'[k] = queue[k]
  BY <1>1, <1>2
<1>7. /\ StepsFit(trade[t], op[t], at[t]) /\ StageFits(trade[t], at[t])
      /\ MoneyFits(trade[t], op[t])
  BY DEF Inv
<1>8. /\ at[t].pc = "idle" /\ \A i \in DOMAIN op[t] : op[t][i] = "none"
      /\ \A i \in DOMAIN rec.steps : rec.steps[i].status = "awaiting_signature"
      /\ 1 \in DOMAIN rec.steps /\ DOMAIN rec.steps = 1..Len(rec.steps)
      /\ Len(rec.steps) \in Nat /\ rec.client \in ClientIds
  <2>1. trade[t].steps # <<>> /\ trade[t].steps \in Seq(StepRecs) /\ trade[t].client \in ClientIds
    BY <1>2, <1>7, Typed DEF Inv, StageFits, Stored
  <2> QED BY <1>2, <1>3, <1>7, <2>1, NothingAskedYet, SeqParts DEF StageFits
<1>9. rec.funds = "unsaid"
  BY <1>3, <1>7, <1>8 DEF MoneyFits, FundsFit, InFlight
<1>10. RecordFits(t)'
  <2>1. StepsFit(rec, op[t], place)
    BY <1>3, <1>4, <1>7, <1>8 DEF StepsFit
  <2>2. PlaceFits(rec, place)
    BY <1>4, <1>8 DEF PlaceFits
  <2>3. rec.steps # <<>>
    BY <1>8, SeqParts
  <2>4. StageFits(rec, place)
    BY <1>3, <1>4, <1>8, <1>9, <2>2, <2>3 DEF StageFits
  <2>5. MoneyFits(rec, op[t])
    BY <1>3, <1>7 DEF MoneyFits
  <2> QED BY <1>2, <1>5, <2>1, <2>4, <2>5 DEF RecordFits
<1>11. \A u \in Trades : QueueFits(u)'
  <2>1. QueueFits(t)'
    BY <1>4, <1>5, <1>6 DEF QueueFits
  <2>2. ASSUME NEW u \in Trades, u # t, at[u].pc # "idle"
        PROVE  QueueFits(u)'
    <3>1. PICK k \in DOMAIN queue : queue[k] = u
      BY <2>2 DEF Inv, QueueFits
    <3>2. k \in DOMAIN queue' /\ queue'[k] = u
      BY <1>6, <3>1
    <3>3. queue # <<>> /\ 1 \in DOMAIN queue /\ Head(queue') = Head(queue)
      BY <1>1, <1>2, <1>6, <3>1
    <3> QED BY <1>5, <2>2, <3>2, <3>3 DEF Inv, QueueFits
  <2> QED BY <1>5, <2>1, <2>2 DEF QueueFits
<1>12. TypeOK'
  <2>1. \A u \in Trades : at'[u].step <= Len(trade'[u].steps)
    <3>1. at'[t].step <= Len(trade'[t].steps)
      BY <1>4, <1>5, <1>8
    <3>2. \A u \in Trades : at[u].step <= Len(trade[u].steps)
      BY DEF Inv, TypeOK
    <3> QED BY <1>5, <3>1, <3>2
  <2> QED
    BY <1>2, <1>5, <1>6, <2>1
       DEF Inv, TypeOK, TradeRecs, TradeStatuses, StepsOf, StepRecs, Places, Ops
<1>13. \A u \in Trades : RecordFits(u)' /\ trade'[u].updated <= now
  <2>1. now <= now
    BY <1>1
  <2> QED BY <1>2, <1>3, <1>5, <1>10, <2>1 DEF Inv, RecordFits
<1>14. ASSUME NEW r \in Readers, read[r].pc # "idle"
       PROVE  ReadFits(r)'
  <2>1. ReadFits(r) /\ read[r].trade # t
    BY <1>2, <1>14 DEF Inv, ReadFits
  <2> QED BY <1>2, <1>5, <2>1 DEF ReadFits, Verdict
<1>15. HeldOnce'
  BY <1>2, <1>3, <1>5 DEF Inv, HeldOnce, Held
<1>16. LogFits'
  <2> SUFFICES ASSUME NEW k \in DOMAIN log
               PROVE  LoggedFits(log[k], log[Len(log)].trade)'
    BY <1>2 DEF LogFits, LoggedFits
  <2>1. LoggedFits(log[k], log[Len(log)].trade) /\ log[k].trade \in Trades
    BY TypedLog DEF Inv, LogFits, LoggedFits
  <2>2. log[k].trade # t
    BY <1>8, <2>1 DEF LoggedFits
  <2> QED BY <1>2, <1>5, <2>1, <2>2 DEF LoggedFits
<1>17. Grouped' /\ KeysAreUsedOnce'
  BY <1>2 DEF Inv, Grouped, KeysAreUsedOnce
<1> QED BY <1>2, <1>11, <1>12, <1>13, <1>14, <1>15, <1>16, <1>17 DEF Inv, RecordFits

(* A request at Privy or an operation on its way comes a step further. *)
LEMMA OpMoves ==
  ASSUME Inv, NEW t \in Trades, NEW i \in DOMAIN op[t], NEW o \in Taken,
         \/ op[t][i] = "asked" /\ o = "out"
         \/ op[t][i] = "out" /\ o \in Shut,
         op' = [op EXCEPT ![t][i] = o], UNCHANGED <<now, trade, queue, at, read, log>>
  PROVE  Inv'
<1> DEFINE ops == [op[t] EXCEPT ![i] = o]
<1>1. /\ trade \in [Trades -> TradeRecs] /\ op \in [Trades -> Seq(Ops)] /\ now \in Nat
      /\ at \in [Trades -> Places] /\ trade[t].steps \in Seq(StepRecs)
  BY Typed DEF Inv
<1>2. /\ ops \in Seq(Ops) /\ DOMAIN ops = DOMAIN op[t] /\ ops[i] = o
      /\ \A j \in DOMAIN op[t] : j # i => ops[j] = op[t][j]
  BY <1>1, Replaced DEF Ops, Taken
<1> HIDE DEF ops
<1>3. /\ op' \in [Trades -> Seq(Ops)] /\ op'[t] = ops
      /\ \A u \in Trades : u # t => op'[u] = op[u]
  BY <1>1, <1>2 DEF ops
<1>4. /\ StepsFit(trade[t], op[t], at[t]) /\ StageFits(trade[t], at[t])
      /\ MoneyFits(trade[t], op[t])
  BY DEF Inv
<1>5. i \in DOMAIN trade[t].steps /\ DOMAIN op[t] = DOMAIN trade[t].steps
  BY <1>4 DEF StepsFit
<1>6. \/ at[t].pc = "asked" /\ i = at[t].step
      \/ trade[t].steps[i].status = "unknown"
      \/ trade[t].steps[i].status = "submitted" /\ op[t][i] = "out"
  <2>1. trade[t].steps[i].status \in StepStatuses
    <3>1. trade[t].steps[i] \in StepRecs
      BY <1>1, <1>5, SeqParts
    <3> QED BY <3>1 DEF StepRecs
  <2>2. \/ Fits(trade[t].steps[i].status, op[t][i])
        \/ at[t].pc = "asked" /\ i = at[t].step
    BY <1>4 DEF StepsFit
  <2> QED BY <2>1, <2>2 DEF Fits, StepStatuses, Ran
<1>7. StepsFit(trade[t], ops, at[t])
  <2>1. \A j \in DOMAIN ops : IF at[t].pc = "asked" /\ j = at[t].step THEN ops[j] \in Taken
                              ELSE Fits(trade[t].steps[j].status, ops[j])
    <3>1. CASE at[t].pc = "asked" /\ i = at[t].step
      BY <1>2, <1>4, <3>1 DEF StepsFit
    <3>2. CASE trade[t].steps[i].status \in {"unknown", "submitted"}
      <4>1. Fits(trade[t].steps[i].status, o)
        BY <1>6, <3>2 DEF Fits, Shut, Taken
      <4> QED BY <1>2, <1>4, <4>1 DEF StepsFit
    <3> QED BY <1>6, <3>1, <3>2
  <2>2. \A j, k \in DOMAIN ops :
          j < k /\ trade[t].steps[j].status # "included" => ops[k] = "none"
    BY <1>2, <1>4 DEF StepsFit
  <2> QED BY <1>2, <1>4, <2>1, <2>2 DEF StepsFit
<1>8. MoneyFits(trade[t], ops)
  <2>1. trade[t].funds = "unsaid"
    <3>1. CASE at[t].pc = "asked"
      BY <1>4, <3>1 DEF StageFits
    <3>2. CASE trade[t].steps[i].status \in {"unknown", "submitted"}
      BY <1>4, <1>5, <3>2 DEF MoneyFits, FundsFit, InFlight
    <3> QED BY <1>6, <3>1, <3>2
  <2>2. ResultFits(trade[t].result, trade[t].steps, ops)
    BY <1>2, <1>4, <1>5 DEF MoneyFits, ResultFits
  <2> QED BY <2>1, <2>2 DEF MoneyFits, FundsFit
<1>9. \A u \in Trades : RecordFits(u)' /\ trade'[u].updated <= now /\ QueueFits(u)'
  BY <1>3, <1>4, <1>7, <1>8 DEF Inv, RecordFits, QueueFits
<1>10. ASSUME NEW r \in Readers, read[r].pc # "idle"
       PROVE  ReadFits(r)'
  <2>1. ReadFits(r)
    BY <1>10 DEF Inv
  <2>2. CASE read[r].trade # t
    BY <1>3, <2>1, <2>2 DEF ReadFits, Verdict
  <2>3. CASE read[r].trade = t
    <3>1. \A j \in Unsettled(read[r].steps) : op[t][j] \in Shut => op'[t][j] = op[t][j]
      BY <1>2, <1>3, <1>5, <2>1, <2>3 DEF ReadFits, Unsettled, Shut
    <3> QED BY <2>1, <2>3, <3>1 DEF ReadFits, Verdict
  <2> QED BY <2>2, <2>3
<1>11. HeldOnce'
  BY DEF Inv, HeldOnce, Held
<1>12. LogFits'
  <2> SUFFICES ASSUME NEW k \in DOMAIN log
               PROVE  LoggedFits(log[k], log[Len(log)].trade)'
    BY DEF LogFits, LoggedFits
  <2>1. LoggedFits(log[k], log[Len(log)].trade) /\ log[k].trade \in Trades
    BY TypedLog DEF Inv, LogFits, LoggedFits
  <2>2. /\ log[k].step \in DOMAIN op'[log[k].trade]
        /\ op'[log[k].trade][log[k].step] # "none"
    BY <1>2, <1>3, <2>1 DEF LoggedFits, Taken
  <2> QED BY <2>1, <2>2 DEF LoggedFits
<1>13. Grouped' /\ KeysAreUsedOnce'
  BY DEF Inv, Grouped, KeysAreUsedOnce
<1>14. TypeOK'
  BY <1>3 DEF Inv, TypeOK, Ops
<1> QED BY <1>9, <1>10, <1>11, <1>12, <1>13, <1>14 DEF Inv, RecordFits

LEMMA PrivyAndChainKeep ==
  ASSUME Inv, NEW t \in Trades, NEW i \in DOMAIN op[t], PrivyRuns(t, i) \/ Lands(t, i)
  PROVE  Inv'
<1>1. CASE PrivyRuns(t, i)
  <2>1. /\ "out" \in Taken /\ op[t][i] = "asked" /\ op' = [op EXCEPT ![t][i] = "out"]
        /\ UNCHANGED <<now, trade, queue, at, read, log>>
    BY <1>1 DEF Taken, PrivyRuns
  <2> QED BY <2>1, OpMoves
<1>2. CASE Lands(t, i)
  <2>1. PICK o \in {"landed", "reverted", "empty"} : op' = [op EXCEPT ![t][i] = o]
    BY <1>2 DEF Lands
  <2>2. o \in Taken /\ o \in Shut /\ op[t][i] = "out" /\ UNCHANGED <<now, trade, queue, at, read, log>>
    BY <1>2 DEF Lands, Taken, Shut
  <2> QED BY <2>1, <2>2, OpMoves
<1> QED BY <1>1, <1>2

LEMMA TickKeeps ==
  ASSUME Inv, Tick
  PROVE  Inv'
<1>1. /\ now \in Nat /\ MaxTime \in Nat /\ now < MaxTime /\ now' = now + 1
      /\ UNCHANGED <<trade, queue, at, read, op, log>>
  BY Typed, TradeAssumption DEF Inv, Tick
<1>2. TypeOK'
  BY <1>1 DEF Inv, TypeOK
<1>3. \A t \in Trades : /\ RecordFits(t)' /\ trade'[t].updated <= now' /\ QueueFits(t)'
  <2> TAKE t \in Trades
  <2>1. trade[t].updated \in Nat /\ trade[t].updated <= now
    BY Typed DEF Inv
  <2>2. trade'[t].updated <= now'
    BY <1>1, <2>1
  <2> QED BY <1>1, <2>2 DEF Inv, RecordFits, QueueFits
<1>4. \A r \in Readers : read'[r].pc # "idle" => ReadFits(r)'
  BY <1>1 DEF Inv, ReadFits, Verdict
<1>5. HeldOnce' /\ Grouped' /\ KeysAreUsedOnce'
  BY <1>1 DEF Inv, HeldOnce, Held, Grouped, KeysAreUsedOnce
<1>6. LogFits'
  <2> SUFFICES ASSUME NEW k \in DOMAIN log
               PROVE  LoggedFits(log[k], log[Len(log)].trade)'
    BY <1>1 DEF LogFits, LoggedFits
  <2>1. LoggedFits(log[k], log[Len(log)].trade) /\ log[k].time \in Nat /\ Retention \in Nat
    BY TypedLog, TradeAssumption DEF Inv, LogFits, LoggedFits
  <2>2. /\ log[k].time <= now'
        /\ log[k].time + Retention <= now => log[k].time + Retention <= now'
    BY <1>1, <2>1 DEF LoggedFits
  <2> QED BY <1>1, <2>1, <2>2 DEF LoggedFits
<1> QED BY <1>2, <1>3, <1>4, <1>5, <1>6 DEF Inv, RecordFits

-------------------------------------------------------------------------------
(* The reads. *)

(* A step of one reader that changes nothing but what it has read. *)
LEMMA ReadChange ==
  ASSUME Inv, NEW r \in Readers, UNCHANGED <<now, trade, queue, at, op, log>>,
         TypeOK', \A s \in Readers : s # r => read'[s] = read[s],
         read'[r].pc # "idle" => ReadFits(r)'
  PROVE  Inv'
<1>1. \A s \in Readers : read'[s].pc # "idle" => ReadFits(s)'
  BY DEF Inv, ReadFits, Verdict
<1>2. \A t \in Trades : RecordFits(t)' /\ trade'[t].updated <= now' /\ QueueFits(t)'
  BY DEF Inv, RecordFits, QueueFits
<1>3. HeldOnce' /\ LogFits' /\ Grouped' /\ KeysAreUsedOnce'
  BY DEF Inv, HeldOnce, Held, LogFits, Grouped, KeysAreUsedOnce
<1> QED BY <1>1, <1>2, <1>3 DEF Inv, RecordFits

ReadRecs == [pc : {"idle", "asking", "settling"}, trade : Trades \cup {Nobody},
             steps : StepsOf, settled : {"none", "included", "reverted"}]

LEMMA ReadRecChange ==
  ASSUME Inv, NEW r \in Readers, NEW new \in ReadRecs, read' = [read EXCEPT ![r] = new],
         UNCHANGED <<now, trade, queue, at, op, log>>
  PROVE  /\ TypeOK' /\ read'[r] = new /\ read' \in [Readers -> ReadRecs]
         /\ \A s \in Readers : s # r => read'[s] = read[s]
<1>1. read \in [Readers -> ReadRecs]
  BY DEF Inv, TypeOK, ReadRecs
<1>2. /\ read' \in [Readers -> ReadRecs] /\ read'[r] = new
      /\ \A s \in Readers : s # r => read'[s] = read[s]
  BY <1>1
<1>3. TypeOK'
  BY <1>2 DEF Inv, TypeOK, ReadRecs
<1> QED BY <1>2, <1>3

LEMMA HearsNothingKeeps ==
  ASSUME Inv, NEW r \in Readers, HearsNothing(r)
  PROVE  Inv'
<1>1. NoRead \in ReadRecs /\ NoRead.pc = "idle"
  BY DEF NoRead, ReadRecs, StepsOf
<1>2. read' = [read EXCEPT ![r] = NoRead] /\ UNCHANGED <<now, trade, queue, at, op, log>>
  BY DEF HearsNothing
<1>3. /\ TypeOK' /\ read'[r] = NoRead /\ \A s \in Readers : s # r => read'[s] = read[s]
  BY <1>1, <1>2, ReadRecChange
<1> QED BY <1>1, <1>2, <1>3, ReadChange

LEMMA ReadsKeeps ==
  ASSUME Inv, NEW r \in Readers, NEW t \in Trades, Reads(r, t)
  PROVE  Inv'
<1> DEFINE steps == trade[t].steps
           new == [pc |-> "asking", trade |-> t, steps |-> steps, settled |-> "none"]
<1>1. /\ trade[t].status = "executing" /\ read' = [read EXCEPT ![r] = new]
      /\ UNCHANGED <<now, trade, queue, at, op, log>>
      /\ \E i \in DOMAIN steps : steps[i].status = "unknown"
  BY DEF Reads, Unsettled
<1>2. StepsFit(trade[t], op[t], at[t]) /\ StageFits(trade[t], at[t]) /\ steps \in Seq(StepRecs)
  BY Typed DEF Inv
<1>3. new \in ReadRecs /\ new.pc = "asking" /\ new.trade = t /\ new.steps = steps
  BY <1>2 DEF ReadRecs, StepsOf, StepRecs
<1>4. at[t].pc = "idle"
  <2>1. PICK i \in DOMAIN steps : steps[i].status = "unknown"
    BY <1>1
  <2>2. SUFFICES ASSUME at[t].pc # "idle" PROVE FALSE
    OBVIOUS
  <2> QED BY <2>1, <2>2, NotUnknownYet
<1> HIDE DEF new
<1>5. /\ TypeOK' /\ read'[r] = new /\ \A s \in Readers : s # r => read'[s] = read[s]
  BY <1>1, <1>3, ReadRecChange
<1>6. ReadFits(r)'
  <2>1. \A i \in DOMAIN steps : steps[i].status \in Ended
    BY <1>1, <1>2, <1>4 DEF StageFits
  <2>2. InOrder(steps)
    BY <1>2 DEF StepsFit
  <2> QED BY <1>1, <1>3, <1>4, <1>5, <2>1, <2>2 DEF ReadFits
<1> QED BY <1>1, <1>5, <1>6, ReadChange

(* There is one unknown step among those read. *)
LEMMA OneUnknown ==
  ASSUME NEW steps \in Seq(StepRecs), InOrder(steps),
         NEW i \in Unsettled(steps), NEW j \in Unsettled(steps)
  PROVE  i = j
<1>1. /\ i \in 1..Len(steps) /\ j \in 1..Len(steps) /\ Len(steps) \in Nat
      /\ i \in DOMAIN steps /\ j \in DOMAIN steps
      /\ steps[i].status = "unknown" /\ steps[j].status = "unknown"
  BY SeqParts DEF Unsettled
<1>2. ~(i < j) /\ ~(j < i)
  BY <1>1 DEF InOrder, Unsent
<1> QED BY <1>1, <1>2

LEMMA HearsKeeps ==
  ASSUME Inv, NEW r \in Readers, Hears(r)
  PROVE  Inv'
<1> DEFINE t == read[r].trade
           was == read[r].steps
<1>1. /\ read \in [Readers -> ReadRecs] /\ read[r] \in ReadRecs /\ was \in Seq(StepRecs)
  BY DEF Inv, TypeOK, ReadRecs, StepsOf, StepRecs
<1>2. PICK i \in Unsettled(was) :
        /\ op[t][i] \in Shut
        /\ read' = [read EXCEPT ![r] = [read[r] EXCEPT !.pc = "settling",
                                                       !.settled = Verdict(t, i)]]
  BY <1>1 DEF Hears, Shut
<1>3. UNCHANGED <<now, trade, queue, at, op, log>> /\ ReadFits(r)
  BY DEF Hears, Inv
<1> DEFINE new == [read[r] EXCEPT !.pc = "settling", !.settled = Verdict(t, i)]
<1>4. Verdict(t, i) \in {"included", "reverted"}
  BY DEF Verdict
<1>5. /\ new \in ReadRecs /\ new.pc = "settling" /\ new.trade = t /\ new.steps = was
      /\ new.settled = Verdict(t, i)
  BY <1>1, <1>4 DEF ReadRecs
<1> HIDE DEF new
<1>6. read' = [read EXCEPT ![r] = new]
  BY <1>2 DEF new
<1>7. /\ TypeOK' /\ read'[r] = new /\ \A s \in Readers : s # r => read'[s] = read[s]
  BY <1>3, <1>5, <1>6, ReadRecChange
<1>8. \A j \in Unsettled(was) : j = i
  BY <1>1, <1>3, OneUnknown DEF ReadFits
<1>9. ReadFits(r)'
  BY <1>2, <1>3, <1>5, <1>7, <1>8 DEF ReadFits, Verdict
<1> QED BY <1>3, <1>7, <1>9, ReadChange

(* The steps that Settles stores. *)
SettledOf(r) ==
  [j \in DOMAIN read[r].steps |->
     IF j \in Unsettled(read[r].steps)
     THEN [read[r].steps[j] EXCEPT !.status = read[r].settled]
     ELSE read[r].steps[j]]

(* They are the trade's, with the unknown one settled by what became of its
   request. *)
LEMMA SettledSteps ==
  ASSUME Inv, NEW r \in Readers, Settles(r), NEW t \in Trades, t = read[r].trade,
         NEW i \in Unsettled(read[r].steps)
  PROVE  LET was == read[r].steps
             now0 == trade[t].steps
             steps == SettledOf(r)
         IN /\ steps \in Seq(StepRecs) /\ DOMAIN steps = DOMAIN now0 /\ i \in DOMAIN now0
            /\ op[t][i] \in Shut /\ steps[i] = [was[i] EXCEPT !.status = Verdict(t, i)]
            /\ steps[i].status = Verdict(t, i) /\ was[i].status = "unknown"
            /\ now0[i] = was[i] \/ now0[i] = steps[i]
            /\ now0[i].status \in {"unknown", Verdict(t, i)}
            /\ now0[i].kind = steps[i].kind
            /\ \A j \in DOMAIN now0 : j # i => steps[j] = now0[j] /\ steps[j] = was[j]
<1> DEFINE was == read[r].steps
           now0 == trade[t].steps
           step(j) == IF j \in Unsettled(was) THEN [was[j] EXCEPT !.status = read[r].settled]
                      ELSE was[j]
           steps == [j \in DOMAIN was |-> step(j)]
<1>1. /\ read[r].pc = "settling" /\ ReadFits(r)
  BY DEF Settles, Inv
<1>2. was \in Seq(StepRecs) /\ read[r].settled \in {"none", "included", "reverted"}
  BY TypedRead DEF Inv
<1>3. /\ t \in Trades /\ DOMAIN was = DOMAIN now0 /\ InOrder(was)
      /\ \A j \in DOMAIN was : was[j] = now0[j] \/ Apart(now0, was, j)
      /\ op[t][i] \in Shut /\ read[r].settled = Verdict(t, i)
  BY <1>1 DEF ReadFits
<1>4. /\ i \in DOMAIN was /\ was[i].status = "unknown"
      /\ DOMAIN was = 1..Len(was) /\ Len(was) \in Nat
      /\ \A j \in DOMAIN was : was[j] \in StepRecs
  BY <1>2, SeqParts DEF Unsettled
<1>5. \A j \in Unsettled(was) : j = i
  BY <1>2, <1>3, OneUnknown
<1>6. Verdict(t, i) \in {"included", "reverted"} /\ Fits(Verdict(t, i), op[t][i])
  BY <1>3, VerdictFits
<1>7. \A j \in DOMAIN was : step(j) \in StepRecs
  BY <1>3, <1>4, <1>6 DEF StepRecs, StepStatuses
<1>8. steps \in [1..Len(was) -> StepRecs]
  BY <1>4, <1>7
<1>9. steps \in Seq(StepRecs) /\ DOMAIN steps = DOMAIN was
  BY <1>4, <1>8, IsSeq
<1>10. /\ steps[i] = [was[i] EXCEPT !.status = Verdict(t, i)]
       /\ \A j \in DOMAIN was : j # i => steps[j] = was[j]
  BY <1>3, <1>4, <1>5
<1> HIDE DEF steps, step
<1>11. steps[i].status = Verdict(t, i) /\ steps[i].kind = was[i].kind
  BY <1>4, <1>10 DEF StepRecs
<1>12. \A j \in DOMAIN was : j # i => steps[j] = now0[j]
  BY <1>3, <1>5, <1>10 DEF Apart, Unsettled
<1>13. now0[i] = was[i] \/ now0[i] = steps[i]
  <2>1. CASE now0[i] = was[i]
    BY <2>1
  <2>2. CASE Apart(now0, was, i)
    <3>1. PICK status \in {"included", "reverted"} : now0[i] = [was[i] EXCEPT !.status = status]
      BY <2>2 DEF Apart
    <3>2. now0[i].status = status
      BY <1>4, <3>1 DEF StepRecs
    <3>3. Fits(status, op[t][i])
      <4>1. StepsFit(trade[t], op[t], at[t]) /\ at[t].pc = "idle"
        BY <1>1, <1>3 DEF Inv, ReadFits
      <4>2. i \in DOMAIN op[t]
        BY <1>3, <1>4, <4>1 DEF StepsFit
      <4> QED BY <3>2, <4>1, <4>2 DEF StepsFit
    <3>4. status = Verdict(t, i)
      BY <3>3 DEF Fits, Verdict, Ran
    <3> QED BY <1>10, <3>1, <3>4
  <2> QED BY <1>3, <1>4, <2>1, <2>2
<1>14. now0[i].status \in {"unknown", Verdict(t, i)} /\ now0[i].kind = steps[i].kind
  BY <1>4, <1>11, <1>13
<1> QED BY <1>3, <1>4, <1>9, <1>10, <1>11, <1>12, <1>13, <1>14 DEF steps, step, SettledOf

LEMMA SettlesKeeps ==
  ASSUME Inv, NEW r \in Readers, Settles(r), NEW t \in Trades, t = read[r].trade
  PROVE  Inv'
<1> DEFINE was == read[r].steps
           before == trade[t].steps
           steps == SettledOf(r)
<1>1. /\ read[r].pc = "settling" /\ read' = [read EXCEPT ![r] = NoRead]
      /\ UNCHANGED <<now, queue, at, op, log>> /\ ReadFits(r)
  BY DEF Settles, Inv
<1>2. PICK i \in Unsettled(was) :
      \E result \in Results(t, i, steps[i], trade[t].result) :
        IF Held(t) THEN Update(t, [trade[t] EXCEPT !.steps = steps, !.status = StatusOf(steps),
                                     !.result = result, !.funds = FundsAfter(steps, result, @)])
                   ELSE UNCHANGED trade
  BY <1>1 DEF Settles, SettledOf
<1>3. PICK result \in Results(t, i, steps[i], trade[t].result) :
        IF Held(t) THEN Update(t, [trade[t] EXCEPT !.steps = steps, !.status = StatusOf(steps),
                                     !.result = result, !.funds = FundsAfter(steps, result, @)])
                   ELSE UNCHANGED trade
  BY <1>2
<1>4. /\ steps \in Seq(StepRecs) /\ DOMAIN steps = DOMAIN before /\ i \in DOMAIN before
      /\ op[t][i] \in Shut /\ steps[i] = [was[i] EXCEPT !.status = Verdict(t, i)]
      /\ steps[i].status = Verdict(t, i) /\ was[i].status = "unknown"
      /\ before[i] = was[i] \/ before[i] = steps[i]
      /\ before[i].status \in {"unknown", Verdict(t, i)} /\ before[i].kind = steps[i].kind
      /\ \A j \in DOMAIN before : j # i => steps[j] = before[j] /\ steps[j] = was[j]
  BY ONLY <1>2, SettledSteps, Inv, r \in Readers, Settles(r), t = read[r].trade
<1> HIDE DEF steps
<1>5. /\ trade \in [Trades -> TradeRecs] /\ op \in [Trades -> Seq(Ops)] /\ now \in Nat
      /\ t \in Trades /\ trade[t] \in TradeRecs /\ at[t].pc = "idle"
      /\ trade[t].result \in {"none", "order", "nothing"} /\ op[t] \in Seq(Ops)
  BY <1>1, Typed DEF Inv, ReadFits, TradeRecs
<1>6. NoRead \in ReadRecs /\ NoRead.pc = "idle" /\ read \in [Readers -> ReadRecs]
  <2>1. NoRead \in ReadRecs /\ NoRead.pc = "idle"
    BY DEF NoRead, ReadRecs, StepsOf
  <2>2. read \in [Readers -> ReadRecs]
    BY DEF Inv, TypeOK, ReadRecs
  <2> QED BY <2>1, <2>2
<1>7. /\ read' \in [Readers -> ReadRecs] /\ read'[r].pc = "idle"
      /\ \A s \in Readers : s # r => read'[s] = read[s]
  BY <1>1, <1>6
<1>8. CASE ~Held(t)
  <2>1. UNCHANGED <<now, trade, queue, at, op, log>>
    BY <1>1, <1>3, <1>8
  <2>2. TypeOK'
    BY <1>1, <1>6, <2>1, ReadRecChange
  <2> QED BY <1>7, <2>1, <2>2, ReadChange
<1>9. CASE Held(t)
  <2> DEFINE funds == FundsAfter(steps, result, trade[t].funds)
             status == StatusOf(steps)
  <2>1. /\ StepsFit(trade[t], op[t], at[t]) /\ StageFits(trade[t], at[t])
        /\ MoneyFits(trade[t], op[t]) /\ DOMAIN op[t] = DOMAIN before
        /\ DOMAIN before = 1..Len(before) /\ Len(before) \in Nat
    <3>1. before \in Seq(StepRecs)
      BY <1>5, Typed DEF Inv
    <3> QED BY <1>5, <3>1, SeqParts DEF Inv, StepsFit
  <2>2. Verdict(t, i) \in {"included", "reverted"} /\ Fits(Verdict(t, i), op[t][i])
    BY <1>4, <1>5, VerdictFits
  <2>3. \A j \in DOMAIN steps : /\ Fits(steps[j].status, op[t][j])
                                /\ steps[j].kind = before[j].kind
    <3>1. \A j \in DOMAIN before : Fits(before[j].status, op[t][j])
      BY <1>5, <2>1 DEF StepsFit
    <3> TAKE j \in DOMAIN steps
    <3>2. CASE j = i
      BY <1>4, <2>2, <3>2
    <3>3. CASE j # i
      <4>1. j \in DOMAIN before
        BY <1>4
      <4>2. steps[j] = before[j]
        BY <1>4, <3>3, <4>1
      <4> QED BY <3>1, <4>1, <4>2
    <3> QED BY <3>2, <3>3
  <2>4. \A j \in DOMAIN before : before[j].status \in Ended
    <3>1. trade[t].status \in {"executing", "completed", "failed"}
      BY <1>1, <1>9 DEF ReadFits, Held
    <3> QED BY <1>5, <2>1, <3>1 DEF StageFits
  <2>5. \A j \in DOMAIN steps : steps[j].status \in Ended
    BY <1>4, <2>2, <2>4 DEF Ended
  <2>6. OnePlace(steps)
    BY <1>4, <2>1, <2>3, SameKinds DEF StepsFit
  <2>7. ASSUME NEW a \in DOMAIN steps, NEW b \in DOMAIN steps, a < b,
               steps[a].status # "included"
        PROVE  steps[b].status \in Unsent /\ op[t][b] = "none"
    <3>1. before[a].status # "included"
      BY <1>4, <2>2, <2>7
    <3>2. before[b].status \in Unsent /\ op[t][b] = "none"
      <4>1. a \in DOMAIN op[t] /\ b \in DOMAIN op[t]
        BY <1>4, <2>1
      <4>2. \A x, y \in DOMAIN op[t] : x < y /\ before[x].status # "included" => op[t][y] = "none"
        BY <2>1 DEF StepsFit
      <4>3. \A x, y \in DOMAIN before : x < y /\ before[x].status # "included" => before[y].status \in Unsent
        BY <2>1 DEF StepsFit, InOrder
      <4> QED BY ONLY <2>1, <2>7, <3>1, <4>1, <4>2, <4>3
    <3>3. b # i
      BY <1>4, <2>2, <3>2 DEF Unsent
    <3> QED BY <1>4, <2>7, <3>2, <3>3
  <2>8. ResultFits(result, steps, op[t]) /\ result \in {"none", "order", "nothing"}
    <3>1. ResultFits(trade[t].result, steps, op[t])
      BY <1>4, <2>1, <2>3 DEF MoneyFits, ResultFits
    <3>2. /\ i \in DOMAIN steps /\ DOMAIN op[t] = DOMAIN steps
          /\ steps[i].status \in {"included", "reverted"} /\ Fits(steps[i].status, op[t][i])
      BY <1>4, <2>1, <2>2
    <3> QED
      <4>1. steps \in Seq(StepRecs) /\ result \in Results(t, i, steps[i], trade[t].result)
        BY <1>3, <1>4
      <4>2. trade[t].result \in {"none", "order", "nothing"}
        BY <1>5
      <4> QED BY <3>1, <3>2, <4>1, <4>2, ResultsFit
  <2>9. FundsFit(funds, steps, op[t]) /\ funds \in {"unsaid", "wallet", "kuru"}
    <3>1. FundsFit(trade[t].funds, steps, op[t])
      BY <1>4, <2>1, <2>2, <2>3 DEF MoneyFits, FundsFit, InFlight
    <3>2. trade[t].funds \in {"unsaid", "wallet", "kuru"}
      BY <1>5 DEF TradeRecs
    <3>3. /\ steps \in Seq(StepRecs) /\ op[t] \in Seq(Ops) /\ DOMAIN op[t] = DOMAIN steps
          /\ \A j \in DOMAIN op[t] : Fits(steps[j].status, op[t][j])
      BY <1>4, <1>5, <2>1, <2>3
    <3> QED BY ONLY <2>6, <2>8, <3>1, <3>2, <3>3, FundsAfterFit
  <2>10. /\ status \in {"executing", "completed", "failed"}
         /\ status = "completed" => \A j \in DOMAIN steps : steps[j].status = "included"
    <3>1. \A j \in DOMAIN steps : steps[j].kind \in Kinds /\ steps[j].status \in StepStatuses
      <4>1. \A j \in DOMAIN steps : steps[j] \in StepRecs
        BY <1>4, SeqParts
      <4> QED BY <4>1 DEF StepRecs
    <3> QED BY <3>1 DEF StatusOf, Some
  <2> HIDE DEF funds, status
  <2> DEFINE rec == [trade[t] EXCEPT !.steps = steps, !.result = result, !.status = status,
                                     !.funds = funds, !.updated = now]
  <2>11. trade' = [trade EXCEPT ![t] = rec]
    <3>1. Update(t, [trade[t] EXCEPT !.steps = steps, !.status = StatusOf(steps),
                       !.result = result, !.funds = FundsAfter(steps, result, trade[t].funds)])
      BY <1>3, <1>5, <1>9 DEF TradeRecs
    <3>2. PICK q : q = [trade[t] EXCEPT !.steps = steps, !.status = StatusOf(steps),
                          !.result = result, !.funds = FundsAfter(steps, result, trade[t].funds)]
      OBVIOUS
    <3>3. [q EXCEPT !.updated = now] = rec
      BY ONLY <1>5, <3>2 DEF rec, funds, status, TradeRecs
    <3> QED BY ONLY <3>1, <3>2, <3>3 DEF Update
  <2>12. /\ rec \in TradeRecs /\ rec.steps = steps /\ rec.status = status
         /\ rec.result = result /\ rec.funds = funds /\ rec.updated = now
         /\ rec.client = trade[t].client
    <3>1. steps \in StepsOf
      BY <1>4 DEF StepsOf, StepRecs
    <3>2. /\ result \in {"none", "order", "nothing"} /\ funds \in {"unsaid", "wallet", "kuru"}
          /\ status \in TradeStatuses
      BY <2>8, <2>9, <2>10 DEF TradeStatuses
    <3>3. now \in Nat /\ trade[t] \in TradeRecs
      BY <1>5
    <3>4. rec \in TradeRecs
      BY <3>1, <3>2, <3>3 DEF TradeRecs
    <3>5. rec.steps = steps /\ rec.status = status /\ rec.result = result
      BY <3>3 DEF TradeRecs
    <3>6. rec.funds = funds /\ rec.updated = now /\ rec.client = trade[t].client
      BY <3>3 DEF TradeRecs
    <3> QED BY <3>4, <3>5, <3>6
  <2> HIDE DEF rec
  <2>13. trade' \in [Trades -> TradeRecs] /\ trade'[t] = rec
         /\ \A u \in Trades : u # t => trade'[u] = trade[u]
    BY <1>5, <2>11, <2>12
  <2>14. RecordFits(t)'
    <3>1. StepsFit(rec, op[t], at[t])
      <4>1. DOMAIN op[t] = DOMAIN rec.steps /\ DOMAIN op[t] = DOMAIN steps
        BY <1>4, <2>1, <2>12
      <4>2. \A j \in DOMAIN op[t] : Fits(rec.steps[j].status, op[t][j])
        BY <2>3, <2>12, <4>1
      <4>3. \A a, b \in DOMAIN op[t] :
              a < b /\ rec.steps[a].status # "included" => op[t][b] = "none"
        BY <2>7, <2>12, <4>1
      <4>4. InOrder(rec.steps)
        BY <2>7, <2>12 DEF InOrder
      <4>5. OnePlace(rec.steps) /\ at[t].pc = "idle"
        BY <1>5, <2>6, <2>12
      <4> QED BY <4>1, <4>2, <4>3, <4>4, <4>5 DEF StepsFit
    <3>2. StageFits(rec, at[t])
      <4>1. steps # <<>> /\ rec.client \in ClientIds
        <5>1. 1 \in DOMAIN steps
          BY ONLY <1>4, <2>1
        <5>2. trade[t].status \in Stored
          BY <1>9 DEF Stored, Held
        <5>3. trade[t].client \in ClientIds
          BY <2>1, <5>2 DEF StageFits
        <5>4. steps # <<>>
          BY <1>4, <5>1, SeqParts
        <5> QED BY <2>12, <5>3, <5>4
      <4> QED BY <1>5, <2>1, <2>5, <2>10, <2>12, <4>1 DEF StageFits
    <3>3. MoneyFits(rec, op[t])
      BY <2>8, <2>9, <2>12 DEF MoneyFits
    <3> QED BY <1>1, <2>13, <3>1, <3>2, <3>3 DEF RecordFits
  <2>15. \A u \in Trades : RecordFits(u)' /\ trade'[u].updated <= now /\ QueueFits(u)'
    <3>1. now <= now
      BY <1>5
    <3> QED BY <1>1, <2>12, <2>13, <2>14, <3>1 DEF Inv, RecordFits, QueueFits
  <2>16. TypeOK'
    <3>1. \A u \in Trades : at'[u].step <= Len(trade'[u].steps)
      <4>1. Len(steps) = Len(before)
        <5>1. DOMAIN steps = 1..Len(steps) /\ Len(steps) \in Nat
          BY ONLY <1>4, SeqParts
        <5> QED BY ONLY <1>4, <2>1, <5>1
      <4>2. \A u \in Trades : at[u].step <= Len(trade[u].steps)
        BY DEF Inv, TypeOK
      <4> QED BY <1>1, <1>5, <2>12, <2>13, <4>1, <4>2
    <3> QED
      BY <1>1, <1>7, <2>13, <3>1
         DEF Inv, TypeOK, TradeRecs, TradeStatuses, StepsOf, StepRecs, ReadRecs
  <2>17. ASSUME NEW s \in Readers, read'[s].pc # "idle"
         PROVE  ReadFits(s)'
    <3>1. s # r /\ read'[s] = read[s] /\ ReadFits(s)
      BY <1>7, <2>17 DEF Inv
    <3>2. CASE read[s].trade # t
      BY <1>1, <2>13, <3>1, <3>2 DEF ReadFits, Verdict
    <3>3. CASE read[s].trade = t
      <4> DEFINE saw == read[s].steps
      <4>1. /\ DOMAIN saw = DOMAIN before
            /\ \A j \in DOMAIN saw : saw[j] = before[j] \/ Apart(before, saw, j)
        BY <3>1, <3>3 DEF ReadFits
      <4>2. \A j \in DOMAIN saw : j # i => saw[j] = steps[j] \/ Apart(steps, saw, j)
        BY <1>4, <4>1 DEF Apart
      <4>3. saw[i] = steps[i] \/ Apart(steps, saw, i)
        <5>1. CASE before[i] = steps[i]
          BY <1>4, <4>1, <5>1 DEF Apart
        <5>2. CASE before[i] = was[i]
          <6>0. saw[i] \in StepRecs
            <7>1. saw \in Seq(StepRecs)
              BY TypedRead DEF Inv
            <7> QED BY <1>4, <4>1, <7>1, SeqParts
          <6>1. saw[i] = was[i]
            <7>1. SUFFICES ASSUME Apart(before, saw, i) PROVE FALSE
              BY <1>4, <4>1, <5>2
            <7>2. PICK status0 \in {"included", "reverted"} :
                    before[i] = [saw[i] EXCEPT !.status = status0]
              BY <7>1 DEF Apart
            <7>3. before[i].status = status0
              BY <6>0, <7>2 DEF StepRecs
            <7> QED BY <1>4, <5>2, <7>3
          <6> QED BY <1>4, <2>2, <6>1 DEF Apart
        <5> QED BY <1>4, <5>1, <5>2
      <4>4. trade'[t].status \in {"executing", "completed", "failed", "forgotten"}
        BY <2>10, <2>12, <2>13
      <4>5. trade'[t].steps = steps
        BY <2>12, <2>13
      <4> QED
        <5>1. /\ t \in Trades /\ InOrder(saw) /\ \A j \in DOMAIN saw : saw[j].status \in Ended
              /\ at'[t].pc = "idle"
          BY <1>1, <1>5, <3>1, <3>3 DEF ReadFits
        <5>2. read'[s].pc = "settling" =>
                \A j \in Unsettled(saw) : op'[t][j] \in Shut /\ read[s].settled = Verdict(t, j)'
          BY <1>1, <3>1, <3>3 DEF ReadFits, Verdict
        <5>3. DOMAIN saw = DOMAIN steps /\ \A j \in DOMAIN saw : saw[j] = steps[j] \/ Apart(steps, saw, j)
          BY <1>4, <4>1, <4>2, <4>3
        <5>4. read'[s].trade = t /\ read'[s].steps = saw /\ read'[s].settled = read[s].settled
          BY <3>1, <3>3
        <5> HIDE DEF saw
        <5> QED BY <4>4, <4>5, <5>1, <5>2, <5>3, <5>4 DEF ReadFits, Verdict
    <3> QED BY <3>2, <3>3
  <2>18. HeldOnce'
    BY <1>9, <2>12, <2>13 DEF Inv, HeldOnce, Held
  <2>19. LogFits'
    <3> SUFFICES ASSUME NEW k \in DOMAIN log
                 PROVE  LoggedFits(log[k], log[Len(log)].trade)'
      BY <1>1 DEF LogFits, LoggedFits
    <3>1. LoggedFits(log[k], log[Len(log)].trade) /\ log[k].trade \in Trades
      BY TypedLog DEF Inv, LogFits, LoggedFits
    <3>2. CASE log[k].trade = t
      BY <1>1, <2>10, <2>12, <2>13, <3>1, <3>2 DEF LoggedFits
    <3>3. CASE log[k].trade # t
      BY <1>1, <2>13, <3>1, <3>3 DEF LoggedFits
    <3> QED BY <3>2, <3>3
  <2>20. Grouped' /\ KeysAreUsedOnce'
    BY <1>1 DEF Inv, Grouped, KeysAreUsedOnce
  <2>21. \A u \in Trades : trade'[u].updated <= now'
    BY <1>1, <2>15
  <2> QED BY <2>15, <2>16, <2>17, <2>18, <2>19, <2>20, <2>21 DEF Inv, RecordFits
<1> QED BY <1>8, <1>9

-------------------------------------------------------------------------------
(* The invariant is inductive. *)

LEMMA InitInv == Init => Inv
<1> SUFFICES ASSUME Init PROVE Inv
  OBVIOUS
<1>1. <<>> \in StepsOf /\ Nowhere \in Places /\ NoRead \in ReadRecs /\ NoTrade \in TradeRecs
      /\ NoTrade.steps = <<>> /\ NoTrade.updated = 0 /\ NoTrade.status = "none"
      /\ NoTrade.result = "none" /\ NoTrade.funds = "unsaid"
      /\ Nowhere.pc = "idle" /\ Nowhere.step = 0 /\ NoRead.pc = "idle"
  BY EmptyRecords DEF StepsOf, Nowhere, Places, NoRead, ReadRecs, NoTrade
<1>2. now = 0 /\ now \in 0..MaxTime /\ MaxTime \in Nat
  BY TradeAssumption DEF Init
<1>3. /\ trade \in [Trades -> TradeRecs] /\ at \in [Trades -> Places]
      /\ read \in [Readers -> ReadRecs] /\ op \in [Trades -> Seq(Ops)]
      /\ \A t \in Trades : trade[t] = NoTrade /\ at[t] = Nowhere /\ op[t] = <<>>
      /\ \A r \in Readers : read[r] = NoRead
      /\ queue = <<>> /\ log = <<>>
  BY <1>1 DEF Init
<1>4. TypeOK
  <2>1. \A t \in Trades : at[t].step <= Len(trade[t].steps)
    BY <1>1, <1>3
  <2>2. /\ queue \in Seq(Trades)
        /\ log \in Seq([trade : Trades, client : ClientIds, step : Nat, time : Nat])
    BY <1>3
  <2> QED
    BY <1>2, <1>3, <2>1, <2>2
       DEF TypeOK, TradeRecs, TradeStatuses, StepsOf, StepRecs, Places, Ops, ReadRecs
<1>5. \A t \in Trades : RecordFits(t) /\ trade[t].updated <= now /\ QueueFits(t)
  BY <1>1, <1>2, <1>3 DEF RecordFits, StepsFit, StageFits, MoneyFits, ResultFits, FundsFit,
                          InOrder, OnePlace, Stored, QueueFits
<1>6. HeldOnce /\ LogFits /\ Grouped /\ KeysAreUsedOnce
  BY <1>1, <1>3 DEF HeldOnce, Held, LogFits, Grouped, KeysAreUsedOnce
<1>7. \A r \in Readers : read[r].pc = "idle"
  BY <1>1, <1>3
<1> QED BY <1>4, <1>5, <1>6, <1>7 DEF Inv, RecordFits

LEMMA StutterKeeps ==
  ASSUME Inv, UNCHANGED vars
  PROVE  Inv'
<1> USE DEF vars
<1>1. TypeOK' /\ HeldOnce' /\ LogFits' /\ Grouped' /\ KeysAreUsedOnce'
  BY DEF Inv, TypeOK, HeldOnce, Held, LogFits, Grouped, KeysAreUsedOnce
<1>2. \A t \in Trades : RecordFits(t)' /\ trade'[t].updated <= now' /\ QueueFits(t)'
  BY DEF Inv, RecordFits, QueueFits
<1>3. \A r \in Readers : read'[r].pc # "idle" => ReadFits(r)'
  BY DEF Inv, ReadFits, Verdict
<1> QED BY <1>1, <1>2, <1>3 DEF Inv, RecordFits

LEMMA StepInv == Inv /\ [Next]_vars => Inv'
<1> SUFFICES ASSUME Inv, [Next]_vars PROVE Inv'
  OBVIOUS
<1>1. ASSUME NEW t \in Trades, Prepares(t) \/ Stores(t) \/ PlanRefused(t) \/ Commits(t)
      PROVE  Inv'
  BY <1>1, PreparesKeeps, StoresKeeps, PlanRefusedKeeps, CommitsKeeps
<1>2. ASSUME NEW t \in Trades, Work(t) \/ GivesUp(t)
      PROVE  Inv'
  BY <1>2, WorkKeeps, GivesUpKeeps
<1>3. ASSUME NEW t \in Trades, NEW r \in Readers, Reads(r, t)
      PROVE  Inv'
  BY <1>3, ReadsKeeps
<1>4. ASSUME NEW t \in Trades, NEW i \in DOMAIN op[t], PrivyRuns(t, i) \/ Lands(t, i)
      PROVE  Inv'
  BY <1>4, PrivyAndChainKeep
<1>5. ASSUME NEW r \in Readers, Hears(r) \/ HearsNothing(r) \/ Settles(r)
      PROVE  Inv'
  <2>1. CASE Hears(r) \/ HearsNothing(r)
    BY <2>1, HearsKeeps, HearsNothingKeeps
  <2>2. CASE Settles(r)
    <3>1. read[r].trade \in Trades
      BY <2>2 DEF Settles, Inv, ReadFits
    <3>2. PICK t \in Trades : t = read[r].trade
      BY <3>1
    <3> QED BY <2>2, <3>2, SettlesKeeps
  <2> QED BY <1>5, <2>1, <2>2
<1> QED BY <1>1, <1>2, <1>3, <1>4, <1>5, TickKeeps, StutterKeeps DEF Next

LEMMA Invariance == Spec => []Inv
  BY InitInv, StepInv, PTL DEF Spec

(* Every variable stays within its type: no executor, reader or store step
   leaves a trade in a status, or at a step, that it does not have. *)
THEOREM TypeCorrect == Spec => []TypeOK
<1>1. Inv => TypeOK
  BY DEF Inv
<1> QED BY <1>1, Invariance, PTL

LEMMA InOrderMeans ==
  ASSUME Inv, NEW t \in Trades, NEW i \in DOMAIN op[t], i > 1, op[t][i] # "none"
  PROVE  op[t][i - 1] \in {"landed", "empty"}
<1>1. StepsFit(trade[t], op[t], at[t]) /\ StageFits(trade[t], at[t]) /\ op[t] \in Seq(Ops)
  BY Typed DEF Inv
<1>2. /\ i \in 1..Len(op[t]) /\ Len(op[t]) \in Nat /\ DOMAIN op[t] = 1..Len(op[t])
  BY <1>1, SeqParts
<1>3. i - 1 \in DOMAIN op[t] /\ i - 1 < i
  BY <1>2
<1>4. trade[t].steps[i - 1].status = "included"
  BY <1>1, <1>3 DEF StepsFit
<1>5. ~(at[t].pc = "asked" /\ i - 1 = at[t].step)
  BY <1>1, <1>4 DEF StageFits, PlaceFits
<1>6. Fits("included", op[t][i - 1])
  BY <1>1, <1>3, <1>4, <1>5 DEF StepsFit
<1> QED BY <1>6 DEF Fits, Ran

(* What goes to Privy goes in the order of a trade's steps, each only once the
   one before has landed; one trade's requests are not broken into by another's;
   and no key is used for two requests within the day Privy deduplicates by it
   (step-executor.ts:27, :35; trade-store.ts:158). *)
THEOREM RequestsStayOrdered == Spec => []RequestsAreOrdered
<1>1. Inv => RequestsAreOrdered
  <2> SUFFICES ASSUME Inv PROVE RequestsAreOrdered
    OBVIOUS
  <2>1. StepsComeInOrder
    <3>1. Grouped
      BY DEF Inv
    <3> QED BY <3>1, InOrderMeans DEF StepsComeInOrder, Grouped
  <2>2. KeysAreUsedOnce
    BY DEF Inv
  <2> QED BY <2>1, <2>2 DEF RequestsAreOrdered
<1> QED BY <1>1, Invariance, PTL

LEMMA RecordMeans ==
  ASSUME Inv, NEW t \in Trades, Held(t)
  PROVE  /\ \A i \in DOMAIN op[t] : LET status == trade[t].steps[i].status IN
              /\ status = "included" => op[t][i] \in {"landed", "empty"}
              /\ status = "reverted" => op[t][i] = "reverted"
              /\ status = "not_sent" => op[t][i] \in {"none", "gone"}
         /\ trade[t].status = "completed" => \A i \in DOMAIN op[t] : op[t][i] \in {"landed", "empty"}
         /\ trade[t].status = "failed" /\ Unsettled(trade[t].steps) = {} =>
              \A i \in DOMAIN op[t] : op[t][i] \notin {"asked", "out"}
<1>1. /\ StepsFit(trade[t], op[t], at[t]) /\ StageFits(trade[t], at[t])
      /\ DOMAIN op[t] = DOMAIN trade[t].steps
  BY DEF Inv, StepsFit
<1>2. \A i \in DOMAIN op[t] : \/ Fits(trade[t].steps[i].status, op[t][i])
                              \/ at[t].pc = "asked" /\ trade[t].steps[i].status = "queued"
  BY <1>1 DEF StepsFit, StageFits, PlaceFits
<1>3. ASSUME trade[t].status = "failed", Unsettled(trade[t].steps) = {}
      PROVE  \A i \in DOMAIN op[t] : op[t][i] \notin {"asked", "out"}
  <2> TAKE i \in DOMAIN op[t]
  <2>1. trade[t].steps[i].status \in Ended /\ trade[t].steps[i].status # "unknown"
    BY <1>1, <1>3 DEF StageFits, Unsettled
  <2>2. Fits(trade[t].steps[i].status, op[t][i])
    BY <1>2, <2>1 DEF Ended
  <2> QED BY <2>1, <2>2 DEF Fits, Ended, Ran
<1>4. \A i \in DOMAIN op[t] :
        /\ trade[t].steps[i].status = "included" => op[t][i] \in {"landed", "empty"}
        /\ trade[t].steps[i].status = "reverted" => op[t][i] = "reverted"
        /\ trade[t].steps[i].status = "not_sent" => op[t][i] \in {"none", "gone"}
  BY <1>2 DEF Fits, Ran
<1>5. trade[t].status = "completed" => \A i \in DOMAIN op[t] : op[t][i] \in {"landed", "empty"}
  BY <1>1, <1>4 DEF StageFits
<1> QED BY <1>3, <1>4, <1>5

LEMMA FundsMean ==
  ASSUME Inv, NEW t \in Trades, Held(t)
  PROVE  LET ops(kinds) == {op[t][i] : i \in {j \in DOMAIN op[t] : trade[t].steps[j].kind \in kinds}}
         IN /\ trade[t].funds = "wallet" =>
                 ops({"deposit", "batch"}) \cap {"asked", "out", "landed", "empty"} = {}
            /\ trade[t].funds = "kuru" =>
                 /\ ops({"deposit", "batch"}) \cap {"landed", "empty"} # {}
                 /\ ops(Placing) \cap {"asked", "out", "landed"} = {}
<1>1. FundsFit(trade[t].funds, trade[t].steps, op[t]) /\ DOMAIN op[t] = DOMAIN trade[t].steps
  BY DEF Inv, MoneyFits, StepsFit
<1> QED BY <1>1 DEF FundsFit, Ran

(* What a trade's record says of its steps and of its money is so: whatever a
   read settles with the steps as it read them, a step said to have landed has,
   one said not to have been sent never will, a completed trade's steps have all
   landed, and the money is where it is said to be (step-executor.ts:17, :23;
   outcome.ts:189). *)
THEOREM RecordsStayTrue == Spec => []RecordsAreTrue
<1>1. Inv => RecordsAreTrue
  <2> SUFFICES ASSUME Inv PROVE RecordsAreTrue
    OBVIOUS
  <2>1. TypeOK
    BY DEF Inv
  <2>2. StatusesAreTrue
    BY RecordMeans DEF StatusesAreTrue
  <2>3. FundsAreThere
    BY FundsMean DEF FundsAreThere
  <2> QED BY <2>1, <2>2, <2>3 DEF RecordsAreTrue
<1> QED BY <1>1, Invariance, PTL

-------------------------------------------------------------------------------
(* A trade as the phone follows it (TradeFollow): what it is told is so. *)

(* What the server holds of a trade: it was claimed when it left `prepared`, once,
   and its fate is its status until the server forgets it. *)
TradeFits(f) ==
  /\ served[f].status \in {"none", "prepared"} => ~Sent(f)
  /\ served[f].status \in {"executing", "completed", "failed"} => served[f].fate = served[f].status
  /\ served[f].claims = IF Sent(f) THEN 1 ELSE 0

(* No commit that still arrives can run it. *)
Dead(f) == ~Sent(f) /\ (served[f].status = "gone" \/ Lapsed(f))

(* Nothing runs, and nothing is on its way that might run it. *)
Untouched(f) == ~Sent(f) /\ ~late[f]

(* What is asked for fits the point the flow is at. *)
AskFits(f) ==
  /\ asked[f].is = "prepare" <=> flow[f].pc = "preparing"
  /\ asked[f].is \in {"commit", "status"} => flow[f].pc = "following"
  /\ asked[f].is = "none" => asked[f].answer = "none"
  /\ asked[f].is = "commit" => ~flow[f].committed
  /\ asked[f].is = "status" => flow[f].committed

(* A flow has touched nothing before it follows, and follows only what it
   confirmed; it holds a trade committed that runs or ran. *)
FlowFits(f) ==
  /\ flow[f].pc \notin {"following", "told"} =>
       Untouched(f) /\ ~flow[f].committed /\ ~flow[f].unsure
  /\ Sent(f) \/ late[f] \/ flow[f].pc = "following" => served[f].bound = flow[f].confirmed
  /\ flow[f].committed => Sent(f)

(* An answer on its way is so, and stays so until it is heard.  Whatever runs, or
   may yet, of a flow that was never unsure does so behind the answer it waits for. *)
AnswerFits(f) ==
  LET answer == asked[f].answer
  IN flow[f].pc = "following" =>
       /\ answer \in ({"none"} \cup Answers) \ {"expired"}
       /\ answer = "executing" => Sent(f)
       /\ answer \in {"completed", "failed"} => served[f].fate = answer
       /\ answer = "trade_expired" => Dead(f)
       /\ ~flow[f].unsure /\ ~flow[f].committed =>
            /\ Sent(f) => answer \in {"network", "gateway", "executing", "completed", "failed"}
            /\ late[f] => answer = "network"

(* What was told stays so. *)
ToldFits(f) ==
  LET told == flow[f].told
  IN flow[f].pc = "told" =>
       /\ told \in {"moved", "prepare", "here", "already"} => Untouched(f)
       /\ told = "trade_expired" => Dead(f)
       /\ told \in Verdicts => told # "expired" /\ served[f].fate = told
       /\ told \in {"trade_not_found", "unauthorized"} /\ ~flow[f].unsure => Untouched(f)

Following(f) == TradeFits(f) /\ AskFits(f) /\ FlowFits(f) /\ AnswerFits(f) /\ ToldFits(f)

FollowInv == FollowTypeOK /\ \A f \in Flows : Following(f)

-------------------------------------------------------------------------------
(* The records, and how one action changes those of its flow. *)
Pcs  == {"idle", "confirmed", "preparing", "verifying", "following", "told"}
Tolds == {"nothing", "moved", "prepare", "here", "already", "pending"} \cup Verdicts \cup Refusals
FlowRecs ==
  [pc : Pcs, kind : FlowKinds, confirmed : Prices \cup {0}, left : 0..FollowFor,
   committed : BOOLEAN, unsure : BOOLEAN, told : Tolds]
AskRecs ==
  [is : {"none", "prepare", "commit", "status"},
   answer : {"none", "prepared", "refused", "already"} \cup Answers]
ServedRecs ==
  [status : {"none", "prepared", "executing", "completed", "failed", "gone"},
   bound : Prices \cup {0}, life : 0..Lifetime, claims : Nat,
   fate : {"none", "executing", "completed", "failed"}]

(* The other flows stay as they are. *)
Beside(f) ==
  \A g \in Flows \ {f} : /\ flow'[g] = flow[g] /\ asked'[g] = asked[g]
                         /\ late'[g] = late[g] /\ served'[g] = served[g]

LEMMA FollowTypes ==
  FollowTypeOK <=> /\ price \in Prices /\ lost \in 0..MaxLost
                   /\ flow \in [Flows -> FlowRecs] /\ asked \in [Flows -> AskRecs]
                   /\ late \in [Flows -> BOOLEAN] /\ served \in [Flows -> ServedRecs]
BY DEF FollowTypeOK, FlowRecs, AskRecs, ServedRecs, Pcs, Tolds

LEMMA FollowTypesNext ==
  FollowTypeOK' <=> /\ price' \in Prices /\ lost' \in 0..MaxLost
                    /\ flow' \in [Flows -> FlowRecs] /\ asked' \in [Flows -> AskRecs]
                    /\ late' \in [Flows -> BOOLEAN] /\ served' \in [Flows -> ServedRecs]
BY DEF FollowTypeOK, FlowRecs, AskRecs, ServedRecs, Pcs, Tolds

LEMMA FaultsAreCounted ==
  ASSUME FollowTypeOK, (\E kind \in {"request", "answer", "gateway", "unauthorized", "restart",
                                     "steps", "refused"} : Loses(kind)) \/ UNCHANGED lost
  PROVE  lost' \in 0..MaxLost
BY FollowAssumption DEF FollowTypeOK, Loses

(* What is told. *)
LEMMA TellsMake ==
  ASSUME flow \in [Flows -> FlowRecs], NEW f \in Flows, NEW what \in Tolds, Tells(f, what)
  PROVE  /\ flow' \in [Flows -> FlowRecs] /\ \A g \in Flows \ {f} : flow'[g] = flow[g]
         /\ flow'[f].pc = "told" /\ flow'[f].told = what
         /\ flow'[f].confirmed = flow[f].confirmed /\ flow'[f].committed = flow[f].committed
         /\ flow'[f].unsure = flow[f].unsure
<1> DEFINE q == [flow[f] EXCEPT !.pc = "told", !.told = what]
<1>1. q \in FlowRecs /\ q.pc = "told" /\ q.told = what /\ q.confirmed = flow[f].confirmed
      /\ q.committed = flow[f].committed /\ q.unsure = flow[f].unsure
  <2>1. flow[f] \in FlowRecs
    OBVIOUS
  <2> QED BY ONLY <2>1, what \in Tolds DEF FlowRecs, Pcs
<1>2. flow' = [flow EXCEPT ![f] = q]
  BY DEF Tells
<1> HIDE DEF q
<1> QED BY <1>1, <1>2

(* An answer to what is asked. *)
LEMMA RepliesMake ==
  ASSUME asked \in [Flows -> AskRecs], NEW f \in Flows,
         NEW answer \in {"none", "prepared", "refused", "already"} \cup Answers, Replies(f, answer)
  PROVE  /\ asked' \in [Flows -> AskRecs] /\ \A g \in Flows \ {f} : asked'[g] = asked[g]
         /\ asked'[f].is = asked[f].is /\ asked'[f].answer = answer
<1> DEFINE q == [asked[f] EXCEPT !.answer = answer]
<1>1. q \in AskRecs /\ q.is = asked[f].is /\ q.answer = answer
  BY DEF AskRecs
<1>2. asked' = [asked EXCEPT ![f] = q]
  BY DEF Replies
<1> HIDE DEF q
<1> QED BY <1>1, <1>2

(* A claim takes a trade out of `prepared` once. *)
LEMMA ClaimMakes ==
  ASSUME served \in [Flows -> ServedRecs], NEW f \in Flows, TradeFits(f),
         served' = [served EXCEPT ![f] = Claim(f)]
  PROVE  /\ served' \in [Flows -> ServedRecs] /\ \A g \in Flows \ {f} : served'[g] = served[g]
         /\ \/ served'[f] = served[f] /\ (served[f].status = "prepared" => Lapsed(f))
            \/ /\ served[f].status = "prepared" /\ ~Lapsed(f) /\ ~Sent(f)
               /\ served'[f].status = "executing" /\ served'[f].fate = "executing"
               /\ served'[f].claims = 1 /\ served'[f].bound = served[f].bound
<1>1. served[f] \in ServedRecs
  OBVIOUS
<1>2. CASE served[f].status # "prepared" \/ Lapsed(f)
  BY <1>2 DEF Claim
<1>3. CASE served[f].status = "prepared" /\ ~Lapsed(f)
  <2> DEFINE q == [served[f] EXCEPT !.status = "executing", !.fate = "executing", !.claims = 1]
  <2>1. ~Sent(f) /\ served[f].claims = 0
    BY <1>3 DEF TradeFits
  <2>2. /\ q \in ServedRecs /\ q.status = "executing" /\ q.fate = "executing" /\ q.claims = 1
        /\ q.bound = served[f].bound
    BY ONLY <1>1, <2>1 DEF ServedRecs
  <2>3. served' = [served EXCEPT ![f] = q]
    <3>1. Claim(f) = q
      BY <1>3, <2>1 DEF Claim
    <3> QED BY <3>1
  <2> HIDE DEF q
  <2> QED BY <1>3, <2>1, <2>2, <2>3
<1> QED BY <1>2, <1>3

-------------------------------------------------------------------------------
(* A flow nothing happened to stays as it fits. *)
LEMMA StillFollowing ==
  ASSUME NEW g, flow'[g] = flow[g], asked'[g] = asked[g], late'[g] = late[g],
         served'[g] = served[g], Following(g)
  PROVE  Following(g)'
BY DEF Following, TradeFits, AskFits, FlowFits, AnswerFits, ToldFits, Sent, Dead, Untouched, Lapsed

(* The phone's steps: nothing changes at the server. *)
LEMMA PhoneMakes ==
  ASSUME FollowTypeOK, NEW f \in Flows, NEW q \in FlowRecs, flow' = [flow EXCEPT ![f] = q],
         asked' \in [Flows -> AskRecs], \A g \in Flows \ {f} : asked'[g] = asked[g],
         UNCHANGED <<price, late, served, lost>>
  PROVE  FollowTypeOK' /\ Beside(f) /\ flow'[f] = q
<1>1. flow' \in [Flows -> FlowRecs] /\ flow'[f] = q /\ \A g \in Flows \ {f} : flow'[g] = flow[g]
  BY FollowTypes
<1> QED BY <1>1, FollowTypes, FollowTypesNext DEF Beside

LEMMA TradeStays ==
  ASSUME NEW f, TradeFits(f), served'[f] = served[f]
  PROVE  TradeFits(f)' /\ Sent(f)' = Sent(f) /\ Lapsed(f)' = Lapsed(f)
BY DEF TradeFits, Sent, Lapsed

LEMMA ConfirmsFits ==
  ASSUME FollowTypeOK, NEW f \in Flows, Following(f), Confirms(f)
  PROVE  FollowTypeOK' /\ Beside(f) /\ Following(f)'
<1>1. flow[f] \in FlowRecs /\ price \in Prices /\ asked \in [Flows -> AskRecs]
  BY FollowTypes
<1>0. PICK q : q = [flow[f] EXCEPT !.pc = "confirmed", !.confirmed = price]
  OBVIOUS
<1>2. /\ q \in FlowRecs /\ q.pc = "confirmed" /\ q.committed = flow[f].committed
      /\ q.unsure = flow[f].unsure
  BY ONLY <1>0, <1>1 DEF FlowRecs, Pcs
<1>3. flow' = [flow EXCEPT ![f] = q] /\ UNCHANGED <<price, asked, late, served, lost>>
      /\ flow[f].pc = "idle"
  BY <1>0 DEF Confirms
<1>4. FollowTypeOK' /\ Beside(f) /\ flow'[f] = q
  BY <1>1, <1>2, <1>3, PhoneMakes
<1>5. TradeFits(f)' /\ AskFits(f)'
  BY <1>2, <1>3, <1>4, TradeStays DEF Following, AskFits
<1>6. FlowFits(f)' /\ AnswerFits(f)' /\ ToldFits(f)'
  BY <1>2, <1>3, <1>4 DEF Following, FlowFits, AnswerFits, ToldFits, Sent, Untouched
<1> QED BY <1>4, <1>5, <1>6 DEF Following

(* What is told, to a flow whose request is answered, if it is so. *)
LEMMA ToldSafelyFits ==
  ASSUME FollowTypeOK, NEW f \in Flows, Following(f), NEW what \in Tolds, Tells(f, what),
         asked' \in [Flows -> AskRecs], \A g \in Flows \ {f} : asked'[g] = asked[g],
         asked'[f].is = "none", asked'[f].answer = "none", UNCHANGED <<price, late, served, lost>>,
         what \in {"moved", "prepare", "here", "already"} => Untouched(f),
         what = "trade_expired" => Dead(f),
         what \in Verdicts => what # "expired" /\ served[f].fate = what,
         what \in {"trade_not_found", "unauthorized"} /\ ~flow[f].unsure => Untouched(f),
         flow[f].pc # "idle"
  PROVE  FollowTypeOK' /\ Beside(f) /\ Following(f)'
<1>1. flow \in [Flows -> FlowRecs] /\ flow[f] \in FlowRecs
  BY FollowTypes
<1>2. /\ flow' \in [Flows -> FlowRecs] /\ \A g \in Flows \ {f} : flow'[g] = flow[g]
      /\ flow'[f].pc = "told" /\ flow'[f].told = what
      /\ flow'[f].confirmed = flow[f].confirmed /\ flow'[f].committed = flow[f].committed
      /\ flow'[f].unsure = flow[f].unsure
  BY <1>1, TellsMake
<1>3. FollowTypeOK' /\ Beside(f)
  BY <1>2, FollowTypes, FollowTypesNext DEF Beside
<1>4. TradeFits(f)' /\ AskFits(f)' /\ AnswerFits(f)'
  BY <1>2, TradeStays DEF Following, AskFits, AnswerFits
<1>5. FlowFits(f)'
  BY <1>2 DEF Following, FlowFits, Sent
<1>6. Untouched(f)' = Untouched(f) /\ Dead(f)' = Dead(f)
  BY DEF Untouched, Dead, Sent, Lapsed
<1>7. ToldFits(f)'
  BY <1>2, <1>6 DEF ToldFits
<1> QED BY <1>3, <1>4, <1>5, <1>7 DEF Following

LEMMA ReadsMarketFits ==
  ASSUME FollowTypeOK, NEW f \in Flows, Following(f), ReadsMarket(f)
  PROVE  FollowTypeOK' /\ Beside(f) /\ Following(f)'
<1>1. flow[f] \in FlowRecs /\ asked \in [Flows -> AskRecs] /\ asked[f] \in AskRecs
  BY FollowTypes
<1>2. flow[f].pc = "confirmed" /\ UNCHANGED <<price, late, served, lost>>
      /\ asked[f].is = "none" /\ asked[f].answer = "none"
  <2>1. flow[f].pc = "confirmed" /\ UNCHANGED <<price, late, served, lost>>
    BY DEF ReadsMarket
  <2> QED BY <1>1, <2>1 DEF Following, AskFits, AskRecs
<1>3. CASE Tells(f, "moved") /\ UNCHANGED asked
  <2>1. "moved" \in Tolds /\ "moved" \notin Verdicts
    BY DEF Tolds, Verdicts
  <2>2. Untouched(f)
    BY <1>2 DEF Following, FlowFits
  <2> QED BY ONLY FollowTypeOK, f \in Flows, Following(f), <1>1, <1>2, <1>3, <2>1, <2>2, ToldSafelyFits
<1>4. CASE /\ flow' = [flow EXCEPT ![f].pc = "preparing"]
           /\ asked' = [asked EXCEPT ![f].is = "prepare"]
  <2>0. PICK q, a : q = [flow[f] EXCEPT !.pc = "preparing"] /\ a = [asked[f] EXCEPT !.is = "prepare"]
    OBVIOUS
  <2>1. /\ q \in FlowRecs /\ q.pc = "preparing" /\ q.committed = flow[f].committed
        /\ q.unsure = flow[f].unsure
    BY ONLY <1>1, <2>0 DEF FlowRecs, Pcs
  <2>2. a \in AskRecs /\ a.is = "prepare" /\ a.answer = "none"
    BY ONLY <1>1, <1>2, <2>0 DEF AskRecs
  <2>3. flow' = [flow EXCEPT ![f] = q] /\ asked' = [asked EXCEPT ![f] = a]
    BY ONLY <1>4, <2>0
  <2>4. asked' \in [Flows -> AskRecs] /\ asked'[f] = a /\ \A g \in Flows \ {f} : asked'[g] = asked[g]
    BY <1>1, <2>2, <2>3
  <2>5. FollowTypeOK' /\ Beside(f) /\ flow'[f] = q
    BY <1>2, <2>1, <2>3, <2>4, PhoneMakes
  <2>6. TradeFits(f)' /\ AskFits(f)'
    BY <1>2, <2>1, <2>2, <2>4, <2>5, TradeStays DEF Following, AskFits
  <2>7. FlowFits(f)' /\ AnswerFits(f)' /\ ToldFits(f)'
    BY <1>2, <2>1, <2>5 DEF Following, FlowFits, AnswerFits, ToldFits, Sent, Untouched
  <2> QED BY <2>5, <2>6, <2>7 DEF Following
<1> QED BY <1>3, <1>4 DEF ReadsMarket

LEMMA TakesPreparedFits ==
  ASSUME FollowTypeOK, NEW f \in Flows, Following(f), TakesPrepared(f)
  PROVE  FollowTypeOK' /\ Beside(f) /\ Following(f)'
<1>1. flow[f] \in FlowRecs /\ asked \in [Flows -> AskRecs] /\ NoRequest \in AskRecs
  BY FollowTypes DEF NoRequest, AskRecs
<1>2. flow[f].pc = "preparing" /\ UNCHANGED <<price, late, served, lost>> /\ Untouched(f)
  BY DEF TakesPrepared, Following, FlowFits
<1>3. /\ asked' \in [Flows -> AskRecs] /\ \A g \in Flows \ {f} : asked'[g] = asked[g]
      /\ asked'[f].is = "none" /\ asked'[f].answer = "none"
  <2>1. asked' = [asked EXCEPT ![f] = NoRequest] /\ NoRequest.is = "none" /\ NoRequest.answer = "none"
    BY DEF TakesPrepared, NoRequest
  <2> QED BY ONLY <1>1, <2>1, f \in Flows
<1>4. ASSUME NEW what \in {"already", "prepare"}, Tells(f, what)
      PROVE  FollowTypeOK' /\ Beside(f) /\ Following(f)'
  <2>1. what \in Tolds /\ what \notin Verdicts /\ what # "trade_expired"
        /\ what \notin {"trade_not_found", "unauthorized"}
    BY DEF Tolds, Verdicts
  <2> QED BY <1>2, <1>3, <1>4, <2>1, ToldSafelyFits
<1>5. CASE flow' = [flow EXCEPT ![f].pc = "verifying"]
  <2>0. PICK q : q = [flow[f] EXCEPT !.pc = "verifying"]
    OBVIOUS
  <2>1. /\ q \in FlowRecs /\ q.pc = "verifying" /\ q.committed = flow[f].committed
        /\ q.unsure = flow[f].unsure
    BY ONLY <1>1, <2>0 DEF FlowRecs, Pcs
  <2>2. flow' = [flow EXCEPT ![f] = q]
    BY ONLY <1>5, <2>0
  <2>3. FollowTypeOK' /\ Beside(f) /\ flow'[f] = q
    BY <1>2, <1>3, <2>1, <2>2, PhoneMakes
  <2>4. TradeFits(f)' /\ AskFits(f)'
    BY <1>2, <1>3, <2>1, <2>3, TradeStays DEF Following, AskFits
  <2>5. FlowFits(f)' /\ AnswerFits(f)' /\ ToldFits(f)'
    BY <1>2, <2>1, <2>3 DEF Following, FlowFits, AnswerFits, ToldFits, Sent, Untouched
  <2> QED BY <2>3, <2>4, <2>5 DEF Following
<1> QED BY <1>4, <1>5 DEF TakesPrepared

LEMMA VerifiesFits ==
  ASSUME FollowTypeOK, NEW f \in Flows, Following(f), Verifies(f)
  PROVE  FollowTypeOK' /\ Beside(f) /\ Following(f)'
<1>1. flow[f] \in FlowRecs /\ asked \in [Flows -> AskRecs] /\ asked[f] \in AskRecs
  BY FollowTypes
<1>2. /\ flow[f].pc = "verifying" /\ UNCHANGED <<price, asked, late, served, lost>>
      /\ Untouched(f) /\ ~flow[f].committed /\ ~flow[f].unsure
      /\ asked[f].is = "none" /\ asked[f].answer = "none"
  <2>1. flow[f].pc = "verifying" /\ UNCHANGED <<price, asked, late, served, lost>>
    BY DEF Verifies
  <2>2. Untouched(f) /\ ~flow[f].committed /\ ~flow[f].unsure
    BY <2>1 DEF Following, FlowFits
  <2> QED BY <1>1, <2>1, <2>2 DEF Following, AskFits, AskRecs
<1>3. CASE Tells(f, "here")
  <2>1. "here" \in Tolds /\ "here" \notin Verdicts
    BY DEF Tolds, Verdicts
  <2> QED BY ONLY FollowTypeOK, f \in Flows, Following(f), <1>1, <1>2, <1>3, <2>1, ToldSafelyFits
<1>4. CASE Approves(f) /\ flow' = [flow EXCEPT ![f].pc = "following", ![f].left = FollowFor]
  <2>0. PICK q : q = [flow[f] EXCEPT !.pc = "following", !.left = FollowFor]
    OBVIOUS
  <2>1. /\ q \in FlowRecs /\ q.pc = "following" /\ q.committed = flow[f].committed
        /\ q.unsure = flow[f].unsure /\ q.confirmed = flow[f].confirmed
    <3>1. FollowFor \in 0..FollowFor
      BY FollowAssumption
    <3> QED BY ONLY <1>1, <2>0, <3>1 DEF FlowRecs, Pcs
  <2>2. flow' = [flow EXCEPT ![f] = q]
    BY ONLY <1>4, <2>0
  <2>3. FollowTypeOK' /\ Beside(f) /\ flow'[f] = q
    BY <1>1, <1>2, <2>1, <2>2, PhoneMakes
  <2>4. TradeFits(f)' /\ AskFits(f)'
    BY <1>2, <2>1, <2>3, TradeStays DEF Following, AskFits
  <2>5. FlowFits(f)' /\ AnswerFits(f)' /\ ToldFits(f)'
    BY <1>2, <1>4, <2>1, <2>3 DEF Following, FlowFits, AnswerFits, ToldFits, Sent, Untouched, Approves
  <2> QED BY <2>3, <2>4, <2>5 DEF Following
<1> QED BY <1>3, <1>4 DEF Verifies

LEMMA AttemptsFits ==
  ASSUME FollowTypeOK, NEW f \in Flows, Following(f), Attempts(f)
  PROVE  FollowTypeOK' /\ Beside(f) /\ Following(f)'
<1>1. flow \in [Flows -> FlowRecs] /\ flow[f] \in FlowRecs /\ asked \in [Flows -> AskRecs]
      /\ asked[f] \in AskRecs
  BY FollowTypes
<1>2. /\ flow[f].pc = "following" /\ asked[f].is = "none" /\ asked[f].answer = "none"
      /\ UNCHANGED <<price, flow, late, served, lost>>
  BY DEF Attempts, Waits, Following, AskFits
<1>3. PICK is, a : /\ is = (IF flow[f].committed THEN "status" ELSE "commit")
                   /\ a = [asked[f] EXCEPT !.is = is]
  OBVIOUS
<1>4. a \in AskRecs /\ a.is = is /\ a.answer = "none"
  BY ONLY <1>1, <1>2, <1>3 DEF AskRecs
<1>5. asked' = [asked EXCEPT ![f] = a]
  BY <1>3 DEF Attempts
<1>6. asked' \in [Flows -> AskRecs] /\ asked'[f] = a /\ \A g \in Flows \ {f} : asked'[g] = asked[g]
  BY <1>1, <1>4, <1>5
<1>7. FollowTypeOK' /\ Beside(f)
  BY <1>2, <1>6, FollowTypes, FollowTypesNext DEF Beside
<1>8. TradeFits(f)' /\ AskFits(f)'
  BY <1>2, <1>3, <1>4, <1>6, TradeStays DEF Following, AskFits
<1>9. FlowFits(f)' /\ AnswerFits(f)' /\ ToldFits(f)'
  BY <1>2, <1>4, <1>6 DEF Following, FlowFits, AnswerFits, ToldFits, Sent, Untouched
<1> QED BY <1>7, <1>8, <1>9 DEF Following

LEMMA StopsFollowingFits ==
  ASSUME FollowTypeOK, NEW f \in Flows, Following(f), StopsFollowing(f)
  PROVE  FollowTypeOK' /\ Beside(f) /\ Following(f)'
<1>1. asked \in [Flows -> AskRecs]
  BY FollowTypes
<1>2. /\ flow[f].pc = "following" /\ asked[f].is = "none" /\ asked[f].answer = "none"
      /\ UNCHANGED <<price, asked, late, served, lost>> /\ Tells(f, "pending")
  BY DEF StopsFollowing, Waits, Following, AskFits
<1>3. "pending" \in Tolds /\ "pending" \notin Verdicts
  BY DEF Tolds, Verdicts
<1> QED BY ONLY FollowTypeOK, f \in Flows, Following(f), <1>1, <1>2, <1>3, ToldSafelyFits

(* An answer ends the flow, or is heard and followed up. *)
LEMMA TakesAnswerFits ==
  ASSUME FollowTypeOK, NEW f \in Flows, Following(f), TakesAnswer(f)
  PROVE  FollowTypeOK' /\ Beside(f) /\ Following(f)'
<1> DEFINE answer == asked[f].answer
<1>1. flow[f] \in FlowRecs /\ asked \in [Flows -> AskRecs] /\ NoRequest \in AskRecs
  BY FollowTypes DEF NoRequest, AskRecs
<1>2. /\ flow[f].pc = "following" /\ answer # "none" /\ UNCHANGED <<price, late, served, lost>>
      /\ asked' = [asked EXCEPT ![f] = NoRequest]
      /\ \/ answer \in Verdicts /\ Tells(f, answer)
         \/ answer = "executing" /\ flow' = Executing(f)
         \/ answer \in Refusals /\ ~flow[f].committed /\ Tells(f, answer)
         \/ flow' = [flow EXCEPT ![f].unsure = TRUE]
  BY DEF TakesAnswer
<1>3. /\ asked' \in [Flows -> AskRecs] /\ \A g \in Flows \ {f} : asked'[g] = asked[g]
      /\ asked'[f].is = "none" /\ asked'[f].answer = "none"
  <2>1. NoRequest.is = "none" /\ NoRequest.answer = "none"
    BY DEF NoRequest
  <2> QED BY ONLY <1>1, <1>2, <2>1, f \in Flows
<1>4. /\ answer # "expired" /\ (answer = "executing" => Sent(f))
      /\ answer \in {"completed", "failed"} => served[f].fate = answer
      /\ answer = "trade_expired" => Dead(f)
      /\ ~flow[f].unsure /\ ~flow[f].committed =>
           /\ Sent(f) => answer \in {"network", "gateway", "executing", "completed", "failed"}
           /\ late[f] => answer = "network"
  BY <1>2 DEF Following, AnswerFits
<1> HIDE DEF answer
<1>5. CASE answer \in Verdicts /\ Tells(f, answer)
  <2>1. PICK what \in {"completed", "failed"} : what = answer
    BY <1>4, <1>5 DEF Verdicts
  <2>2. what \in Tolds /\ what \notin {"moved", "prepare", "here", "already"} /\ what # "expired"
        /\ what \notin {"trade_expired", "trade_not_found", "unauthorized"}
    BY DEF Tolds, Verdicts
  <2>3. Tells(f, what) /\ served[f].fate = what
    BY <1>4, <1>5, <2>1
  <2> QED BY <1>2, <1>3, <2>2, <2>3, ToldSafelyFits
<1>6. CASE answer \in Refusals /\ ~flow[f].committed /\ Tells(f, answer)
  <2>1. PICK what \in Refusals : what = answer
    BY <1>6
  <2>2. what \in Tolds /\ what \notin {"moved", "prepare", "here", "already"} /\ what \notin Verdicts
    BY DEF Tolds, Verdicts, Refusals
  <2>3. Tells(f, what) /\ (what = "trade_expired" => Dead(f))
    BY <1>4, <1>6, <2>1
  <2>4. what \in {"trade_not_found", "unauthorized"} /\ ~flow[f].unsure => Untouched(f)
    BY <1>4, <1>6, <2>1 DEF Untouched
  <2> QED BY <1>2, <1>3, <2>2, <2>3, <2>4, ToldSafelyFits
<1>7. ASSUME NEW q, \/ q = [flow[f] EXCEPT !.committed = TRUE] /\ Sent(f)
                    \/ q = [flow[f] EXCEPT !.unsure = TRUE],
             flow' = [flow EXCEPT ![f] = q]
      PROVE  FollowTypeOK' /\ Beside(f) /\ Following(f)'
  <2>1. /\ q \in FlowRecs /\ q.pc = "following" /\ q.confirmed = flow[f].confirmed
        /\ q.committed => flow[f].committed \/ Sent(f)
        /\ ~q.unsure /\ ~q.committed => FALSE
    <3>1. flow[f].committed \in BOOLEAN /\ flow[f].unsure \in BOOLEAN
      BY <1>1 DEF FlowRecs
    <3> QED BY ONLY <1>1, <1>2, <1>7, <3>1 DEF FlowRecs
  <2>2. FollowTypeOK' /\ Beside(f) /\ flow'[f] = q
    BY <1>2, <1>3, <1>7, <2>1, PhoneMakes
  <2>3. TradeFits(f)' /\ AskFits(f)'
    BY <1>2, <1>3, <2>1, <2>2, TradeStays DEF Following, AskFits
  <2>4. FlowFits(f)' /\ AnswerFits(f)' /\ ToldFits(f)'
    BY <1>2, <1>3, <2>1, <2>2 DEF Following, FlowFits, AnswerFits, ToldFits, Sent, Untouched
  <2> QED BY <2>2, <2>3, <2>4 DEF Following
<1>8. CASE answer = "executing" /\ flow' = Executing(f)
  <2>1. PICK q : q = [flow[f] EXCEPT !.committed = TRUE]
    OBVIOUS
  <2>2. flow' = [flow EXCEPT ![f] = q]
    BY ONLY <1>8, <2>1 DEF Executing
  <2> QED BY <1>4, <1>7, <1>8, <2>1, <2>2
<1>9. CASE flow' = [flow EXCEPT ![f].unsure = TRUE]
  <2>1. PICK q : q = [flow[f] EXCEPT !.unsure = TRUE]
    OBVIOUS
  <2>2. flow' = [flow EXCEPT ![f] = q]
    BY ONLY <1>9, <2>1
  <2> QED BY <1>7, <2>1, <2>2
<1> QED BY <1>2, <1>5, <1>6, <1>8, <1>9

-------------------------------------------------------------------------------
(* The server's steps: nothing changes of the flows. *)
LEMMA ServerMakes ==
  ASSUME FollowTypeOK, NEW f \in Flows, UNCHANGED <<price, flow>>, lost' \in 0..MaxLost,
         asked' \in [Flows -> AskRecs], \A g \in Flows \ {f} : asked'[g] = asked[g],
         late' \in [Flows -> BOOLEAN], \A g \in Flows \ {f} : late'[g] = late[g],
         served' \in [Flows -> ServedRecs], \A g \in Flows \ {f} : served'[g] = served[g]
  PROVE  FollowTypeOK' /\ Beside(f)
BY FollowTypes, FollowTypesNext DEF Beside

LEMMA ServerPreparesFits ==
  ASSUME FollowTypeOK, NEW f \in Flows, Following(f), ServerPrepares(f)
  PROVE  FollowTypeOK' /\ Beside(f) /\ Following(f)'
<1>1. /\ asked \in [Flows -> AskRecs] /\ late \in [Flows -> BOOLEAN]
      /\ served \in [Flows -> ServedRecs] /\ served[f] \in ServedRecs
  BY FollowTypes
<1>2. /\ asked[f].is = "prepare" /\ UNCHANGED <<price, flow, late>> /\ flow[f].pc = "preparing"
      /\ Untouched(f) /\ ~flow[f].committed
  <2>1. asked[f].is = "prepare" /\ UNCHANGED <<price, flow, late>>
    <3>1. asked[f] = [is |-> "prepare", answer |-> "none"] /\ UNCHANGED <<price, flow, late>>
      BY Zenon DEF ServerPrepares
    <3> QED BY <3>1
  <2>2. flow[f].pc = "preparing"
    BY <2>1 DEF Following, AskFits
  <2> QED BY <2>1, <2>2 DEF Following, FlowFits
<1>3. PICK answer \in {"prepared", "refused", "already", "network"} : Replies(f, answer)
  BY DEF ServerPrepares
<1>4. /\ asked' \in [Flows -> AskRecs] /\ \A g \in Flows \ {f} : asked'[g] = asked[g]
      /\ asked'[f].is = "prepare"
  BY <1>1, <1>2, <1>3, RepliesMake DEF Answers
<1>5. lost' \in 0..MaxLost
  BY FaultsAreCounted DEF ServerPrepares
<1>6. /\ served' \in [Flows -> ServedRecs] /\ \A g \in Flows \ {f} : served'[g] = served[g]
      /\ TradeFits(f)' /\ ~Sent(f)'
  <2>1. CASE UNCHANGED served
    BY <1>1, <1>2, <2>1 DEF Following, TradeFits, Sent, Untouched
  <2>2. ASSUME NEW bound \in Prices,
               served' = [served EXCEPT ![f].status = "prepared", ![f].bound = bound,
                                        ![f].life = Lifetime]
        PROVE  /\ served' \in [Flows -> ServedRecs] /\ \A g \in Flows \ {f} : served'[g] = served[g]
               /\ TradeFits(f)' /\ ~Sent(f)'
    <3>0. PICK q : q = [served[f] EXCEPT !.status = "prepared", !.bound = bound, !.life = Lifetime]
      OBVIOUS
    <3>1. Lifetime \in 0..Lifetime
      BY FollowAssumption
    <3>2. q \in ServedRecs /\ q.status = "prepared" /\ q.fate = served[f].fate /\ q.claims = served[f].claims
      BY ONLY <1>1, <3>0, <3>1, bound \in Prices DEF ServedRecs
    <3>3. served' = [served EXCEPT ![f] = q]
      BY ONLY <2>2, <3>0
    <3>4. served'[f] = q
      BY <1>1, <3>3
    <3>5. served' \in [Flows -> ServedRecs] /\ \A g \in Flows \ {f} : served'[g] = served[g]
      BY <1>1, <3>2, <3>3
    <3>6. TradeFits(f)' /\ ~Sent(f)'
      BY <1>2, <3>2, <3>4 DEF Following, TradeFits, Sent, Untouched
    <3> QED BY <3>5, <3>6
  <2> QED BY <2>1, <2>2 DEF ServerPrepares
<1>7. FollowTypeOK' /\ Beside(f)
  BY <1>1, <1>2, <1>4, <1>5, <1>6, ServerMakes
<1>8. AskFits(f)' /\ FlowFits(f)' /\ AnswerFits(f)' /\ ToldFits(f)'
  BY <1>2, <1>4, <1>6 DEF Following, AskFits, FlowFits, AnswerFits, ToldFits, Sent, Untouched
<1> QED BY <1>6, <1>7, <1>8 DEF Following

(* What a claim does to a flow that was confirmed: nothing, or its trade runs. *)
LEMMA ServedFits ==
  ASSUME NEW f, Following(f), UNCHANGED flow, asked'[f].is = asked[f].is,
         flow[f].pc \in {"following", "told"}, late'[f] => late[f] \/ flow[f].pc = "following",
         \/ served'[f] = served[f]
         \/ /\ served[f].status = "prepared" /\ ~Lapsed(f) /\ ~Sent(f)
            /\ served'[f].status = "executing" /\ served'[f].fate = "executing"
            /\ served'[f].claims = 1 /\ served'[f].bound = served[f].bound
            /\ late[f] \/ flow[f].pc = "following"
         \/ /\ served[f].status = "executing" /\ served'[f].status \in {"completed", "failed"}
            /\ served'[f].fate = served'[f].status
            /\ served'[f].claims = served[f].claims /\ served'[f].bound = served[f].bound
  PROVE  /\ TradeFits(f)' /\ FlowFits(f)'
         /\ Dead(f) => Dead(f)'
         /\ Sent(f) => Sent(f)'
<1>1. TradeFits(f) /\ FlowFits(f)
  BY DEF Following
<1>2. Sent(f) => Sent(f)'
  BY DEF Sent
<1>3. Dead(f) => Dead(f)'
  BY <1>1 DEF Dead, Sent, Lapsed, TradeFits
<1>4. TradeFits(f)'
  BY <1>1 DEF TradeFits, Sent
<1>5. FlowFits(f)'
  BY <1>1, <1>2, <1>4 DEF FlowFits, TradeFits, Sent
<1> QED BY <1>2, <1>3, <1>4, <1>5

LEMMA ServesFits ==
  ASSUME FollowTypeOK, NEW f \in Flows, Following(f), Serves(f)
  PROVE  FollowTypeOK' /\ Beside(f) /\ Following(f)'
<1>1. /\ asked \in [Flows -> AskRecs] /\ late \in [Flows -> BOOLEAN]
      /\ served \in [Flows -> ServedRecs] /\ served[f] \in ServedRecs
  BY FollowTypes
<1>2. /\ asked[f].is = "commit" /\ asked[f].answer = "none" /\ UNCHANGED <<price, flow>>
  BY DEF Serves
<1>3. flow[f].pc = "following" /\ ~flow[f].committed /\ TradeFits(f)
  BY <1>2 DEF Following, AskFits
<1>4. ~flow[f].unsure => Untouched(f)
  BY <1>2, <1>3 DEF Following, AnswerFits, Untouched
<1>5. lost' \in 0..MaxLost
  BY FaultsAreCounted DEF Serves
<1>6. ASSUME served' = [served EXCEPT ![f] = Claim(f)], UNCHANGED late,
             NEW answer \in Answers, answer \in {"network", "gateway"} \/ answer = CommitAnswer(f),
             Replies(f, answer)
      PROVE  FollowTypeOK' /\ Beside(f) /\ Following(f)'
  <2>1. /\ asked' \in [Flows -> AskRecs] /\ \A g \in Flows \ {f} : asked'[g] = asked[g]
        /\ asked'[f].is = "commit" /\ asked'[f].answer = answer
    BY <1>1, <1>2, <1>6, RepliesMake
  <2>2. /\ served' \in [Flows -> ServedRecs] /\ \A g \in Flows \ {f} : served'[g] = served[g]
        /\ \/ served'[f] = served[f] /\ (served[f].status = "prepared" => Lapsed(f))
           \/ /\ served[f].status = "prepared" /\ ~Lapsed(f) /\ ~Sent(f)
              /\ served'[f].status = "executing" /\ served'[f].fate = "executing"
              /\ served'[f].claims = 1 /\ served'[f].bound = served[f].bound
    BY <1>1, <1>3, <1>6, ClaimMakes
  <2>3. FollowTypeOK' /\ Beside(f)
    BY <1>1, <1>2, <1>5, <1>6, <2>1, <2>2, ServerMakes
  <2>4. TradeFits(f)' /\ FlowFits(f)' /\ (Dead(f) => Dead(f)')
    BY <1>2, <1>3, <1>6, <2>1, <2>2, ServedFits
  <2>5. AskFits(f)' /\ ToldFits(f)'
    BY <1>2, <1>3, <2>1 DEF Following, AskFits, ToldFits
  <2>6. CASE answer = CommitAnswer(f)
    <3>1. served[f].status \in {"none", "prepared", "executing", "completed", "failed", "gone"}
      BY <1>1 DEF ServedRecs
    <3>2. /\ answer \in Answers \ {"expired", "network", "gateway"} /\ answer # "none"
          /\ answer = "executing" => Sent(f)'
          /\ answer \in {"completed", "failed"} => served'[f].fate = answer
          /\ answer = "trade_expired" => Dead(f)'
          /\ Sent(f)' /\ ~Sent(f) => answer = "executing"
      <4>1. CASE Lapsed(f)
        <5>1. answer = "trade_expired" /\ served'[f] = served[f] /\ ~Sent(f)
          BY <1>3, <2>2, <2>6, <4>1 DEF CommitAnswer, Lapsed, TradeFits
        <5>2. Dead(f)' /\ ~Sent(f)'
          BY <4>1, <5>1 DEF Dead, Sent, Lapsed
        <5> QED BY <5>1, <5>2 DEF Answers
      <4>2. CASE ~Lapsed(f) /\ served[f].status = "prepared"
        BY <2>2, <2>6, <4>2 DEF CommitAnswer, Answers, Sent
      <4>3. CASE served[f].status # "prepared"
        <5>1. answer = View(f) /\ served'[f] = served[f] /\ ~Lapsed(f)
          BY <2>2, <2>6, <4>3 DEF CommitAnswer, Lapsed
        <5>2. /\ served[f].status \in {"none", "gone"} => answer = "trade_not_found"
              /\ served[f].status \notin {"none", "gone"} => answer = served[f].status
          BY <5>1 DEF View
        <5> QED BY <1>3, <3>1, <4>3, <5>1, <5>2 DEF Answers, Verdicts, TradeFits, Sent
      <4> QED BY <4>1, <4>2, <4>3
    <3>3. ~flow[f].unsure => (Sent(f)' => answer = "executing") /\ ~late'[f]
      BY <1>4, <1>6, <3>2 DEF Untouched
    <3> QED BY <1>2, <1>3, <2>1, <3>2, <3>3, <2>3, <2>4, <2>5 DEF Following, AnswerFits
  <2>7. CASE answer \in {"network", "gateway"}
    <3>1. ~flow[f].unsure => ~late'[f]
      BY <1>4, <1>6 DEF Untouched
    <3> QED BY <1>2, <1>3, <2>1, <2>3, <2>4, <2>5, <2>7, <3>1 DEF Following, AnswerFits, Answers
  <2> QED BY <1>6, <2>6, <2>7
<1>7. ASSUME UNCHANGED served, NEW answer \in {"network", "gateway", "unauthorized"}, Replies(f, answer),
             late' \in {late, [late EXCEPT ![f] = TRUE]}, answer # "network" => late' = late
      PROVE  FollowTypeOK' /\ Beside(f) /\ Following(f)'
  <2>0. answer \in Answers
    BY DEF Answers
  <2>1. /\ asked' \in [Flows -> AskRecs] /\ \A g \in Flows \ {f} : asked'[g] = asked[g]
        /\ asked'[f].is = "commit" /\ asked'[f].answer = answer
    BY <1>1, <1>2, <1>7, <2>0, RepliesMake
  <2>2. late' \in [Flows -> BOOLEAN] /\ \A g \in Flows \ {f} : late'[g] = late[g]
    BY <1>1, <1>7
  <2>3. FollowTypeOK' /\ Beside(f)
    BY <1>1, <1>2, <1>5, <1>7, <2>1, <2>2, ServerMakes
  <2>4. TradeFits(f)' /\ FlowFits(f)'
    BY <1>2, <1>3, <1>7, <2>1, ServedFits
  <2>5. AskFits(f)' /\ ToldFits(f)'
    BY <1>2, <1>3, <2>1 DEF Following, AskFits, ToldFits
  <2>6. ~flow[f].unsure => ~Sent(f)' /\ (late'[f] => answer = "network")
    BY <1>4, <1>7 DEF Untouched, Sent
  <2>7. AnswerFits(f)'
    BY <1>2, <1>3, <2>0, <2>1, <2>6, answer \in {"network", "gateway", "unauthorized"} DEF AnswerFits
  <2> QED BY <2>3, <2>4, <2>5, <2>7 DEF Following
<1>8. CASE /\ served' = [served EXCEPT ![f] = Claim(f)]
           /\ Replies(f, CommitAnswer(f)) \/ Replies(f, "network") \/ Replies(f, "gateway")
           /\ UNCHANGED late
  <2>1. PICK answer : Replies(f, answer) /\ answer \in {CommitAnswer(f), "network", "gateway"}
    BY <1>8
  <2>2. answer \in Answers
    <3>1. served[f].status \in {"none", "prepared", "executing", "completed", "failed", "gone"}
      BY <1>1 DEF ServedRecs
    <3>2. View(f) \in Answers \/ served[f].status = "prepared"
      BY <3>1 DEF View, Answers, Verdicts, Lapsed
    <3>3. CommitAnswer(f) \in Answers
      BY <3>2 DEF CommitAnswer, Answers, Verdicts
    <3> QED BY <2>1, <3>3 DEF Answers
  <2> QED BY <1>6, <1>8, <2>1, <2>2
<1>9. CASE /\ UNCHANGED served
           /\ \/ Replies(f, "network") /\ late' \in {late, [late EXCEPT ![f] = TRUE]}
              \/ \E refused \in {"gateway", "unauthorized"} : Replies(f, refused) /\ UNCHANGED late
  BY <1>7, <1>9
<1> QED BY <1>8, <1>9 DEF Serves

LEMMA ServesLateFits ==
  ASSUME FollowTypeOK, NEW f \in Flows, Following(f), ServesLate(f)
  PROVE  FollowTypeOK' /\ Beside(f) /\ Following(f)'
<1>1. /\ asked \in [Flows -> AskRecs] /\ late \in [Flows -> BOOLEAN] /\ lost \in 0..MaxLost
      /\ served \in [Flows -> ServedRecs]
  BY FollowTypes
<1>2. /\ late[f] /\ late' = [late EXCEPT ![f] = FALSE] /\ UNCHANGED <<price, flow, asked, lost>>
      /\ served' = [served EXCEPT ![f] = Claim(f)] /\ TradeFits(f)
  BY DEF ServesLate, Following
<1>3. late' \in [Flows -> BOOLEAN] /\ ~late'[f] /\ \A g \in Flows \ {f} : late'[g] = late[g]
  BY <1>1, <1>2
<1>4. /\ served' \in [Flows -> ServedRecs] /\ \A g \in Flows \ {f} : served'[g] = served[g]
      /\ \/ served'[f] = served[f]
         \/ /\ served[f].status = "prepared" /\ ~Lapsed(f) /\ ~Sent(f)
            /\ served'[f].status = "executing" /\ served'[f].fate = "executing"
            /\ served'[f].claims = 1 /\ served'[f].bound = served[f].bound
  BY <1>1, <1>2, ClaimMakes
<1>5. flow[f].pc \in {"following", "told"}
  <2>1. flow[f] \in FlowRecs
    BY FollowTypes
  <2>2. flow[f].pc \notin {"following", "told"} => Untouched(f)
    BY DEF Following, FlowFits
  <2> QED BY <1>2, <2>1, <2>2 DEF Untouched
<1>6. FollowTypeOK' /\ Beside(f)
  BY <1>1, <1>2, <1>3, <1>4, ServerMakes
<1>7. TradeFits(f)' /\ FlowFits(f)' /\ (Dead(f) => Dead(f)') /\ (Sent(f) => Sent(f)')
  BY <1>2, <1>3, <1>4, <1>5, ServedFits
<1>8. AskFits(f)'
  BY <1>2 DEF Following, AskFits
<1>9. served[f].fate # "none" => served'[f].fate = served[f].fate
  BY <1>4 DEF Sent
<1>10. AnswerFits(f)'
  BY <1>2, <1>3, <1>7, <1>9 DEF Following, AnswerFits
<1>11. ToldFits(f)'
  BY <1>2, <1>7, <1>9 DEF Following, ToldFits, Untouched, Verdicts
<1> QED BY <1>6, <1>7, <1>8, <1>10, <1>11 DEF Following

LEMMA ReportsFits ==
  ASSUME FollowTypeOK, NEW f \in Flows, Following(f), Reports(f)
  PROVE  FollowTypeOK' /\ Beside(f) /\ Following(f)'
<1>1. /\ asked \in [Flows -> AskRecs] /\ late \in [Flows -> BOOLEAN]
      /\ served \in [Flows -> ServedRecs] /\ served[f] \in ServedRecs
      /\ flow[f] \in FlowRecs
  BY FollowTypes
<1>2. /\ asked[f].is = "status" /\ UNCHANGED <<price, flow, late, served>>
      /\ \/ Replies(f, View(f))
         \/ \E answer \in {"network", "gateway", "unauthorized"} : Replies(f, answer)
  BY DEF Reports
<1>3. flow[f].pc = "following" /\ flow[f].committed /\ Sent(f) /\ TradeFits(f)
  BY <1>1, <1>2 DEF Following, AskFits, FlowFits
<1>4. lost' \in 0..MaxLost
  BY FaultsAreCounted DEF Reports
<1>5. PICK answer : /\ Replies(f, answer) /\ answer \in {View(f), "network", "gateway", "unauthorized"}
  BY <1>2
<1>6. /\ answer \in Answers \ {"expired", "trade_expired"} /\ answer # "none"
      /\ answer \in {"completed", "failed"} => served[f].fate = answer
  <2>1. served[f].status \in {"executing", "completed", "failed", "gone"} /\ ~Lapsed(f)
    BY <1>1, <1>3 DEF ServedRecs, TradeFits, Lapsed
  <2>2. View(f) \in {"trade_not_found", served[f].status} /\ View(f) # "gone"
    BY <2>1 DEF View
  <2> QED BY <1>3, <1>5, <2>1, <2>2 DEF Answers, Verdicts, TradeFits
<1>7. /\ asked' \in [Flows -> AskRecs] /\ \A g \in Flows \ {f} : asked'[g] = asked[g]
      /\ asked'[f].is = "status" /\ asked'[f].answer = answer
  BY <1>1, <1>2, <1>5, <1>6, RepliesMake
<1>8. FollowTypeOK' /\ Beside(f)
  BY <1>1, <1>2, <1>4, <1>7, ServerMakes
<1>9. TradeFits(f)' /\ FlowFits(f)' /\ AskFits(f)' /\ ToldFits(f)'
  BY <1>2, <1>3, <1>7, TradeStays DEF Following, FlowFits, AskFits, ToldFits
<1>10. AnswerFits(f)'
  BY <1>2, <1>3, <1>6, <1>7 DEF AnswerFits, Sent
<1> QED BY <1>8, <1>9, <1>10 DEF Following

LEMMA TradeSettlesFits ==
  ASSUME FollowTypeOK, NEW f \in Flows, Following(f), TradeSettles(f)
  PROVE  FollowTypeOK' /\ Beside(f) /\ Following(f)'
<1>1. /\ asked \in [Flows -> AskRecs] /\ late \in [Flows -> BOOLEAN] /\ lost \in 0..MaxLost
      /\ served \in [Flows -> ServedRecs] /\ served[f] \in ServedRecs
      /\ flow[f] \in FlowRecs
  BY FollowTypes
<1>2. PICK outcome \in {"completed", "failed"} :
        served' = [served EXCEPT ![f].status = outcome, ![f].fate = outcome]
  BY DEF TradeSettles
<1>3. served[f].status = "executing" /\ UNCHANGED <<price, flow, asked, late, lost>>
  BY DEF TradeSettles
<1>4. served[f].fate = "executing"
  BY <1>3 DEF Following, TradeFits
<1>5. PICK q : q = [served[f] EXCEPT !.status = outcome, !.fate = outcome]
  OBVIOUS
<1>6. /\ q \in ServedRecs /\ q.status = outcome /\ q.fate = outcome
      /\ q.claims = served[f].claims /\ q.bound = served[f].bound
  BY ONLY <1>1, <1>5, outcome \in {"completed", "failed"} DEF ServedRecs
<1>7. served' = [served EXCEPT ![f] = q]
  BY ONLY <1>2, <1>5
<1>8. /\ served' \in [Flows -> ServedRecs] /\ \A g \in Flows \ {f} : served'[g] = served[g]
      /\ served'[f] = q
  BY <1>1, <1>6, <1>7
<1>9. FollowTypeOK' /\ Beside(f)
  BY <1>1, <1>3, <1>8, ServerMakes
<1>10. flow[f].pc \in {"following", "told"}
  <2>1. flow[f].pc \notin {"following", "told"} => Untouched(f)
    BY DEF Following, FlowFits
  <2> QED BY <1>1, <1>4, <2>1 DEF Untouched, Sent
<1>11. TradeFits(f)' /\ FlowFits(f)' /\ (Dead(f) => Dead(f)') /\ (Sent(f) => Sent(f)')
  BY <1>3, <1>6, <1>8, <1>10, ServedFits
<1>12. AskFits(f)'
  BY <1>3 DEF Following, AskFits
<1>13. Sent(f) /\ ~Dead(f) /\ served[f].fate \notin {"completed", "failed"}
  BY <1>4 DEF Sent, Dead
<1>14. AnswerFits(f)'
  BY <1>3, <1>11, <1>13 DEF Following, AnswerFits
<1>15. ToldFits(f)'
  BY <1>3, <1>11, <1>13 DEF Following, ToldFits, Untouched, Verdicts
<1> QED BY <1>9, <1>11, <1>12, <1>14, <1>15 DEF Following

(* A restart forgets every trade, and time runs for every flow: a fate stays what
   it is, and what lapsed has lapsed. *)
LEMMA AgesFit ==
  ASSUME NEW f, Following(f), asked'[f] = asked[f], late'[f] = late[f],
         flow'[f].pc = flow[f].pc, flow'[f].confirmed = flow[f].confirmed,
         flow'[f].committed = flow[f].committed, flow'[f].unsure = flow[f].unsure,
         flow'[f].told = flow[f].told, served'[f].bound = served[f].bound,
         served'[f].fate = served[f].fate, served'[f].claims = served[f].claims,
         \/ served'[f].status = served[f].status /\ (served[f].life = 0 => served'[f].life = 0)
         \/ served[f].status # "none" /\ served'[f].status = "gone"
  PROVE  Following(f)'
<1>1. Sent(f)' = Sent(f) /\ Untouched(f)' = Untouched(f)
  BY DEF Sent, Untouched
<1>2. Dead(f) => Dead(f)'
  BY <1>1 DEF Dead, Lapsed
<1>3. TradeFits(f)'
  BY <1>1 DEF Following, TradeFits
<1>4. AskFits(f)' /\ FlowFits(f)'
  BY <1>1 DEF Following, AskFits, FlowFits
<1>5. AnswerFits(f)'
  BY <1>1, <1>2 DEF Following, AnswerFits
<1>6. ToldFits(f)'
  BY <1>1, <1>2 DEF Following, ToldFits
<1> QED BY <1>3, <1>4, <1>5, <1>6 DEF Following

LEMMA ServerRestartsFits ==
  ASSUME FollowInv, ServerRestarts
  PROVE  FollowInv'
<1>1. FollowTypeOK /\ served \in [Flows -> ServedRecs] /\ UNCHANGED <<price, flow, asked, late>>
  BY FollowTypes DEF FollowInv, ServerRestarts
<1>2. ASSUME NEW f \in Flows
      PROVE  /\ served'[f] \in ServedRecs /\ served'[f].bound = served[f].bound
             /\ served'[f].fate = served[f].fate /\ served'[f].claims = served[f].claims
             /\ \/ served'[f].status = served[f].status /\ (served[f].life = 0 => served'[f].life = 0)
                \/ served[f].status # "none" /\ served'[f].status = "gone"
  <2>1. served'[f] = IF served[f].status = "none" THEN served[f]
                     ELSE [served[f] EXCEPT !.status = "gone"]
    BY DEF ServerRestarts
  <2>2. served[f] \in ServedRecs
    BY <1>1
  <2> QED BY ONLY <2>1, <2>2 DEF ServedRecs
<1>3. lost' \in 0..MaxLost
  BY <1>1, FaultsAreCounted DEF ServerRestarts
<1>4. served' \in [Flows -> ServedRecs]
  <2>1. served' = [f \in Flows |-> served'[f]]
    BY DEF ServerRestarts
  <2> QED BY ONLY <1>2, <2>1
<1>5. FollowTypeOK'
  BY <1>1, <1>3, <1>4, FollowTypes, FollowTypesNext
<1>6. ASSUME NEW f \in Flows PROVE Following(f)'
  BY <1>1, <1>2, AgesFit DEF FollowInv
<1> QED BY <1>5, <1>6 DEF FollowInv

LEMMA PassesFits ==
  ASSUME FollowInv, Passes
  PROVE  FollowInv'
<1>1. /\ FollowTypeOK /\ served \in [Flows -> ServedRecs] /\ flow \in [Flows -> FlowRecs]
      /\ UNCHANGED <<price, asked, late, lost>>
  BY FollowTypes DEF FollowInv, Passes
<1>2. /\ \A n \in 0..FollowFor : Less(n) \in 0..FollowFor
      /\ \A n \in 0..Lifetime : Less(n) \in 0..Lifetime
      /\ Less(0) = 0
  BY FollowAssumption DEF Less
<1>3. ASSUME NEW f \in Flows
      PROVE  /\ served'[f] \in ServedRecs /\ served'[f].bound = served[f].bound
             /\ served'[f].fate = served[f].fate /\ served'[f].claims = served[f].claims
             /\ served'[f].status = served[f].status /\ (served[f].life = 0 => served'[f].life = 0)
             /\ flow'[f] \in FlowRecs /\ flow'[f].pc = flow[f].pc
             /\ flow'[f].confirmed = flow[f].confirmed /\ flow'[f].committed = flow[f].committed
             /\ flow'[f].unsure = flow[f].unsure /\ flow'[f].told = flow[f].told
  <2>1. served'[f] = [served[f] EXCEPT !.life = Less(served[f].life)]
        /\ flow'[f] = [flow[f] EXCEPT !.left = Less(flow[f].left)]
    BY DEF Passes
  <2>2. served[f] \in ServedRecs /\ flow[f] \in FlowRecs
    BY <1>1
  <2>3. served[f].life \in 0..Lifetime /\ flow[f].left \in 0..FollowFor
    BY ONLY <2>2 DEF ServedRecs, FlowRecs
  <2>4. PICK life \in 0..Lifetime, left \in 0..FollowFor :
          /\ life = Less(served[f].life) /\ left = Less(flow[f].left)
          /\ served[f].life = 0 => life = 0
    BY <1>2, <2>3
  <2>5. served'[f] = [served[f] EXCEPT !.life = life] /\ flow'[f] = [flow[f] EXCEPT !.left = left]
    BY <2>1, <2>4
  <2>6. flow'[f] \in FlowRecs /\ flow'[f].pc = flow[f].pc
        /\ flow'[f].confirmed = flow[f].confirmed /\ flow'[f].committed = flow[f].committed
        /\ flow'[f].unsure = flow[f].unsure /\ flow'[f].told = flow[f].told
    BY ONLY <2>2, <2>5, left \in 0..FollowFor DEF FlowRecs
  <2>7. /\ served'[f] \in ServedRecs /\ served'[f].bound = served[f].bound
        /\ served'[f].fate = served[f].fate /\ served'[f].claims = served[f].claims
        /\ served'[f].status = served[f].status /\ served'[f].life = life
    BY ONLY <2>2, <2>5, life \in 0..Lifetime DEF ServedRecs
  <2> QED BY <2>4, <2>6, <2>7
<1>4. served' \in [Flows -> ServedRecs] /\ flow' \in [Flows -> FlowRecs]
  <2>1. served' = [f \in Flows |-> served'[f]] /\ flow' = [f \in Flows |-> flow'[f]]
    BY DEF Passes
  <2> QED BY ONLY <1>3, <2>1
<1>5. FollowTypeOK'
  BY <1>1, <1>4, FollowTypes, FollowTypesNext
<1>6. ASSUME NEW f \in Flows PROVE Following(f)'
  BY <1>1, <1>3, AgesFit DEF FollowInv
<1> QED BY <1>5, <1>6 DEF FollowInv

-------------------------------------------------------------------------------
LEMMA FollowStarts ==
  ASSUME FollowInit
  PROVE  FollowInv
<1>1. PICK kind \in [Flows -> FlowKinds] :
        flow = [f \in Flows |-> [pc |-> "idle", kind |-> kind[f], confirmed |-> 0, left |-> 0,
                                committed |-> FALSE, unsure |-> FALSE, told |-> "nothing"]]
  BY DEF FollowInit
<1>2. 0 \in 0..FollowFor /\ 0 \in 0..Lifetime /\ 0 \in 0..MaxLost
  BY FollowAssumption
<1>3. FollowTypeOK
  <2>1. flow \in [Flows -> FlowRecs]
    BY <1>1, <1>2 DEF FlowRecs, Pcs, Tolds
  <2>2. asked \in [Flows -> AskRecs] /\ late \in [Flows -> BOOLEAN]
    BY DEF FollowInit, NoRequest, AskRecs
  <2>3. served \in [Flows -> ServedRecs]
    BY <1>2 DEF FollowInit, ServedRecs
  <2> QED BY <1>2, <2>1, <2>2, <2>3, FollowTypes DEF FollowInit
<1>4. ASSUME NEW f \in Flows PROVE Following(f)
  <2>1. /\ flow[f].pc = "idle" /\ ~flow[f].committed /\ ~flow[f].unsure
        /\ asked[f].is = "none" /\ asked[f].answer = "none" /\ ~late[f]
        /\ served[f].status = "none" /\ served[f].fate = "none" /\ served[f].claims = 0
    BY <1>1 DEF FollowInit, NoRequest
  <2> QED BY <2>1 DEF Following, TradeFits, AskFits, FlowFits, AnswerFits, ToldFits, Sent, Untouched
<1> QED BY <1>3, <1>4 DEF FollowInv

LEMMA FollowStep ==
  ASSUME FollowInv, FollowNext
  PROVE  FollowInv'
<1>1. ASSUME NEW f \in Flows, FollowTypeOK' /\ Beside(f) /\ Following(f)'
      PROVE  FollowInv'
  <2>1. ASSUME NEW g \in Flows PROVE Following(g)'
    <3>1. CASE g = f
      BY <1>1, <3>1
    <3>2. CASE g # f
      BY <1>1, <3>2, StillFollowing DEF Beside, FollowInv
    <3> QED BY <3>1, <3>2
  <2> QED BY <1>1, <2>1 DEF FollowInv
<1>2. CASE Moves
  <2>1. FollowTypeOK'
    BY <1>2, FollowTypes, FollowTypesNext DEF Moves, FollowInv
  <2>2. ASSUME NEW g \in Flows PROVE Following(g)'
    BY <1>2, StillFollowing DEF Moves, FollowInv
  <2> QED BY <2>1, <2>2 DEF FollowInv
<1>3. ASSUME NEW f \in Flows,
             \/ Confirms(f) \/ ReadsMarket(f) \/ TakesPrepared(f) \/ Verifies(f) \/ Attempts(f)
             \/ StopsFollowing(f) \/ TakesAnswer(f) \/ ServerPrepares(f) \/ Serves(f)
             \/ ServesLate(f) \/ Reports(f) \/ TradeSettles(f)
      PROVE  FollowTypeOK' /\ Beside(f) /\ Following(f)'
  <2>1. FollowTypeOK /\ Following(f)
    BY DEF FollowInv
  <2> QED BY ONLY f \in Flows, <1>3, <2>1, ConfirmsFits, ReadsMarketFits, TakesPreparedFits,
             VerifiesFits, AttemptsFits, StopsFollowingFits, TakesAnswerFits, ServerPreparesFits,
             ServesFits, ServesLateFits, ReportsFits, TradeSettlesFits
<1> QED BY <1>1, <1>2, <1>3, ServerRestartsFits, PassesFits DEF FollowNext

(* A trade is committed once, at the bound the user confirmed, whatever is sent
   again or arrives late; and the phone says that nothing was sent, or that it
   failed, only of a trade of which that is so, but for a refusal of a retry
   (flow.ts:514 and :185): whatever the faults, the prices and the lifetimes. *)
THEOREM ToldStaysTrue == FollowSpec => []ToldIsTrue
<1>1. FollowInit => FollowInv
  BY FollowStarts
<1>2. FollowInv /\ [FollowNext]_followVars => FollowInv'
  <2>1. ASSUME FollowInv, UNCHANGED followVars PROVE FollowInv'
    <3>1. UNCHANGED <<price, flow, asked, late, served, lost>>
      BY <2>1 DEF followVars
    <3>2. FollowTypeOK'
      BY <2>1, <3>1, FollowTypes, FollowTypesNext DEF FollowInv
    <3>3. ASSUME NEW g \in Flows PROVE Following(g)'
      BY <2>1, <3>1, StillFollowing DEF FollowInv
    <3> QED BY <3>2, <3>3 DEF FollowInv
  <2> QED BY <2>1, FollowStep
<1>3. FollowInv => ToldIsTrue
  <2>1. ASSUME FollowInv, NEW f \in Flows
        PROVE  /\ served[f].claims <= 1 /\ (Sent(f) => served[f].bound = flow[f].confirmed)
               /\ flow[f].pc = "told" =>
                    LET told == flow[f].told
                    IN /\ told \in {"moved", "prepare", "here", "already", "trade_expired"} => ~Sent(f)
                       /\ told \in Verdicts => served[f].fate = told
                       /\ told \in Refusals /\ Sent(f) => flow[f].unsure \/ told = "gateway"
    <3>1. Following(f)
      BY <2>1 DEF FollowInv
    <3>2. served[f].claims <= 1 /\ (Sent(f) => served[f].bound = flow[f].confirmed)
      BY <3>1 DEF Following, TradeFits, FlowFits
    <3>3. ToldFits(f)
      BY <3>1 DEF Following
    <3> QED BY <3>2, <3>3 DEF ToldFits, Dead, Untouched, Refusals
  <2> QED BY <2>1 DEF FollowInv, ToldIsTrue
<1> QED BY <1>1, <1>2, <1>3, PTL DEF FollowSpec

-------------------------------------------------------------------------------
-------------------------------------------------------------------------------
(* The orders a user's phones place at Perpl (PerplOrders): what the screen says of
   one is what became of it, and no number executes twice. *)

(* Perpl has put it on chain, for good or not. *)
Forwarded(a) == act[a].frame \in {"executed", "failed"}

(* The outcome of the order that a's number names, of one trader's or another's. *)
SameNumber(a) == {c \in Actions : act[c].rq = act[a].rq}
FilledAt(a, n)   == \E c \in SameNumber(a) : Executed(c) /\ act[c].moved = n
ForwardedAt(a)   == \E c \in SameNumber(a) : Forwarded(c)

(* A point of the action, and what it has of its number and its turn. *)
PointFits(a) ==
  /\ act[a].pc \in {"idle", "queued", "signing"} =>
       /\ act[a].rq = 0 /\ act[a].frame = "none" /\ act[a].result = "none"
       /\ ~act[a].failing /\ ~act[a].settled /\ ~act[a].none
  /\ act[a].pc = "waiting" => act[a].rq > 0 /\ act[a].frame # "none" /\ act[a].result = "none"
  /\ act[a].pc \in {"reading", "told"} => act[a].result # "none"
  /\ act[a].pc = "reading" => act[a].reads < MaxReads
  /\ act[a].pc \notin {"reading", "told"} => act[a].reads = 0
  /\ act[a].pc \in {"signing", "waiting"} => Turn(a)
  /\ act[a].pc # "waiting" => inbox[a] = <<>>
  /\ act[a].frame # "none" <=> act[a].rq > 0
  /\ act[a].result \in {"order", "rejected"} => act[a].rq > 0
  /\ act[a].frame # "executed" => act[a].moved = 0
  /\ act[a].pc # "idle" /\ position = 0 => act[a].emptied
  /\ act[a].moved <= act[a].size

(* Numbers follow the account's, which is the last one's that was forwarded. *)
NumberFits(a) ==
  /\ act[a].rq <= lfr + 1
  /\ act[a].frame \in {"executed", "failed", "vanished"} => act[a].rq <= lfr

(* What is on its way to the phone, or has reached it, of an order. *)
MessageFits(a, m) ==
  /\ m.is = "refused" => act[a].frame = "refused"
  /\ m.is = "done"    => FilledAt(a, m.filled)
  /\ m.is = "failed"  => ForwardedAt(a)
  /\ m.none           => act[a].emptied

HeardFits(a) ==
  /\ \A i \in DOMAIN inbox[a] : MessageFits(a, inbox[a][i])
  /\ act[a].pc = "waiting" /\ act[a].settled => FilledAt(a, act[a].filled)
  /\ act[a].pc = "waiting" /\ act[a].failing => ForwardedAt(a)
  /\ act[a].none    => act[a].emptied
  /\ act[a].result = "order" => FilledAt(a, act[a].filled)
  /\ act[a].filled # 0 => act[a].rq > 0 /\ FilledAt(a, act[a].filled)
  /\ act[a].result = "noposition" => act[a].emptied
  /\ act[a].result \in {"order", "rejected", "noposition"} /\ act[a].rq > 0 =>
       ForwardedAt(a) \/ act[a].frame = "refused"

(* A failure that was announced is one, or its fill is yet to be heard. *)
FillIsComing(a) == inbox[a] # <<>> /\ inbox[a][Len(inbox[a])].is = "done"
FailureFits(a) ==
  ~SharesNumber(a) =>
    /\ \A i \in DOMAIN inbox[a] : inbox[a][i].is = "failed" =>
         act[a].frame = "failed" \/ FillIsComing(a)
    /\ act[a].pc = "waiting" /\ act[a].failing => act[a].frame = "failed" \/ FillIsComing(a)
    /\ act[a].result = "rejected" => act[a].frame \in {"refused", "failed"} \/ "late" \in happened

ToldOrderFits(a) ==
  /\ act[a].pc = "told" /\ ~SharesNumber(a) =>
      /\ act[a].told = "closed"         => act[a].emptied \/ (Executed(a) /\ act[a].moved = act[a].size)
      /\ act[a].told = "already-closed" => act[a].emptied
      /\ act[a].told = "unfilled"       => Executed(a) /\ act[a].moved = 0
      /\ act[a].told = "failed"         => act[a].frame \in {"refused", "failed"} \/ "late" \in happened
      /\ act[a].told = "done"           => Executed(a) /\ act[a].moved = act[a].filled
  /\ act[a].pc = "told" /\ act[a].told = "landed" => \E b \in Actions : act[b].moved > 0

(* Two actions of a trader: a number comes again only where one was refused or its
   outcome was lost, and a lower one is of an action that is over. *)
PairFits(a, b) ==
  act[a].trader = act[b].trader /\ act[a].rq > 0 /\ act[b].rq > 0 =>
    /\ act[a].rq = act[b].rq => \/ "refused" \in {act[a].frame, act[b].frame}
                                \/ "unknown" \in {act[a].result, act[b].result}
    /\ act[a].rq < act[b].rq => act[a].pc # "waiting"

VanishedFits(a) ==
  act[a].frame = "vanished" =>
    \E b \in Actions \ {a} :
      /\ act[b].rq >= act[a].rq
      /\ act[b].trader # act[a].trader \/ "unknown" \in {act[a].result, act[b].result}

(* Until something moves, every phone shows the position, and asks at it. *)
StillFits ==
  (\A b \in Actions : act[b].moved = 0) =>
    /\ shown = position
    /\ \A a \in Actions : act[a].pc # "idle" => act[a].before = position

LastFits == lfr > 0 => \E b \in Actions : Forwarded(b) /\ act[b].rq = lfr

OrderFits(a) == /\ PointFits(a) /\ NumberFits(a) /\ HeardFits(a) /\ FailureFits(a)
                /\ ToldOrderFits(a) /\ VanishedFits(a)

OrdersInv ==
  /\ OrdersTypeOK /\ StillFits /\ LastFits
  /\ \A a \in Actions : OrderFits(a)
  /\ \A a, b \in Actions : a # b => PairFits(a, b)
  /\ \A a, b \in Actions : Executed(a) /\ Executed(b) /\ act[a].rq = act[b].rq => a = b

-------------------------------------------------------------------------------
(* The records, and what a step leaves of the other actions. *)
OrderPcs == {"idle", "queued", "signing", "waiting", "reading", "told"}
ActRecs ==
  [kind : OrderKinds, trader : Traders, before : 0..MaxSize, size : 0..MaxSize, rq : Nat,
   pc : OrderPcs, frame : Frames, moved : 0..MaxSize, admitted : BOOLEAN, failing : BOOLEAN,
   none : BOOLEAN, filled : 0..MaxSize, settled : BOOLEAN, result : OrderResults,
   reads : 0..MaxReads, told : Told, emptied : BOOLEAN]
Messages == [is : {"admitted", "refused", "failed", "done"}, filled : 0..MaxSize, none : BOOLEAN]

LEMMA OrdersTypes ==
  OrdersTypeOK <=> /\ position \in 0..MaxSize /\ shown \in 0..MaxSize /\ lfr \in Nat
                   /\ turns \in [Traders -> Seq(Actions)] /\ happened \subseteq Faults
                   /\ troubles \in 0..MaxTroubles
                   /\ act \in [Actions -> ActRecs] /\ inbox \in [Actions -> Seq(Messages)]
BY DEF OrdersTypeOK, ActRecs, Messages, OrderPcs

LEMMA OrdersTypesNext ==
  OrdersTypeOK' <=> /\ position' \in 0..MaxSize /\ shown' \in 0..MaxSize /\ lfr' \in Nat
                    /\ turns' \in [Traders -> Seq(Actions)] /\ happened' \subseteq Faults
                    /\ troubles' \in 0..MaxTroubles
                    /\ act' \in [Actions -> ActRecs] /\ inbox' \in [Actions -> Seq(Messages)]
BY DEF OrdersTypeOK, ActRecs, Messages, OrderPcs

(* The fields of a record. *)
LEMMA ActFields ==
  ASSUME NEW r \in ActRecs
  PROVE  /\ r.kind \in OrderKinds /\ r.trader \in Traders /\ r.before \in 0..MaxSize
         /\ r.size \in 0..MaxSize /\ r.rq \in Nat /\ r.pc \in OrderPcs /\ r.frame \in Frames
         /\ r.moved \in 0..MaxSize /\ r.failing \in BOOLEAN /\ r.none \in BOOLEAN
         /\ r.filled \in 0..MaxSize /\ r.settled \in BOOLEAN /\ r.result \in OrderResults
         /\ r.reads \in 0..MaxReads /\ r.told \in Told /\ r.emptied \in BOOLEAN
         /\ r.admitted \in BOOLEAN
BY DEF ActRecs

LEMMA TroublesAreCounted ==
  ASSUME OrdersTypeOK, (\E kind \in Faults : Trouble(kind)) \/ Calm
  PROVE  happened' \subseteq Faults /\ troubles' \in 0..MaxTroubles /\ happened \subseteq happened'
<1>1. happened \subseteq Faults /\ troubles \in 0..MaxTroubles
  BY DEF OrdersTypeOK
<1>2. CASE Calm
  BY <1>1, <1>2 DEF Calm
<1>3. CASE \E kind \in Faults : Trouble(kind)
  BY <1>1, <1>3, OrdersAssumption DEF Trouble
<1> QED BY <1>2, <1>3

LEMMA HeadAndTail ==
  ASSUME NEW S, NEW s \in Seq(S), s # <<>>
  PROVE  /\ Head(s) = s[1] /\ 1 \in DOMAIN s /\ Head(s) \in S /\ Tail(s) \in Seq(S)
         /\ \A i \in DOMAIN Tail(s) : i + 1 \in DOMAIN s /\ Tail(s)[i] = s[i + 1]
         /\ Len(s) \in Nat /\ Len(Tail(s)) = Len(s) - 1
         /\ Tail(s) # <<>> => Len(s) > 1 /\ Len(Tail(s)) \in DOMAIN Tail(s)
                              /\ Tail(s)[Len(Tail(s))] = s[Len(s)]
         /\ Tail(s) = <<>> => Len(s) = 1
<1>1. /\ Len(s) \in Nat /\ Len(s) > 0 /\ DOMAIN s = 1..Len(s) /\ Head(s) = s[1]
  OBVIOUS
<1>2. /\ Tail(s) \in Seq(S) /\ Len(Tail(s)) = Len(s) - 1 /\ DOMAIN Tail(s) = 1..(Len(s) - 1)
      /\ \A i \in 1..(Len(s) - 1) : Tail(s)[i] = s[i + 1]
  OBVIOUS
<1>3. Head(s) \in S
  OBVIOUS
<1>4. \A i \in DOMAIN Tail(s) : i + 1 \in DOMAIN s /\ Tail(s)[i] = s[i + 1]
  BY ONLY <1>1, <1>2
<1>5. Tail(s) # <<>> => Len(s) > 1
  OBVIOUS
<1>6. Tail(s) = <<>> => Len(s) = 1
  BY <1>1, <1>2
<1>7. Len(s) > 1 => Len(Tail(s)) \in DOMAIN Tail(s) /\ Tail(s)[Len(Tail(s))] = s[Len(s)]
  BY ONLY <1>1, <1>2
<1> QED BY ONLY <1>1, <1>2, <1>3, <1>4, <1>5, <1>6, <1>7

LEMMA AppendKeepsHead ==
  ASSUME NEW S, NEW s \in Seq(S), NEW x \in S
  PROVE  Append(s, x) \in Seq(S) /\ (s # <<>> => Append(s, x) # <<>> /\ Head(Append(s, x)) = Head(s))
OBVIOUS

LEMMA JoinedParts ==
  ASSUME NEW S, NEW s \in Seq(S), NEW t \in Seq(S)
  PROVE  /\ s \o t \in Seq(S) /\ Len(s \o t) = Len(s) + Len(t) /\ Len(s) \in Nat /\ Len(t) \in Nat
         /\ \A i \in DOMAIN (s \o t) :
              \/ i \in DOMAIN s /\ (s \o t)[i] = s[i]
              \/ i - Len(s) \in DOMAIN t /\ (s \o t)[i] = t[i - Len(s)]
         /\ t # <<>> => s \o t # <<>> /\ (s \o t)[Len(s \o t)] = t[Len(t)]
OBVIOUS

(* A number that was taken names the orders it named, and what became of them. *)
NumbersStay ==
  \A c \in Actions : /\ act[c].rq # 0 => act'[c].rq = act[c].rq
                     /\ Executed(c) => Executed(c)' /\ act'[c].moved = act[c].moved
                     /\ Forwarded(c) => Forwarded(c)'
                     /\ Forwarded(c) => act[c].rq # 0

LEMMA NumbersGrow ==
  ASSUME NumbersStay, NEW b \in Actions
  PROVE  /\ \A n : FilledAt(b, n) => FilledAt(b, n)'
         /\ ForwardedAt(b) => ForwardedAt(b)'
         /\ SharesNumber(b) => SharesNumber(b)'
<1>1. \A c \in Actions : Forwarded(c) => act[c].rq # 0
  BY DEF NumbersStay
<1>2. ASSUME NEW c \in SameNumber(b), Forwarded(c)
      PROVE  c \in SameNumber(b)'
  <2>1. c \in Actions /\ act[c].rq = act[b].rq /\ act[c].rq # 0
    BY <1>1, <1>2 DEF SameNumber
  <2> QED BY <2>1 DEF NumbersStay, SameNumber
<1>3. ASSUME NEW n, FilledAt(b, n)
      PROVE  FilledAt(b, n)'
  <2>1. PICK c \in SameNumber(b) : Executed(c) /\ act[c].moved = n
    BY <1>3 DEF FilledAt
  <2>2. c \in Actions /\ Forwarded(c)
    BY <2>1 DEF SameNumber, Executed, Forwarded
  <2>3. c \in SameNumber(b)'
    BY <1>2, <2>2
  <2>4. Executed(c)' /\ act'[c].moved = n
    BY <2>1, <2>2 DEF NumbersStay
  <2> QED BY <2>3, <2>4 DEF FilledAt
<1>4. ASSUME ForwardedAt(b)
      PROVE  ForwardedAt(b)'
  <2>1. PICK c \in SameNumber(b) : Forwarded(c)
    BY <1>4 DEF ForwardedAt
  <2>2. c \in SameNumber(b)' /\ Forwarded(c)'
    BY <1>2, <2>1 DEF NumbersStay, SameNumber
  <2> QED BY <2>2 DEF ForwardedAt
<1>5. SharesNumber(b) => SharesNumber(b)'
  BY DEF SharesNumber, NumbersStay
<1> QED BY <1>3, <1>4, <1>5

(* An action whose number is its own is the only one its number names. *)
LEMMA Unshared ==
  ASSUME NEW a \in Actions, ~SharesNumber(a), act[a].rq # 0
  PROVE  /\ \A n : FilledAt(a, n) => Executed(a) /\ act[a].moved = n
         /\ ForwardedAt(a) => Forwarded(a)
<1>1. \A c \in SameNumber(a) : c = a
  BY DEF SharesNumber, SameNumber
<1> QED BY <1>1 DEF FilledAt, ForwardedAt

LEMMA FilledIsForwarded ==
  ASSUME NEW a \in Actions, NEW n, FilledAt(a, n)
  PROVE  ForwardedAt(a)
BY DEF FilledAt, ForwardedAt, Executed, Forwarded

LEMMA ExecutedIsForwarded ==
  ASSUME OrdersInv, NEW c \in Actions
  PROVE  /\ Executed(c) => Forwarded(c)
         /\ Forwarded(c) => act[c].rq # 0 /\ act[c].rq <= lfr /\ act[c].rq \in Nat /\ lfr \in Nat
<1>1. PointFits(c) /\ NumberFits(c) /\ act[c] \in ActRecs /\ lfr \in Nat
  BY OrdersTypes DEF OrdersInv, OrderFits
<1>2. act[c].rq \in Nat
  BY <1>1, ActFields
<1> QED BY ONLY <1>1, <1>2 DEF PointFits, NumberFits, Executed, Forwarded

(* A step of one action, which leaves the others and their turns. *)
OthersStand(a) ==
  /\ UNCHANGED <<position, lfr>> /\ happened \subseteq happened'
  /\ \A b \in Actions \ {a} : /\ act'[b] = act[b] /\ inbox'[b] = inbox[b]
                              /\ act[b].pc \in {"signing", "waiting"} => Turn(b)'

(* Its number, if it had one, and what became of it on chain stay. *)
NumberStays(a) ==
  /\ act[a].rq # 0 => act'[a].rq = act[a].rq
  /\ Executed(a)' <=> Executed(a)
  /\ Forwarded(a)' <=> Forwarded(a)
  /\ act'[a].moved = act[a].moved /\ act'[a].trader = act[a].trader
  /\ act[a].result = "unknown" => act'[a].result = "unknown"

LEMMA OthersKeep ==
  ASSUME OrdersInv, OrdersTypeOK', NEW a \in Actions, OthersStand(a), NumberStays(a),
         OrderFits(a)', StillFits',
         \A b \in Actions \ {a} : PairFits(a, b)' /\ PairFits(b, a)'
  PROVE  OrdersInv'
<1>1. /\ lfr' = lfr /\ position' = position /\ happened \subseteq happened'
      /\ \A b \in Actions \ {a} : act'[b] = act[b] /\ inbox'[b] = inbox[b]
  BY DEF OthersStand
<1>2. /\ NumbersStay /\ \A c \in Actions : Executed(c)' => Executed(c)
      /\ \A c \in Actions : /\ act'[c].moved = act[c].moved /\ act'[c].trader = act[c].trader
                            /\ act[c].result = "unknown" => act'[c].result = "unknown"
                            /\ act[c].rq # 0 => act'[c].rq = act[c].rq
  <2> SUFFICES ASSUME NEW c \in Actions
               PROVE  /\ Executed(c)' <=> Executed(c)
                      /\ Forwarded(c)' <=> Forwarded(c)
                      /\ Forwarded(c) => act[c].rq # 0
                      /\ act'[c].moved = act[c].moved /\ act'[c].trader = act[c].trader
                      /\ act[c].result = "unknown" => act'[c].result = "unknown"
                      /\ act[c].rq # 0 => act'[c].rq = act[c].rq
    BY DEF NumbersStay
  <2>1. Forwarded(c) => act[c].rq # 0
    BY ExecutedIsForwarded
  <2>2. CASE c = a
    BY ONLY <2>1, <2>2, NumberStays(a) DEF NumberStays
  <2>3. CASE c # a
    BY ONLY <1>1, <2>1, <2>3 DEF Executed, Forwarded
  <2> QED BY <2>2, <2>3
<1>3. ASSUME NEW b \in Actions \ {a}
      PROVE  OrderFits(b)'
  <2>1. /\ act'[b] = act[b] /\ inbox'[b] = inbox[b] /\ OrderFits(b)
        /\ act[b].pc \in {"signing", "waiting"} => Turn(b)'
    BY DEF OrdersInv, OthersStand
  <2>2. /\ \A n : FilledAt(b, n) => FilledAt(b, n)'
        /\ ForwardedAt(b) => ForwardedAt(b)'
        /\ SharesNumber(b) => SharesNumber(b)'
    BY <1>2, NumbersGrow
  <2>3. PointFits(b)'
    BY ONLY <1>1, <2>1 DEF OrderFits, PointFits
  <2>4. NumberFits(b)'
    BY ONLY <1>1, <2>1 DEF OrderFits, NumberFits
  <2>5. HeardFits(b)'
    BY ONLY <1>1, <2>1, <2>2 DEF OrderFits, HeardFits, MessageFits
  <2>6. FailureFits(b)'
    BY ONLY <1>1, <2>1, <2>2 DEF OrderFits, FailureFits, FillIsComing
  <2>7. ToldOrderFits(b)'
    BY ONLY <1>1, <1>2, <2>1, <2>2 DEF OrderFits, ToldOrderFits, Executed
  <2>8. VanishedFits(b)'
    <3>1. CASE act[b].frame # "vanished"
      BY ONLY <2>1, <3>1 DEF VanishedFits
    <3>2. CASE act[b].frame = "vanished"
      <4>1. PICK c \in Actions \ {b} :
              /\ act[c].rq >= act[b].rq
              /\ act[c].trader # act[b].trader \/ "unknown" \in {act[b].result, act[c].result}
        BY <2>1, <3>2 DEF OrderFits, VanishedFits
      <4>2. act[b].rq > 0 /\ act[b].rq \in Nat /\ act[c].rq \in Nat
        BY <2>1, <3>2, OrdersTypes, ActFields DEF OrderFits, PointFits, OrdersInv
      <4>3. /\ act'[c].rq >= act'[b].rq
            /\ act'[c].trader # act'[b].trader \/ "unknown" \in {act'[b].result, act'[c].result}
        BY ONLY <1>2, <2>1, <4>1, <4>2
      <4> QED BY <4>3 DEF VanishedFits
    <3> QED BY <3>1, <3>2
  <2> QED BY <2>3, <2>4, <2>5, <2>6, <2>7, <2>8 DEF OrderFits
<1>4. \A b \in Actions : OrderFits(b)'
  BY <1>3
<1>5. ASSUME NEW b \in Actions, NEW c \in Actions, b # c
      PROVE  PairFits(b, c)'
  <2>1. CASE b # a /\ c # a
    <3>1. PairFits(b, c) /\ act'[b] = act[b] /\ act'[c] = act[c]
      BY <1>1, <1>5, <2>1 DEF OrdersInv
    <3> QED BY ONLY <3>1 DEF PairFits
  <2> QED BY <1>5, <2>1
<1>6. LastFits'
  <2>1. CASE lfr = 0
    BY <1>1, <2>1 DEF LastFits
  <2>2. CASE lfr # 0
    <3>1. PICK c \in Actions : Forwarded(c) /\ act[c].rq = lfr
      BY <2>2, OrdersTypes DEF OrdersInv, LastFits
    <3>2. Forwarded(c)' /\ act'[c].rq = lfr'
      BY <1>1, <1>2, <2>2, <3>1 DEF NumbersStay
    <3> QED BY <3>2 DEF LastFits
  <2> QED BY <2>1, <2>2
<1>7. ASSUME NEW b \in Actions, NEW c \in Actions, Executed(b)', Executed(c)', act'[b].rq = act'[c].rq
      PROVE  b = c
  <2>1. Executed(b) /\ Executed(c)
    BY <1>2, <1>7
  <2>2. act'[b].rq = act[b].rq /\ act'[c].rq = act[c].rq
    BY <1>2, <2>1, ExecutedIsForwarded
  <2> QED BY <1>7, <2>1, <2>2 DEF OrdersInv
<1> QED BY <1>4, <1>5, <1>6, <1>7 DEF OrdersInv

(* A step of the phone, or the gateway's answer: the number is as it was. *)
LEMMA PhoneKeeps ==
  ASSUME OrdersInv, OrdersTypeOK', NEW a \in Actions, OthersStand(a), NumberStays(a),
         act'[a].rq = act[a].rq, act'[a].pc = "waiting" => act[a].pc = "waiting",
         act[a].frame = "refused" => act'[a].frame = "refused",
         OrderFits(a)', StillFits'
  PROVE  OrdersInv'
<1>1. ASSUME NEW b \in Actions \ {a}
      PROVE  PairFits(a, b)' /\ PairFits(b, a)'
  <2>1. PairFits(a, b) /\ PairFits(b, a) /\ act'[b] = act[b]
    BY DEF OrdersInv, OthersStand
  <2> QED BY ONLY <2>1, act'[a].rq = act[a].rq, act'[a].pc = "waiting" => act[a].pc = "waiting",
                  act[a].frame = "refused" => act'[a].frame = "refused", NumberStays(a)
          DEF PairFits, NumberStays
<1> QED BY <1>1, OthersKeep

(* What the phones show of the position stays so, if what they show does and the
   action asks at what it asked at, or at what is shown. *)
LEMMA StillStays ==
  ASSUME OrdersInv, OrdersTypeOK', NEW a \in Actions, OthersStand(a), NumberStays(a), shown' = shown,
         act'[a].pc # "idle" => \/ act[a].pc # "idle" /\ act'[a].before = act[a].before
                                \/ act'[a].before = shown
  PROVE  StillFits'
<1>1. /\ position' = position /\ \A b \in Actions \ {a} : act'[b] = act[b]
      /\ act'[a].moved = act[a].moved /\ StillFits
  BY DEF OrdersInv, OthersStand, NumberStays
<1>2. CASE \E b \in Actions : act[b].moved # 0
  <2>1. PICK b \in Actions : act[b].moved # 0
    BY <1>2
  <2>2. act'[b].moved # 0
    BY <1>1, <2>1
  <2> QED BY <2>2 DEF StillFits
<1>3. CASE \A b \in Actions : act[b].moved = 0
  <2>1. shown = position /\ \A b \in Actions : act[b].pc # "idle" => act[b].before = position
    BY <1>1, <1>3 DEF StillFits
  <2>2. \A b \in Actions : act'[b].pc # "idle" => act'[b].before = position
    BY <1>1, <2>1
  <2> QED BY <1>1, <2>1, <2>2 DEF StillFits
<1> QED BY <1>2, <1>3

-------------------------------------------------------------------------------
(* The action at the head of its trader's turns leaves them: no other had a turn
   of that trader. *)
LEMMA LeavesKeepsTurns ==
  ASSUME OrdersInv, NEW a \in Actions, act[a].pc \in {"signing", "waiting"}, Leaves(a),
         \A b \in Actions \ {a} : act'[b] = act[b]
  PROVE  /\ turns' \in [Traders -> Seq(Actions)]
         /\ \A b \in Actions \ {a} : act[b].pc \in {"signing", "waiting"} => Turn(b)'
<1>1. /\ turns \in [Traders -> Seq(Actions)] /\ act \in [Actions -> ActRecs]
      /\ \A b \in Actions : act[b].trader \in Traders
  BY OrdersTypes, ActFields DEF OrdersInv
<1>2. \A b \in Actions : act[b].pc \in {"signing", "waiting"} => Turn(b)
  BY DEF OrdersInv, OrderFits, PointFits
<1>3. turns[act[a].trader] # <<>> /\ Head(turns[act[a].trader]) = a
  BY <1>2 DEF Turn
<1>4. Tail(turns[act[a].trader]) \in Seq(Actions)
  BY <1>1, <1>3, HeadAndTail
<1>5. turns' \in [Traders -> Seq(Actions)] /\ \A t \in Traders \ {act[a].trader} : turns'[t] = turns[t]
  BY <1>1, <1>4 DEF Leaves
<1>6. ASSUME NEW b \in Actions \ {a}, act[b].pc \in {"signing", "waiting"}
      PROVE  Turn(b)'
  <2>1. turns[act[b].trader] # <<>> /\ Head(turns[act[b].trader]) = b
    BY <1>2, <1>6 DEF Turn
  <2>2. act[b].trader \in Traders \ {act[a].trader}
    BY <1>1, <1>3, <2>1
  <2>3. turns'[act[b].trader] = turns[act[b].trader] /\ act'[b] = act[b]
    BY <1>5, <2>2
  <2> QED BY ONLY <2>1, <2>3 DEF Turn
<1> QED BY <1>5, <1>6

(* What an action that has its turn is. *)
LEMMA AtTurn ==
  ASSUME OrdersInv, NEW a \in Actions
  PROVE  /\ act \in [Actions -> ActRecs] /\ act[a] \in ActRecs /\ inbox[a] \in Seq(Messages)
         /\ inbox \in [Actions -> Seq(Messages)]
         /\ OrderFits(a) /\ act[a].rq \in Nat /\ act[a].size \in Nat /\ act[a].moved \in Nat
         /\ act[a].filled \in Nat /\ act[a].kind \in OrderKinds /\ position \in Nat /\ lfr \in Nat
         /\ OrdersTypeOK /\ MaxSize \in Nat
BY OrdersTypes, ActFields, OrdersAssumption DEF OrdersInv

(* The end of an action, with what justifies its result. *)
LEMMA EndsKeeps ==
  ASSUME OrdersInv, NEW a \in Actions, act[a].pc \in {"signing", "waiting"},
         NEW result \in {"order", "rejected", "unknown", "noposition"}, NEW filled \in 0..MaxSize,
         Ends(a, result, filled), UNCHANGED <<position, shown, lfr>>,
         (\E kind \in Faults : Trouble(kind)) \/ Calm,
         result = "order" => act[a].rq > 0 /\ FilledAt(a, filled),
         result # "order" => filled = 0,
         result = "rejected" =>
           /\ act[a].rq > 0
           /\ ~SharesNumber(a) => act[a].frame \in {"refused", "failed"} \/ "late" \in happened',
         result = "noposition" => act[a].emptied,
         result # "unknown" => ForwardedAt(a) \/ act[a].frame = "refused"
  PROVE  OrdersInv'
<1> DEFINE said == CASE result = "noposition"                          -> "already-closed"
                     [] act[a].kind = "open" /\ result = "rejected"    -> "failed"
                     [] act[a].kind = "open" /\ result = "order"       -> "done"
                     [] OTHER                                          -> "nothing"
           pc == IF said = "nothing" THEN "reading" ELSE "told"
<1>1. /\ said \in Told /\ said \in {"already-closed", "failed", "done", "nothing"}
      /\ said = "already-closed" => result = "noposition"
      /\ said = "failed" => result = "rejected"
      /\ said = "done" => result = "order"
  BY DEF Told
<1>2. /\ act' = [act EXCEPT ![a].pc = pc, ![a].result = result, ![a].filled = filled, ![a].told = said]
      /\ inbox' = [inbox EXCEPT ![a] = <<>>] /\ Leaves(a)
  BY DEF Ends
<1>3. pc \in {"reading", "told"} /\ (pc = "told" => said # "nothing")
  OBVIOUS
<1> HIDE DEF said, pc
<1>4. /\ act \in [Actions -> ActRecs] /\ act[a] \in ActRecs /\ inbox \in [Actions -> Seq(Messages)]
      /\ OrderFits(a) /\ OrdersTypeOK /\ act[a].rq \in Nat
  BY AtTurn
<1>5. PICK q : q = [act[a] EXCEPT !.pc = pc, !.result = result, !.filled = filled, !.told = said]
  OBVIOUS
<1>6. q \in ActRecs
  BY ONLY <1>1, <1>3, <1>4, <1>5, result \in {"order", "rejected", "unknown", "noposition"}, filled \in 0..MaxSize
     DEF ActRecs, OrderPcs, OrderResults
<1>7. /\ q.pc = pc /\ q.result = result /\ q.filled = filled /\ q.told = said
      /\ q.kind = act[a].kind /\ q.trader = act[a].trader /\ q.before = act[a].before
      /\ q.size = act[a].size /\ q.rq = act[a].rq /\ q.frame = act[a].frame
      /\ q.moved = act[a].moved /\ q.failing = act[a].failing /\ q.none = act[a].none
      /\ q.settled = act[a].settled /\ q.reads = act[a].reads /\ q.emptied = act[a].emptied
  BY ONLY <1>4, <1>5 DEF ActRecs
<1>8. act' = [act EXCEPT ![a] = q]
  BY ONLY <1>2, <1>4, <1>5
<1>9. /\ act' \in [Actions -> ActRecs] /\ act'[a] = q
      /\ \A b \in Actions \ {a} : act'[b] = act[b]
      /\ inbox' \in [Actions -> Seq(Messages)] /\ inbox'[a] = <<>>
      /\ \A b \in Actions \ {a} : inbox'[b] = inbox[b]
  <2>1. <<>> \in Seq(Messages)
    OBVIOUS
  <2>2. /\ act' \in [Actions -> ActRecs] /\ act'[a] = q
        /\ \A b \in Actions \ {a} : act'[b] = act[b]
    BY ONLY <1>4, <1>6, <1>8, a \in Actions
  <2>3. inbox' = [inbox EXCEPT ![a] = <<>>]
    BY <1>2
  <2>4. /\ inbox' \in [Actions -> Seq(Messages)] /\ inbox'[a] = <<>>
        /\ \A b \in Actions \ {a} : inbox'[b] = inbox[b]
    BY ONLY <1>4, <2>1, <2>3, a \in Actions
  <2> QED BY <2>2, <2>4
<1>10. /\ turns' \in [Traders -> Seq(Actions)]
       /\ \A b \in Actions \ {a} : act[b].pc \in {"signing", "waiting"} => Turn(b)'
  BY <1>2, <1>9, LeavesKeepsTurns
<1>11. happened' \subseteq Faults /\ troubles' \in 0..MaxTroubles /\ happened \subseteq happened'
  BY <1>4, TroublesAreCounted
<1>12. OrdersTypeOK'
  BY <1>4, <1>9, <1>10, <1>11, OrdersTypes, OrdersTypesNext
<1>13. OthersStand(a)
  BY <1>9, <1>10, <1>11 DEF OthersStand
<1>14. act[a].result = "none" /\ act[a].reads = 0
  BY <1>4 DEF OrderFits, PointFits
<1>15. NumberStays(a)
  BY ONLY <1>7, <1>9, <1>14 DEF NumberStays, Executed, Forwarded
<1>16. \A b \in Actions : act'[b].rq = act[b].rq /\ act'[b].moved = act[b].moved /\ act'[b].frame = act[b].frame
  BY <1>7, <1>9
<1>17. /\ \A n : FilledAt(a, n) => FilledAt(a, n)'
       /\ ForwardedAt(a) => ForwardedAt(a)'
       /\ SharesNumber(a)' <=> SharesNumber(a)
  BY ONLY <1>16 DEF FilledAt, ForwardedAt, SharesNumber, SameNumber, Executed, Forwarded
<1>18. PointFits(a)'
  <2>1. /\ (act'[a].frame # "none" <=> act'[a].rq > 0) /\ (act'[a].frame # "executed" => act'[a].moved = 0)
        /\ (position' = 0 => act'[a].emptied) /\ act'[a].moved <= act'[a].size
    BY <1>4, <1>7, <1>9 DEF OrderFits, PointFits
  <2>2. act'[a].pc \in {"reading", "told"} /\ act'[a].result # "none" /\ act'[a].reads = 0 /\ inbox'[a] = <<>>
    BY <1>3, <1>7, <1>9, <1>14
  <2>3. act'[a].result \in {"order", "rejected"} => act'[a].rq > 0
    BY <1>7, <1>9
  <2>4. MaxReads > 0
    BY OrdersAssumption
  <2> QED BY ONLY <2>1, <2>2, <2>3, <2>4 DEF PointFits
<1>19. NumberFits(a)'
  <2>1. NumberFits(a)
    BY <1>4 DEF OrderFits
  <2> QED BY ONLY <1>7, <1>9, <2>1, UNCHANGED <<position, shown, lfr>> DEF NumberFits
<1>20. HeardFits(a)'
  <2>1. act[a].none => act[a].emptied
    BY <1>4 DEF OrderFits, HeardFits
  <2>2. /\ act'[a].result = "order" => FilledAt(a, act[a].filled)' /\ act'[a].rq > 0
        /\ act'[a].result # "order" => act'[a].filled = 0
        /\ act'[a].result = "noposition" => act'[a].emptied
        /\ act'[a].result # "unknown" => ForwardedAt(a)' \/ act'[a].frame = "refused"
    <3>1. result = "order" => FilledAt(a, filled)'
      BY <1>17
    <3>2. act'[a].result = result /\ act'[a].filled = filled
      BY <1>7, <1>9
    <3>3. result = "order" => FilledAt(a, act[a].filled)'
      BY ONLY <3>1, <3>2 DEF FilledAt
    <3> QED BY <1>7, <1>9, <1>17, <3>2, <3>3
  <2>3. act'[a].pc # "waiting" /\ inbox'[a] = <<>> /\ (act'[a].none => act'[a].emptied)
    BY <1>3, <1>7, <1>9, <2>1
  <2> QED BY ONLY <2>2, <2>3 DEF HeardFits
<1>21. FailureFits(a)'
  <2>1. /\ act'[a].pc # "waiting" /\ inbox'[a] = <<>>
        /\ act'[a].result = "rejected" /\ ~SharesNumber(a)' =>
             act'[a].frame \in {"refused", "failed"} \/ "late" \in happened'
    BY <1>3, <1>7, <1>9, <1>17
  <2> QED BY ONLY <2>1 DEF FailureFits
<1>22. ToldOrderFits(a)'
  <2>1. act'[a].told = "already-closed" => act'[a].emptied
    BY <1>1, <1>7, <1>9
  <2>2. act'[a].told = "failed" /\ ~SharesNumber(a)' =>
          act'[a].frame \in {"refused", "failed"} \/ "late" \in happened'
    BY <1>1, <1>7, <1>9, <1>17
  <2>3. act'[a].told = "done" /\ ~SharesNumber(a)' => Executed(a)' /\ act'[a].moved = act'[a].filled
    <3>1. SUFFICES ASSUME said = "done", ~SharesNumber(a)
                   PROVE  Executed(a) /\ act[a].moved = filled
      BY <1>7, <1>9, <1>15, <1>17 DEF NumberStays
    <3>2. act[a].rq # 0 /\ FilledAt(a, filled)
      BY <1>1, <1>4, <3>1
    <3> QED BY <3>1, <3>2, Unshared
  <2>4. act'[a].told \in {"already-closed", "failed", "done", "nothing"}
    BY <1>1, <1>7, <1>9
  <2> QED BY ONLY <2>1, <2>2, <2>3, <2>4 DEF ToldOrderFits
<1>23. VanishedFits(a)'
  <2>1. CASE act[a].frame # "vanished"
    BY <1>7, <1>9, <2>1 DEF VanishedFits
  <2>2. CASE act[a].frame = "vanished"
    <3>1. PICK c \in Actions \ {a} :
            /\ act[c].rq >= act[a].rq
            /\ act[c].trader # act[a].trader \/ "unknown" \in {act[a].result, act[c].result}
      BY <1>4, <2>2 DEF OrderFits, VanishedFits
    <3>2. act'[c] = act[c] /\ act'[a].rq = act[a].rq /\ act'[a].trader = act[a].trader
          /\ (act[a].result # "unknown")
      BY <1>7, <1>9, <1>14
    <3> QED BY ONLY <3>1, <3>2 DEF VanishedFits
  <2> QED BY <2>1, <2>2
<1>24. OrderFits(a)'
  BY <1>18, <1>19, <1>20, <1>21, <1>22, <1>23 DEF OrderFits
<1>25. StillFits'
  <2>1. act[a].pc # "idle" /\ act'[a].before = act[a].before /\ shown' = shown
    BY <1>7, <1>9
  <2> QED BY <1>12, <1>13, <1>15, <2>1, StillStays
<1>26. /\ act'[a].rq = act[a].rq /\ act'[a].pc # "waiting"
       /\ act[a].frame = "refused" => act'[a].frame = "refused"
  BY <1>3, <1>7, <1>9
<1> QED BY <1>12, <1>13, <1>15, <1>24, <1>25, <1>26, PhoneKeeps

(* An outcome that is lost needs nothing. *)
LEMMA LostKeeps ==
  ASSUME OrdersInv, NEW a \in Actions, act[a].pc \in {"signing", "waiting"},
         Ends(a, "unknown", 0), UNCHANGED <<position, shown, lfr>>,
         (\E kind \in Faults : Trouble(kind)) \/ Calm
  PROVE  OrdersInv'
<1>1. 0 \in 0..MaxSize
  BY OrdersAssumption
<1> DEFINE result == "unknown"
           filled == 0
<1>2. /\ result \in {"order", "rejected", "unknown", "noposition"} /\ filled \in 0..MaxSize
      /\ result # "order" /\ result # "rejected" /\ result # "noposition" /\ ~(result # "unknown")
      /\ filled = 0 /\ Ends(a, result, filled)
  BY <1>1
<1> HIDE DEF result, filled
<1> QED BY <1>2, EndsKeeps

LEMMA DropsKeeps ==
  ASSUME OrdersInv, NEW a \in Actions, Drops(a)
  PROVE  OrdersInv'
BY LostKeeps DEF Drops, Trouble

LEMMA OutcomeTimesOutKeeps ==
  ASSUME OrdersInv, NEW a \in Actions, OutcomeTimesOut(a)
  PROVE  OrdersInv'
BY LostKeeps DEF OutcomeTimesOut, Trouble

(* A failure that nothing contradicted within the grace is one, or the fill that is
   on its way comes late. *)
LEMMA GraceEndsKeeps ==
  ASSUME OrdersInv, NEW a \in Actions, GraceEnds(a)
  PROVE  OrdersInv'
<1> DEFINE result == IF act[a].none THEN "noposition" ELSE "rejected"
<1>1. /\ act[a].pc = "waiting" /\ act[a].failing /\ UNCHANGED <<position, shown, lfr>>
      /\ (\E kind \in Faults : Trouble(kind)) \/ Calm
      /\ inbox[a] # <<>> => "late" \in happened'
      /\ Ends(a, result, 0) /\ 0 \in 0..MaxSize
  BY OrdersAssumption DEF GraceEnds, Trouble
<1>2. result \in {"rejected", "noposition"} /\ (result = "noposition" => act[a].none)
  OBVIOUS
<1> HIDE DEF result
<1>3. OrderFits(a)
  BY AtTurn
<1>4. act[a].rq > 0 /\ ForwardedAt(a) /\ (act[a].none => act[a].emptied)
  BY ONLY <1>1, <1>3 DEF OrderFits, PointFits, HeardFits
<1>5. ~SharesNumber(a) => act[a].frame \in {"refused", "failed"} \/ "late" \in happened'
  BY ONLY <1>1, <1>3 DEF OrderFits, FailureFits, FillIsComing
<1>6. result \in {"order", "rejected", "unknown", "noposition"} /\ act[a].pc \in {"signing", "waiting"}
  BY <1>1, <1>2
<1> QED BY <1>1, <1>2, <1>4, <1>5, <1>6, EndsKeeps

LEMMA RefreshesKeeps ==
  ASSUME OrdersInv, Refreshes
  PROVE  OrdersInv'
<1>1. /\ shown' = position /\ position' = position /\ lfr' = lfr /\ turns' = turns /\ act' = act
      /\ inbox' = inbox /\ happened' = happened /\ troubles' = troubles
  BY DEF Refreshes
<1>2. OrdersTypeOK'
  BY <1>1, OrdersTypes, OrdersTypesNext DEF OrdersInv
<1>3. ASSUME NEW a \in Actions
      PROVE  OrderFits(a)'
  <2>1. OrderFits(a)
    BY DEF OrdersInv
  <2>2. PointFits(a)' /\ NumberFits(a)'
    BY ONLY <1>1, <2>1 DEF OrderFits, PointFits, NumberFits, Turn
  <2>3. HeardFits(a)' /\ FailureFits(a)'
    BY ONLY <1>1, <2>1 DEF OrderFits, HeardFits, FailureFits, MessageFits, FilledAt, ForwardedAt,
                           SameNumber, Executed, Forwarded, FillIsComing, SharesNumber
  <2>4. ToldOrderFits(a)' /\ VanishedFits(a)'
    BY ONLY <1>1, <2>1 DEF OrderFits, ToldOrderFits, VanishedFits, Executed, SharesNumber
  <2> QED BY <2>2, <2>3, <2>4 DEF OrderFits
<1>4. StillFits'
  BY <1>1 DEF OrdersInv, StillFits
<1>5. LastFits'
  BY <1>1 DEF OrdersInv, LastFits, Forwarded
<1>6. \A a, b \in Actions : a # b => PairFits(a, b)'
  BY <1>1 DEF OrdersInv, PairFits
<1>7. \A a, b \in Actions : Executed(a)' /\ Executed(b)' /\ act'[a].rq = act'[b].rq => a = b
  BY <1>1 DEF OrdersInv, Executed
<1> QED BY <1>2, <1>3, <1>4, <1>5, <1>6, <1>7 DEF OrdersInv

(* A step that changes one action's record before its order goes out. *)
LEMMA AsksKeeps ==
  ASSUME OrdersInv, NEW a \in Actions, Asks(a)
  PROVE  OrdersInv'
<1>1. /\ act[a].pc = "idle" /\ inbox' = inbox
      /\ act' = [act EXCEPT ![a].pc = "queued", ![a].before = shown, ![a].emptied = position = 0]
      /\ turns' = [turns EXCEPT ![act[a].trader] = Append(turns[act[a].trader], a)]
      /\ UNCHANGED <<position, shown, lfr, happened, troubles>>
  BY DEF Asks
<1>2. /\ act \in [Actions -> ActRecs] /\ act[a] \in ActRecs /\ inbox \in [Actions -> Seq(Messages)]
      /\ OrderFits(a) /\ OrdersTypeOK /\ act[a].rq \in Nat /\ position \in Nat
  BY AtTurn
<1>3. shown \in 0..MaxSize /\ turns \in [Traders -> Seq(Actions)] /\ act[a].trader \in Traders
      /\ \A b \in Actions : act[b].trader \in Traders
  BY <1>2, OrdersTypes, ActFields
<1>4. PICK q : q = [act[a] EXCEPT !.pc = "queued", !.before = shown, !.emptied = (position = 0)]
  OBVIOUS
<1>5. q \in ActRecs
  BY ONLY <1>2, <1>3, <1>4 DEF ActRecs, OrderPcs
<1>6. /\ q.pc = "queued" /\ q.before = shown /\ (q.emptied <=> position = 0) /\ q.result = act[a].result
      /\ q.kind = act[a].kind /\ q.trader = act[a].trader /\ q.filled = act[a].filled
      /\ q.size = act[a].size /\ q.rq = act[a].rq /\ q.frame = act[a].frame /\ q.told = act[a].told
      /\ q.moved = act[a].moved /\ q.failing = act[a].failing /\ q.none = act[a].none
      /\ q.settled = act[a].settled /\ q.reads = act[a].reads
  BY ONLY <1>2, <1>4 DEF ActRecs
<1>7. act' = [act EXCEPT ![a] = q]
  BY ONLY <1>1, <1>2, <1>4
<1>8. act' \in [Actions -> ActRecs] /\ act'[a] = q /\ \A b \in Actions \ {a} : act'[b] = act[b]
  BY ONLY <1>2, <1>5, <1>7, a \in Actions
<1>9. Append(turns[act[a].trader], a) \in Seq(Actions)
  BY ONLY <1>3, a \in Actions, AppendKeepsHead
<1>10. /\ turns' \in [Traders -> Seq(Actions)]
       /\ \A t \in Traders : t # act[a].trader => turns'[t] = turns[t]
       /\ turns'[act[a].trader] = Append(turns[act[a].trader], a)
  BY ONLY <1>1, <1>3, <1>9
<1>11. ASSUME NEW b \in Actions \ {a}, act[b].pc \in {"signing", "waiting"}
       PROVE  Turn(b)'
  <2>1. turns[act[b].trader] # <<>> /\ Head(turns[act[b].trader]) = b
    BY <1>11 DEF OrdersInv, OrderFits, PointFits, Turn
  <2>2. turns'[act[b].trader] # <<>> /\ Head(turns'[act[b].trader]) = b
    <3>1. CASE act[b].trader = act[a].trader
      <4>1. turns[act[a].trader] \in Seq(Actions)
        BY <1>3
      <4> QED BY <1>10, <2>1, <3>1, <4>1, AppendKeepsHead
    <3>2. CASE act[b].trader # act[a].trader
      BY <1>3, <1>10, <2>1, <3>2
    <3> QED BY <3>1, <3>2
  <2> QED BY <1>8, <2>2 DEF Turn
<1>12. OrdersTypeOK'
  BY <1>1, <1>2, <1>8, <1>10, OrdersTypes, OrdersTypesNext
<1>13. OthersStand(a)
  BY <1>1, <1>8, <1>11 DEF OthersStand
<1>14. /\ act[a].rq = 0 /\ act[a].frame = "none" /\ act[a].result = "none" /\ inbox[a] = <<>>
       /\ ~act[a].failing /\ ~act[a].settled /\ ~act[a].none /\ act[a].reads = 0 /\ act[a].moved = 0
       /\ act[a].filled = 0 /\ act[a].moved <= act[a].size
  BY ONLY <1>1, <1>2 DEF OrderFits, PointFits, HeardFits
<1>15. NumberStays(a)
  BY ONLY <1>6, <1>8 DEF NumberStays, Executed, Forwarded
<1>16. PointFits(a)'
  <2>1. /\ act'[a].pc = "queued" /\ (position' = 0 => act'[a].emptied) /\ act'[a].reads = 0
        /\ act'[a].rq = 0 /\ act'[a].frame = "none" /\ act'[a].result = "none" /\ inbox'[a] = <<>>
        /\ ~act'[a].failing /\ ~act'[a].settled /\ ~act'[a].none /\ act'[a].moved = 0
        /\ act'[a].moved <= act'[a].size
    BY <1>1, <1>6, <1>8, <1>14
  <2> QED BY ONLY <2>1 DEF PointFits
<1>17. NumberFits(a)' /\ HeardFits(a)' /\ FailureFits(a)' /\ ToldOrderFits(a)' /\ VanishedFits(a)'
  <2>1. act'[a].rq = 0 /\ lfr' = lfr /\ lfr \in Nat
    BY <1>1, <1>2, <1>6, <1>8, <1>14, OrdersTypes
  <2>2. /\ act'[a].frame = "none" /\ act'[a].result = "none" /\ inbox'[a] = <<>> /\ act'[a].filled = 0
        /\ act'[a].pc = "queued" /\ ~act'[a].none
    BY <1>1, <1>6, <1>8, <1>14
  <2> QED BY ONLY <2>1, <2>2
          DEF NumberFits, HeardFits, FailureFits, ToldOrderFits, VanishedFits
<1>18. StillFits'
  BY <1>1, <1>6, <1>8, <1>12, <1>13, <1>15, StillStays
<1>19. act'[a].rq = act[a].rq /\ act'[a].pc # "waiting" /\ act[a].frame # "refused"
  BY <1>6, <1>8, <1>14
<1> QED BY <1>12, <1>13, <1>15, <1>16, <1>17, <1>18, <1>19, PhoneKeeps DEF OrderFits

LEMMA ConnectsKeeps ==
  ASSUME OrdersInv, NEW a \in Actions, Connects(a)
  PROVE  OrdersInv'
<1>1. /\ act[a].pc = "queued" /\ inbox' = inbox /\ Turn(a)
      /\ act' = [act EXCEPT ![a].pc = "signing"]
      /\ UNCHANGED <<position, shown, lfr, turns, happened, troubles>>
  BY DEF Connects
<1>2. /\ act \in [Actions -> ActRecs] /\ act[a] \in ActRecs /\ inbox \in [Actions -> Seq(Messages)]
      /\ OrderFits(a) /\ OrdersTypeOK
  BY AtTurn
<1>3. PICK q : q = [act[a] EXCEPT !.pc = "signing"]
  OBVIOUS
<1>4. q \in ActRecs
  BY ONLY <1>2, <1>3 DEF ActRecs, OrderPcs
<1>5. /\ q.pc = "signing" /\ q.before = act[a].before /\ q.emptied = act[a].emptied
      /\ q.result = act[a].result
      /\ q.kind = act[a].kind /\ q.trader = act[a].trader /\ q.filled = act[a].filled
      /\ q.size = act[a].size /\ q.rq = act[a].rq /\ q.frame = act[a].frame /\ q.told = act[a].told
      /\ q.moved = act[a].moved /\ q.failing = act[a].failing /\ q.none = act[a].none
      /\ q.settled = act[a].settled /\ q.reads = act[a].reads
  BY ONLY <1>2, <1>3 DEF ActRecs
<1>6. act' = [act EXCEPT ![a] = q]
  BY ONLY <1>1, <1>2, <1>3
<1>7. act' \in [Actions -> ActRecs] /\ act'[a] = q /\ \A b \in Actions \ {a} : act'[b] = act[b]
  BY ONLY <1>2, <1>4, <1>6, a \in Actions
<1>8. OrdersTypeOK'
  BY <1>1, <1>2, <1>7, OrdersTypes, OrdersTypesNext
<1>9. ASSUME NEW b \in Actions, Turn(b)
      PROVE  Turn(b)'
  <2>1. act'[b].trader = act[b].trader
    BY <1>5, <1>7
  <2> QED BY ONLY <1>1, <1>9, <2>1 DEF Turn
<1>10. OthersStand(a)
  <2>1. \A b \in Actions : act[b].pc \in {"signing", "waiting"} => Turn(b)
    BY DEF OrdersInv, OrderFits, PointFits
  <2> QED BY <1>1, <1>7, <1>9, <2>1 DEF OthersStand
<1>11. /\ act[a].rq = 0 /\ act[a].frame = "none" /\ act[a].result = "none" /\ inbox[a] = <<>>
       /\ ~act[a].failing /\ ~act[a].settled /\ ~act[a].none /\ act[a].reads = 0 /\ act[a].moved = 0
       /\ act[a].filled = 0 /\ act[a].moved <= act[a].size /\ (position = 0 => act[a].emptied)
  BY ONLY <1>1, <1>2 DEF OrderFits, PointFits, HeardFits
<1>12. NumberStays(a)
  BY ONLY <1>5, <1>7 DEF NumberStays, Executed, Forwarded
<1>13. PointFits(a)'
  <2>1. Turn(a)'
    BY <1>1, <1>9
  <2>2. /\ act'[a].pc = "signing" /\ (position' = 0 => act'[a].emptied) /\ act'[a].reads = 0
        /\ act'[a].rq = 0 /\ act'[a].frame = "none" /\ act'[a].result = "none" /\ inbox'[a] = <<>>
        /\ ~act'[a].failing /\ ~act'[a].settled /\ ~act'[a].none /\ act'[a].moved = 0
        /\ act'[a].moved <= act'[a].size
    BY <1>1, <1>5, <1>7, <1>11
  <2> QED BY ONLY <2>1, <2>2 DEF PointFits
<1>14. NumberFits(a)' /\ HeardFits(a)' /\ FailureFits(a)' /\ ToldOrderFits(a)' /\ VanishedFits(a)'
  <2>1. act'[a].rq = 0 /\ lfr' = lfr /\ lfr \in Nat
    BY <1>1, <1>2, <1>5, <1>7, <1>11, OrdersTypes
  <2>2. /\ act'[a].frame = "none" /\ act'[a].result = "none" /\ inbox'[a] = <<>> /\ act'[a].filled = 0
        /\ act'[a].pc = "signing" /\ ~act'[a].none
    BY <1>1, <1>5, <1>7, <1>11
  <2> QED BY ONLY <2>1, <2>2
          DEF NumberFits, HeardFits, FailureFits, ToldOrderFits, VanishedFits
<1>15. StillFits'
  BY <1>1, <1>5, <1>7, <1>8, <1>10, <1>12, StillStays
<1>16. act'[a].rq = act[a].rq /\ act'[a].pc # "waiting" /\ act[a].frame # "refused"
  BY <1>5, <1>7, <1>11
<1> QED BY <1>8, <1>10, <1>12, <1>13, <1>14, <1>15, <1>16, PhoneKeeps DEF OrderFits

(* A close that finds no position goes nowhere. *)
LEMMA SignsInIdle ==
  ASSUME OrdersInv, NEW a \in Actions, SignsIn(a), act[a].kind = "close", position = 0
  PROVE  OrdersInv'
<1>1. /\ act[a].pc = "signing" /\ inbox' = inbox /\ Leaves(a)
      /\ act' = [act EXCEPT ![a].pc = "told", ![a].result = "noposition", ![a].told = "already-closed"]
      /\ UNCHANGED <<position, shown, lfr, happened, troubles>>
  BY DEF SignsIn
<1>2. /\ act \in [Actions -> ActRecs] /\ act[a] \in ActRecs /\ inbox \in [Actions -> Seq(Messages)]
      /\ OrderFits(a) /\ OrdersTypeOK
  BY AtTurn
<1>3. PICK q : q = [act[a] EXCEPT !.pc = "told", !.result = "noposition", !.told = "already-closed"]
  OBVIOUS
<1>4. q \in ActRecs
  BY ONLY <1>2, <1>3 DEF ActRecs, OrderPcs, OrderResults, Told
<1>5. /\ q.pc = "told" /\ q.before = act[a].before /\ q.emptied = act[a].emptied
      /\ q.result = "noposition"
      /\ q.kind = act[a].kind /\ q.trader = act[a].trader /\ q.filled = act[a].filled
      /\ q.size = act[a].size /\ q.rq = act[a].rq /\ q.frame = act[a].frame /\ q.told = "already-closed"
      /\ q.moved = act[a].moved /\ q.failing = act[a].failing /\ q.none = act[a].none
      /\ q.settled = act[a].settled /\ q.reads = act[a].reads
  BY ONLY <1>2, <1>3 DEF ActRecs
<1>6. act' = [act EXCEPT ![a] = q]
  BY ONLY <1>1, <1>2, <1>3
<1>7. act' \in [Actions -> ActRecs] /\ act'[a] = q /\ \A b \in Actions \ {a} : act'[b] = act[b]
  BY ONLY <1>2, <1>4, <1>6, a \in Actions
<1>8. /\ turns' \in [Traders -> Seq(Actions)]
      /\ \A b \in Actions \ {a} : act[b].pc \in {"signing", "waiting"} => Turn(b)'
  BY <1>1, <1>7, LeavesKeepsTurns
<1>9. OrdersTypeOK'
  BY <1>1, <1>2, <1>7, <1>8, OrdersTypes, OrdersTypesNext
<1>10. OthersStand(a)
  BY <1>1, <1>7, <1>8 DEF OthersStand
<1>11. /\ act[a].rq = 0 /\ act[a].frame = "none" /\ act[a].result = "none" /\ inbox[a] = <<>>
       /\ ~act[a].failing /\ ~act[a].settled /\ ~act[a].none /\ act[a].reads = 0 /\ act[a].moved = 0
       /\ act[a].filled = 0 /\ act[a].moved <= act[a].size /\ act[a].emptied
  BY ONLY <1>1, <1>2, position = 0 DEF OrderFits, PointFits, HeardFits
<1>12. NumberStays(a)
  BY ONLY <1>5, <1>7, <1>11 DEF NumberStays, Executed, Forwarded
<1>13. /\ act'[a].pc = "told" /\ act'[a].emptied /\ act'[a].reads = 0 /\ act'[a].rq = 0
       /\ act'[a].frame = "none" /\ act'[a].result = "noposition" /\ inbox'[a] = <<>>
       /\ act'[a].moved = 0 /\ act'[a].filled = 0 /\ act'[a].told = "already-closed"
       /\ act'[a].moved <= act'[a].size
  BY <1>1, <1>5, <1>7, <1>11
<1>14. PointFits(a)'
  BY ONLY <1>13 DEF PointFits
<1>15. NumberFits(a)' /\ HeardFits(a)' /\ FailureFits(a)' /\ ToldOrderFits(a)' /\ VanishedFits(a)'
  <2>1. lfr' = lfr /\ lfr \in Nat
    BY <1>1, <1>2, OrdersTypes
  <2> QED BY ONLY <1>13, <2>1
          DEF NumberFits, HeardFits, FailureFits, ToldOrderFits, VanishedFits
<1>16. StillFits'
  BY <1>1, <1>5, <1>7, <1>9, <1>10, <1>12, StillStays
<1>17. act'[a].rq = act[a].rq /\ act'[a].pc # "waiting" /\ act[a].frame # "refused"
  BY <1>11, <1>13
<1> QED BY <1>9, <1>10, <1>12, <1>14, <1>15, <1>16, <1>17, PhoneKeeps DEF OrderFits

(* An order takes the number after the last one forwarded.  Where another of the
   trader's has it, that one was refused or its outcome was lost. *)
LEMMA SignsInOrders ==
  ASSUME OrdersInv, NEW a \in Actions, SignsIn(a), ~(act[a].kind = "close" /\ position = 0)
  PROVE  OrdersInv'
<1> DEFINE size == IF act[a].kind = "close" THEN position ELSE 1
           number == lfr + 1
<1>1. /\ act[a].pc = "signing" /\ inbox' = inbox
      /\ act' = [act EXCEPT ![a].pc = "waiting", ![a].frame = "sent", ![a].rq = number, ![a].size = size]
      /\ UNCHANGED <<position, shown, lfr, turns, happened, troubles>>
  BY DEF SignsIn, NumberFor
<1>2. /\ act \in [Actions -> ActRecs] /\ act[a] \in ActRecs /\ inbox \in [Actions -> Seq(Messages)]
      /\ OrderFits(a) /\ OrdersTypeOK /\ lfr \in Nat
  BY AtTurn
<1>3. size \in 0..MaxSize /\ number \in Nat /\ number = lfr + 1
  BY <1>2, OrdersTypes, OrdersAssumption
<1> HIDE DEF size, number
<1>4. PICK q : q = [act[a] EXCEPT !.pc = "waiting", !.frame = "sent", !.rq = number, !.size = size]
  OBVIOUS
<1>5. q \in ActRecs
  BY ONLY <1>2, <1>3, <1>4 DEF ActRecs, OrderPcs, Frames
<1>6. /\ q.pc = "waiting" /\ q.before = act[a].before /\ q.emptied = act[a].emptied
      /\ q.result = act[a].result
      /\ q.kind = act[a].kind /\ q.trader = act[a].trader /\ q.filled = act[a].filled
      /\ q.size = size /\ q.rq = number /\ q.frame = "sent" /\ q.told = act[a].told
      /\ q.moved = act[a].moved /\ q.failing = act[a].failing /\ q.none = act[a].none
      /\ q.settled = act[a].settled /\ q.reads = act[a].reads
  BY ONLY <1>2, <1>4 DEF ActRecs
<1>7. act' = [act EXCEPT ![a] = q]
  BY ONLY <1>1, <1>2, <1>4
<1>8. act' \in [Actions -> ActRecs] /\ act'[a] = q /\ \A b \in Actions \ {a} : act'[b] = act[b]
  BY ONLY <1>2, <1>5, <1>7, a \in Actions
<1>9. OrdersTypeOK'
  BY <1>1, <1>2, <1>8, OrdersTypes, OrdersTypesNext
<1>10. ASSUME NEW b \in Actions, Turn(b)
       PROVE  Turn(b)'
  <2>1. act'[b].trader = act[b].trader
    BY <1>6, <1>8
  <2> QED BY ONLY <1>1, <1>10, <2>1 DEF Turn
<1>11. \A b \in Actions : act[b].pc \in {"signing", "waiting"} => Turn(b)
  BY DEF OrdersInv, OrderFits, PointFits
<1>12. OthersStand(a)
  BY <1>1, <1>8, <1>10, <1>11 DEF OthersStand
<1>13. /\ act[a].rq = 0 /\ act[a].frame = "none" /\ act[a].result = "none" /\ inbox[a] = <<>>
       /\ ~act[a].failing /\ ~act[a].settled /\ ~act[a].none /\ act[a].reads = 0 /\ act[a].moved = 0
       /\ act[a].filled = 0 /\ (position = 0 => act[a].emptied)
  BY ONLY <1>1, <1>2 DEF OrderFits, PointFits, HeardFits
<1>14. NumberStays(a)
  BY ONLY <1>6, <1>8, <1>13 DEF NumberStays, Executed, Forwarded
<1>15. /\ act'[a].pc = "waiting" /\ act'[a].reads = 0 /\ act'[a].rq = lfr + 1
       /\ act'[a].frame = "sent" /\ act'[a].result = "none" /\ inbox'[a] = <<>>
       /\ act'[a].moved = 0 /\ act'[a].filled = 0 /\ act'[a].moved <= act'[a].size
       /\ ~act'[a].failing /\ ~act'[a].settled /\ ~act'[a].none /\ (position' = 0 => act'[a].emptied)
  BY <1>1, <1>3, <1>6, <1>8, <1>13
<1>16. PointFits(a)'
  <2>1. Turn(a)' /\ act'[a].rq > 0
    BY <1>1, <1>2, <1>10, <1>11, <1>15
  <2> QED BY ONLY <1>15, <2>1 DEF PointFits
<1>17. NumberFits(a)' /\ HeardFits(a)' /\ FailureFits(a)' /\ ToldOrderFits(a)' /\ VanishedFits(a)'
  <2>1. lfr' = lfr /\ lfr \in Nat
    BY <1>1, <1>2
  <2> QED BY ONLY <1>15, <2>1
          DEF NumberFits, HeardFits, FailureFits, ToldOrderFits, VanishedFits
<1>18. StillFits'
  BY <1>1, <1>6, <1>8, <1>9, <1>12, <1>14, StillStays
<1>19. ASSUME NEW b \in Actions \ {a}
       PROVE  PairFits(a, b)' /\ PairFits(b, a)'
  <2>1. CASE act[b].trader # act[a].trader \/ act[b].rq = 0
    <3>1. act'[b] = act[b] /\ act'[a].trader = act[a].trader
      BY <1>6, <1>8
    <3> QED BY ONLY <2>1, <3>1 DEF PairFits
  <2>2. CASE act[b].trader = act[a].trader /\ act[b].rq # 0
    <3>1. act'[b] = act[b] /\ act[b] \in ActRecs /\ OrderFits(b)
      BY <1>8, AtTurn
    <3>2. act[b].pc \in OrderPcs /\ act[b].rq \in Nat /\ act[b].result \in OrderResults
      BY <3>1, ActFields
    <3>3. act[b].pc \notin {"signing", "waiting"}
      BY <1>1, <1>11, <2>2 DEF Turn
    <3>4. act[b].result # "none" /\ act[b].rq <= lfr + 1
      BY ONLY <2>2, <3>1, <3>2, <3>3 DEF OrderFits, PointFits, NumberFits, OrderPcs
    <3>5. ASSUME act[b].rq = lfr + 1
          PROVE  act[b].frame = "refused" \/ act[b].result = "unknown"
      <4>1. ~ForwardedAt(b)
        <5>1. ASSUME NEW c \in SameNumber(b), Forwarded(c)
              PROVE  FALSE
          <6>1. c \in Actions /\ act[c].rq = lfr + 1
            BY <3>5, <5>1 DEF SameNumber
          <6> QED BY <5>1, <6>1, ExecutedIsForwarded
        <5> QED BY <5>1 DEF ForwardedAt
      <4>2. act[b].rq > 0
        BY <2>2, <3>2
      <4> QED BY ONLY <3>1, <3>2, <3>4, <4>1, <4>2 DEF OrderFits, HeardFits, OrderResults
    <3>6. act'[b].pc # "waiting" /\ act'[b].rq <= act'[a].rq /\ act'[b].rq \in Nat /\ act'[a].rq \in Nat
      BY <1>2, <1>15, <3>1, <3>2, <3>3, <3>4
    <3>7. act'[b].rq = act'[a].rq => act'[b].frame = "refused" \/ act'[b].result = "unknown"
      BY <1>15, <3>1, <3>5
    <3> QED BY ONLY <3>6, <3>7 DEF PairFits
  <2> QED BY <2>1, <2>2
<1> QED BY <1>9, <1>12, <1>14, <1>16, <1>17, <1>18, <1>19, OthersKeep DEF OrderFits

LEMMA SignsInKeeps ==
  ASSUME OrdersInv, NEW a \in Actions, SignsIn(a)
  PROVE  OrdersInv'
BY SignsInIdle, SignsInOrders

(* The gateway's answer to a frame: nothing was forwarded under the order's number
   unless another's has it. *)
LEMMA AnsweredKeeps ==
  ASSUME OrdersInv, NEW a \in Actions, act[a].frame = "sent", NEW frame \in {"admitted", "refused"},
         act' = [act EXCEPT ![a].frame = frame], NEW is \in {"admitted", "refused"},
         is = "refused" => frame = "refused",
         inbox' = inbox \/ Posts(Open(a), <<Message(is, 0, FALSE)>>),
         UNCHANGED <<position, shown, lfr, turns>>, (\E kind \in Faults : Trouble(kind)) \/ Calm
  PROVE  OrdersInv'
<1> DEFINE m == Message(is, 0, FALSE)
<1>1. m \in Messages /\ m.is = is /\ ~m.none
  BY OrdersAssumption DEF Message, Messages
<1> HIDE DEF m
<1>2. /\ act \in [Actions -> ActRecs] /\ act[a] \in ActRecs /\ inbox \in [Actions -> Seq(Messages)]
      /\ OrderFits(a) /\ OrdersTypeOK /\ act[a].rq \in Nat /\ inbox[a] \in Seq(Messages)
  BY AtTurn
<1>3. PICK q : q = [act[a] EXCEPT !.frame = frame]
  OBVIOUS
<1>4. q \in ActRecs
  BY ONLY <1>2, <1>3, frame \in {"admitted", "refused"} DEF ActRecs, Frames
<1>5. /\ q.pc = act[a].pc /\ q.before = act[a].before /\ q.emptied = act[a].emptied
      /\ q.result = act[a].result
      /\ q.kind = act[a].kind /\ q.trader = act[a].trader /\ q.filled = act[a].filled
      /\ q.size = act[a].size /\ q.rq = act[a].rq /\ q.frame = frame /\ q.told = act[a].told
      /\ q.moved = act[a].moved /\ q.failing = act[a].failing /\ q.none = act[a].none
      /\ q.settled = act[a].settled /\ q.reads = act[a].reads
  BY ONLY <1>2, <1>3 DEF ActRecs
<1>6. act' = [act EXCEPT ![a] = q]
  BY ONLY <1>2, <1>3, act' = [act EXCEPT ![a].frame = frame]
<1>7. act' \in [Actions -> ActRecs] /\ act'[a] = q /\ \A b \in Actions \ {a} : act'[b] = act[b]
  BY ONLY <1>2, <1>4, <1>6, a \in Actions
<1>8. /\ inbox' \in [Actions -> Seq(Messages)] /\ \A b \in Actions \ {a} : inbox'[b] = inbox[b]
      /\ inbox'[a] = inbox[a] \/ (act[a].pc = "waiting" /\ inbox'[a] = inbox[a] \o <<m>>)
  <2>1. CASE inbox' = inbox
    BY <1>2, <2>1
  <2>2. CASE Posts(Open(a), <<m>>)
    <3>1. inbox' = [b \in Actions |-> IF b \in Open(a) THEN inbox[b] \o <<m>> ELSE inbox[b]]
      BY <2>2 DEF Posts
    <3>2. \A b \in Actions : b \in Open(a) <=> b = a /\ act[a].pc = "waiting"
      BY DEF Open
    <3>3. inbox[a] \o <<m>> \in Seq(Messages)
      BY <1>1, <1>2
    <3> HIDE DEF m
    <3>4. inbox' \in [Actions -> Seq(Messages)]
      BY ONLY <1>2, <3>1, <3>2, <3>3
    <3> QED BY ONLY <3>1, <3>2, <3>4, a \in Actions
  <2> QED BY <2>1, <2>2 DEF m
<1>9. ASSUME NEW i \in DOMAIN inbox'[a]
      PROVE  inbox'[a][i] = m \/ (i \in DOMAIN inbox[a] /\ inbox'[a][i] = inbox[a][i])
  <2>1. CASE inbox'[a] = inbox[a]
    BY <1>9, <2>1
  <2>2. CASE inbox'[a] = inbox[a] \o <<m>>
    <3>1. <<m>> \in Seq(Messages) /\ \A j \in DOMAIN <<m>> : <<m>>[j] = m
      BY <1>1
    <3> QED BY ONLY <1>2, <1>9, <2>2, <3>1, JoinedParts
  <2> QED BY <1>8, <2>1, <2>2
<1>10. happened' \subseteq Faults /\ troubles' \in 0..MaxTroubles /\ happened \subseteq happened'
  BY <1>2, TroublesAreCounted
<1>11. OrdersTypeOK'
  BY <1>2, <1>7, <1>8, <1>10, OrdersTypes, OrdersTypesNext
<1>12. ASSUME NEW b \in Actions, Turn(b)
       PROVE  Turn(b)'
  <2>1. act'[b].trader = act[b].trader /\ turns' = turns
    BY <1>5, <1>7
  <2> QED BY ONLY <1>12, <2>1 DEF Turn
<1>13. \A b \in Actions : act[b].pc \in {"signing", "waiting"} => Turn(b)
  BY DEF OrdersInv, OrderFits, PointFits
<1>14. OthersStand(a)
  BY <1>7, <1>8, <1>10, <1>12, <1>13 DEF OthersStand
<1>15. NumberStays(a)
  BY <1>5, <1>7 DEF NumberStays, Executed, Forwarded
<1>16. act[a].rq > 0 /\ act[a].rq # 0 /\ ~Executed(a) /\ ~Forwarded(a)
  BY <1>2 DEF OrderFits, PointFits, Executed, Forwarded
<1>17. \A b \in Actions : /\ act'[b].rq = act[b].rq /\ act'[b].moved = act[b].moved
                          /\ Executed(b)' <=> Executed(b)
                          /\ Forwarded(b)' <=> Forwarded(b)
  BY <1>5, <1>7, <1>15 DEF NumberStays, Executed, Forwarded
<1>18. /\ \A n : FilledAt(a, n) => FilledAt(a, n)'
       /\ ForwardedAt(a) => ForwardedAt(a)'
       /\ SharesNumber(a)' <=> SharesNumber(a)
  BY ONLY <1>17 DEF FilledAt, ForwardedAt, SharesNumber, SameNumber
<1>19. ~SharesNumber(a) => ~ForwardedAt(a) /\ \A n : ~FilledAt(a, n)
  BY <1>16, Unshared
<1>20. PointFits(a)'
  <2>1. act'[a].rq > 0 /\ act'[a].frame # "none" /\ act'[a].moved = 0
    BY <1>2, <1>5, <1>7, <1>16 DEF OrderFits, PointFits, Executed
  <2>2. (act[a].pc # "waiting" => inbox'[a] = <<>>) /\ (act[a].pc \in {"signing", "waiting"} => Turn(a)')
    BY <1>2, <1>8, <1>12 DEF OrderFits, PointFits
  <2> QED BY ONLY <1>2, <1>5, <1>7, <1>16, <2>1, <2>2, UNCHANGED <<position, shown, lfr, turns>>
          DEF OrderFits, PointFits
<1>21. NumberFits(a)'
  <2>1. NumberFits(a)
    BY <1>2 DEF OrderFits
  <2> QED BY ONLY <1>5, <1>7, <2>1, UNCHANGED <<position, shown, lfr, turns>>,
                  frame \in {"admitted", "refused"} DEF NumberFits
<1>22. HeardFits(a)'
  <2>1. HeardFits(a)
    BY <1>2 DEF OrderFits
  <2>2. ASSUME NEW i \in DOMAIN inbox'[a]
        PROVE  MessageFits(a, inbox[a][i])'
    <3>1. CASE inbox'[a][i] = m
      BY <1>1, <1>5, <1>7, <3>1 DEF MessageFits
    <3>2. CASE i \in DOMAIN inbox[a] /\ inbox'[a][i] = inbox[a][i]
      <4>1. MessageFits(a, inbox[a][i]) /\ (inbox[a][i].is = "refused" => FALSE)
        BY <2>1, <3>2 DEF HeardFits, MessageFits
      <4> QED BY ONLY <1>5, <1>7, <1>18, <3>2, <4>1 DEF MessageFits
    <3> QED BY <1>9, <3>1, <3>2
  <2>3. act[a].result \in {"order", "rejected", "noposition"} => ForwardedAt(a)
    BY <1>16, <2>1 DEF HeardFits
  <2> QED BY ONLY <1>5, <1>7, <1>18, <2>1, <2>2, <2>3 DEF HeardFits
<1>23. FailureFits(a)'
  <2>1. HeardFits(a) /\ FailureFits(a)
    BY <1>2 DEF OrderFits
  <2>2. ASSUME ~SharesNumber(a), NEW i \in DOMAIN inbox'[a]
        PROVE  inbox'[a][i].is # "failed"
    <3>1. inbox'[a][i] = m \/ (i \in DOMAIN inbox[a] /\ inbox'[a][i] = inbox[a][i])
      BY <1>9
    <3> QED BY ONLY <1>1, <1>19, <2>1, <2>2, <3>1, is \in {"admitted", "refused"} DEF HeardFits, MessageFits
  <2>3. ~SharesNumber(a) => ~(act[a].pc = "waiting" /\ act[a].failing)
    BY <1>19, <2>1 DEF HeardFits
  <2>4. ~SharesNumber(a) /\ act[a].result = "rejected" => "late" \in happened'
    BY <1>10, <2>1, act[a].frame = "sent" DEF FailureFits
  <2> QED BY ONLY <1>5, <1>7, <1>18, <2>2, <2>3, <2>4 DEF FailureFits
<1>24. ToldOrderFits(a)'
  <2>1. ToldOrderFits(a)
    BY <1>2 DEF OrderFits
  <2>2. (\E b \in Actions : act[b].moved > 0) => \E b \in Actions : act'[b].moved > 0
    BY <1>17
  <2> QED BY ONLY <1>5, <1>7, <1>10, <1>16, <1>18, <2>1, <2>2, act[a].frame = "sent"
          DEF ToldOrderFits, Executed
<1>25. VanishedFits(a)'
  BY <1>5, <1>7 DEF VanishedFits
<1>26. StillFits'
  BY <1>5, <1>7, <1>11, <1>14, <1>15, StillStays
<1>27. act'[a].rq = act[a].rq /\ (act'[a].pc = "waiting" => act[a].pc = "waiting")
       /\ act[a].frame # "refused"
  BY <1>5, <1>7
<1> QED BY <1>11, <1>14, <1>15, <1>20, <1>21, <1>22, <1>23, <1>24, <1>25, <1>26, <1>27, PhoneKeeps
        DEF OrderFits

LEMMA GatewayAnswersKeeps ==
  ASSUME OrdersInv, NEW a \in Actions, GatewayAnswers(a)
  PROVE  OrdersInv'
<1>1. /\ act[a].frame = "sent" /\ UNCHANGED <<position, shown, lfr, turns>>
      /\ (\E kind \in Faults : Trouble(kind)) \/ Calm
  BY DEF GatewayAnswers, Trouble
<1>2. CASE /\ act' = [act EXCEPT ![a].frame = "admitted"]
           /\ inbox' = inbox \/ Posts(Open(a), <<Message("admitted", 0, FALSE)>>)
  <2> DEFINE is == "admitted"
             frame == "admitted"
  <2>1. /\ is \in {"admitted", "refused"} /\ frame \in {"admitted", "refused"}
        /\ is = "refused" => frame = "refused"
        /\ act' = [act EXCEPT ![a].frame = frame]
        /\ inbox' = inbox \/ Posts(Open(a), <<Message(is, 0, FALSE)>>)
    BY <1>2
  <2> HIDE DEF is, frame
  <2> QED BY <1>1, <2>1, AnsweredKeeps
<1>3. CASE /\ act' = [act EXCEPT ![a].frame = "refused"]
           /\ Posts(Open(a), <<Message("refused", 0, FALSE)>>)
  <2> DEFINE is == "refused"
             frame == "refused"
  <2>1. /\ is \in {"admitted", "refused"} /\ frame \in {"admitted", "refused"}
        /\ is = "refused" => frame = "refused"
        /\ act' = [act EXCEPT ![a].frame = frame]
        /\ Posts(Open(a), <<Message(is, 0, FALSE)>>)
    BY <1>3
  <2> HIDE DEF is, frame
  <2> QED BY <1>1, <2>1, AnsweredKeeps
<1> QED BY <1>2, <1>3 DEF GatewayAnswers

(* A message that does not end the order: what is heard of it is so, and a failure
   that a fill will contradict still has that fill to come. *)
LEMMA HeardKeeps ==
  ASSUME OrdersInv, NEW a \in Actions, act[a].pc = "waiting", inbox[a] # <<>>,
         NEW m, m = Head(inbox[a]), inbox' = [inbox EXCEPT ![a] = Tail(inbox[a])],
         UNCHANGED <<position, shown, lfr, turns, happened, troubles>>,
         NEW q \in ActRecs, act' = [act EXCEPT ![a] = q],
         /\ q.pc = "waiting" /\ q.before = act[a].before /\ q.emptied = act[a].emptied
         /\ q.result = act[a].result /\ q.trader = act[a].trader
         /\ q.size = act[a].size /\ q.rq = act[a].rq /\ q.frame = act[a].frame
         /\ q.moved = act[a].moved /\ q.reads = act[a].reads,
         \/ q.filled = act[a].filled /\ q.settled = act[a].settled
         \/ m.is = "done" /\ q.filled = m.filled,
         q.failing => m.is # "done" /\ (act[a].failing \/ m.is = "failed"),
         q.none => act[a].none \/ m.none
  PROVE  OrdersInv'
<1>1. /\ act \in [Actions -> ActRecs] /\ act[a] \in ActRecs /\ inbox \in [Actions -> Seq(Messages)]
      /\ OrderFits(a) /\ OrdersTypeOK /\ act[a].rq \in Nat /\ inbox[a] \in Seq(Messages)
  BY AtTurn
<1>2. act' \in [Actions -> ActRecs] /\ act'[a] = q /\ \A b \in Actions \ {a} : act'[b] = act[b]
  BY ONLY <1>1, q \in ActRecs, act' = [act EXCEPT ![a] = q], a \in Actions
<1>3. /\ m = inbox[a][1] /\ 1 \in DOMAIN inbox[a] /\ Tail(inbox[a]) \in Seq(Messages)
      /\ \A i \in DOMAIN Tail(inbox[a]) : i + 1 \in DOMAIN inbox[a] /\ Tail(inbox[a])[i] = inbox[a][i + 1]
      /\ Tail(inbox[a]) # <<>> => /\ Tail(inbox[a])[Len(Tail(inbox[a]))] = inbox[a][Len(inbox[a])]
      /\ Tail(inbox[a]) = <<>> => Len(inbox[a]) = 1
  BY <1>1, HeadAndTail
<1>4. /\ inbox' \in [Actions -> Seq(Messages)] /\ inbox'[a] = Tail(inbox[a])
      /\ \A b \in Actions \ {a} : inbox'[b] = inbox[b]
  BY ONLY <1>1, <1>3, inbox' = [inbox EXCEPT ![a] = Tail(inbox[a])], a \in Actions
<1>5. OrdersTypeOK'
  BY <1>1, <1>2, <1>4, OrdersTypes, OrdersTypesNext
<1>6. ASSUME NEW b \in Actions, Turn(b)
      PROVE  Turn(b)'
  <2>1. act'[b].trader = act[b].trader /\ turns' = turns
    BY <1>2
  <2> QED BY ONLY <1>6, <2>1 DEF Turn
<1>7. \A b \in Actions : act[b].pc \in {"signing", "waiting"} => Turn(b)
  BY DEF OrdersInv, OrderFits, PointFits
<1>8. OthersStand(a)
  BY <1>2, <1>4, <1>6, <1>7 DEF OthersStand
<1>9. NumberStays(a)
  BY <1>2 DEF NumberStays, Executed, Forwarded
<1>10. \A b \in Actions : /\ act'[b].rq = act[b].rq /\ act'[b].moved = act[b].moved
                          /\ act'[b].frame = act[b].frame
  BY <1>2
<1>11. /\ \A n : FilledAt(a, n) => FilledAt(a, n)'
       /\ ForwardedAt(a) => ForwardedAt(a)'
       /\ SharesNumber(a)' <=> SharesNumber(a)
  BY ONLY <1>10 DEF FilledAt, ForwardedAt, SharesNumber, SameNumber, Executed, Forwarded
<1>12. PointFits(a) /\ HeardFits(a) /\ FailureFits(a) /\ act[a].rq > 0 /\ act[a].result = "none"
  BY <1>1 DEF OrderFits, PointFits
<1>13. PointFits(a)'
  <2>1. act'[a].pc = "waiting" /\ Turn(a)' /\ UNCHANGED position
    BY <1>2, <1>6, <1>7
  <2> QED BY ONLY <1>2, <1>12, <2>1, act[a].pc = "waiting",
                  /\ q.emptied = act[a].emptied
                  /\ q.result = act[a].result
                  /\ q.size = act[a].size /\ q.rq = act[a].rq /\ q.frame = act[a].frame
                  /\ q.moved = act[a].moved /\ q.reads = act[a].reads
          DEF PointFits
<1>14. NumberFits(a)'
  BY <1>1, <1>2 DEF OrderFits, NumberFits
<1>15. MessageFits(a, m) /\ (m.is = "failed" /\ ~SharesNumber(a) => act[a].frame = "failed" \/ FillIsComing(a))
  BY ONLY <1>3, <1>12 DEF HeardFits, FailureFits
<1>16. HeardFits(a)'
  <2>1. ASSUME NEW i \in DOMAIN inbox'[a]
        PROVE  MessageFits(a, inbox[a][i])'
    <3>1. MessageFits(a, inbox[a][i + 1]) /\ inbox'[a][i] = inbox[a][i + 1]
      BY <1>3, <1>4, <1>12, <2>1 DEF HeardFits
    <3> QED BY ONLY <1>2, <1>11, <3>1, q.frame = act[a].frame, q.emptied = act[a].emptied DEF MessageFits
  <2>2. /\ q.settled => FilledAt(a, q.filled)
        /\ q.filled # 0 => FilledAt(a, q.filled)
        /\ q.failing => ForwardedAt(a)
        /\ q.none => q.emptied
    BY <1>12, <1>15 DEF HeardFits, MessageFits
  <2>3. /\ act'[a].settled => FilledAt(a, act[a].filled)'
        /\ act'[a].filled # 0 => FilledAt(a, act[a].filled)'
        /\ act'[a].failing => ForwardedAt(a)'
        /\ act'[a].none => act'[a].emptied
    <3>1. PICK n : n = q.filled
      OBVIOUS
    <3>2. FilledAt(a, n) => FilledAt(a, act[a].filled)'
      <4>1. FilledAt(a, n) => FilledAt(a, n)'
        BY <1>11
      <4>2. n = act'[a].filled
        BY <1>2, <3>1
      <4> QED BY ONLY <4>1, <4>2 DEF FilledAt
    <3> QED BY ONLY <1>2, <1>11, <2>2, <3>1, <3>2
  <2>4. act'[a].result = "none" /\ act'[a].rq > 0
    BY <1>2, <1>12
  <2> QED BY ONLY <2>1, <2>3, <2>4 DEF HeardFits
<1>17. FailureFits(a)'
  <2>1. FillIsComing(a) /\ Tail(inbox[a]) # <<>> => FillIsComing(a)'
    BY ONLY <1>3, <1>4 DEF FillIsComing
  <2>2. FillIsComing(a) /\ m.is # "done" => Tail(inbox[a]) # <<>>
    BY ONLY <1>3 DEF FillIsComing
  <2>3. ASSUME ~SharesNumber(a), NEW i \in DOMAIN inbox'[a], inbox'[a][i].is = "failed"
        PROVE  act'[a].frame = "failed" \/ FillIsComing(a)'
    <3>1. act[a].frame = "failed" \/ FillIsComing(a)
      BY ONLY <1>3, <1>4, <1>12, <2>3 DEF FailureFits
    <3>2. Tail(inbox[a]) # <<>>
      BY ONLY <1>4, <2>3
    <3> QED BY <1>2, <2>1, <3>1, <3>2
  <2>4. ASSUME ~SharesNumber(a), q.failing
        PROVE  act'[a].frame = "failed" \/ FillIsComing(a)'
    <3>1. act[a].frame = "failed" \/ FillIsComing(a)
      BY <1>12, <1>15, <2>4 DEF FailureFits
    <3> QED BY <1>2, <2>1, <2>2, <2>4, <3>1
  <2>5. act'[a].result # "rejected" /\ (act'[a].failing => q.failing) /\ (SharesNumber(a)' <=> SharesNumber(a))
    BY <1>2, <1>11, <1>12
  <2> QED BY ONLY <2>3, <2>4, <2>5 DEF FailureFits
<1>18. ToldOrderFits(a)'
  BY <1>2 DEF ToldOrderFits
<1>19. VanishedFits(a)'
  <2>1. VanishedFits(a)
    BY <1>1 DEF OrderFits
  <2> QED BY ONLY <1>2, <2>1, q.rq = act[a].rq, q.frame = act[a].frame, q.trader = act[a].trader,
                  q.result = act[a].result DEF VanishedFits
<1>20. StillFits'
  BY <1>2, <1>5, <1>8, <1>9, StillStays
<1>21. act'[a].rq = act[a].rq /\ (act[a].frame = "refused" => act'[a].frame = "refused")
  BY <1>2
<1> QED BY <1>5, <1>8, <1>9, <1>13, <1>14, <1>16, <1>17, <1>18, <1>19, <1>20, <1>21, PhoneKeeps
        DEF OrderFits

LEMMA TakesKeeps ==
  ASSUME OrdersInv, NEW a \in Actions, Takes(a)
  PROVE  OrdersInv'
<1>1. PICK m : m = Head(inbox[a])
  OBVIOUS
<1>2. /\ act \in [Actions -> ActRecs] /\ act[a] \in ActRecs /\ inbox[a] \in Seq(Messages)
      /\ OrderFits(a) /\ act[a].rq \in Nat
  BY AtTurn
<1>3. /\ act[a].pc = "waiting" /\ inbox[a] # <<>> /\ UNCHANGED <<position, shown, lfr, happened, troubles>>
      /\ (\E kind \in Faults : Trouble(kind)) \/ Calm
  BY DEF Takes, Calm
<1>4. m \in Messages /\ m = inbox[a][1] /\ 1 \in DOMAIN inbox[a]
  BY <1>1, <1>2, <1>3, HeadAndTail
<1>5. m.filled \in 0..MaxSize /\ m.none \in BOOLEAN
  BY <1>4 DEF Messages
<1>6. MessageFits(a, m) /\ act[a].rq > 0 /\ act[a].filled \in 0..MaxSize
      /\ (act[a].settled => FilledAt(a, act[a].filled)) /\ act[a].result = "none"
  BY <1>2, <1>3, <1>4, ActFields DEF OrderFits, PointFits, HeardFits
<1>7. CASE m.is = "refused" /\ Ends(a, "rejected", 0)
  <2> DEFINE result == "rejected"
             filled == 0
  <2>1. /\ result \in {"order", "rejected", "unknown", "noposition"} /\ filled \in 0..MaxSize
        /\ result # "order" /\ result # "noposition" /\ result # "unknown"
        /\ filled = 0 /\ Ends(a, result, filled) /\ act[a].frame = "refused"
    BY <1>6, <1>7, OrdersAssumption DEF MessageFits
  <2> HIDE DEF result, filled
  <2> QED BY <1>3, <1>6, <2>1, EndsKeeps
<1>8. ASSUME NEW n \in 0..MaxSize, Ends(a, "order", n), FilledAt(a, n)
      PROVE  OrdersInv'
  <2> DEFINE result == "order"
  <2>1. /\ result \in {"order", "rejected", "unknown", "noposition"}
        /\ result = "order" /\ result # "noposition" /\ result # "rejected"
        /\ Ends(a, result, n) /\ ForwardedAt(a)
    BY <1>8, FilledIsForwarded
  <2> HIDE DEF result
  <2> QED BY <1>3, <1>6, <1>8, <2>1, EndsKeeps
<1>9. CASE m.is = "admitted" /\ act[a].settled /\ Ends(a, "order", act[a].filled)
  BY <1>6, <1>8, <1>9
<1>10. CASE m.is = "done" /\ Ends(a, "order", m.filled)
  BY <1>5, <1>6, <1>8, <1>10 DEF MessageFits
<1> DEFINE rest == /\ inbox' = [inbox EXCEPT ![a] = Tail(inbox[a])]
                   /\ UNCHANGED <<position, shown, lfr, turns, happened, troubles>>
<1>11. CASE m.is = "admitted" /\ rest /\ act' = [act EXCEPT ![a].admitted = TRUE]
  <2>1. PICK q : q = [act[a] EXCEPT !.admitted = TRUE]
    OBVIOUS
  <2>2. q \in ActRecs
    BY ONLY <1>2, <2>1 DEF ActRecs
  <2>3. /\ q.pc = act[a].pc /\ q.before = act[a].before /\ q.emptied = act[a].emptied
        /\ q.result = act[a].result /\ q.trader = act[a].trader
        /\ q.size = act[a].size /\ q.rq = act[a].rq /\ q.frame = act[a].frame
        /\ q.moved = act[a].moved /\ q.reads = act[a].reads
        /\ q.filled = act[a].filled /\ q.settled = act[a].settled
        /\ q.failing = act[a].failing /\ q.none = act[a].none
    BY ONLY <1>2, <2>1 DEF ActRecs
  <2>4. act' = [act EXCEPT ![a] = q]
    BY ONLY <1>2, <1>11, <2>1
  <2>5. /\ act[a].pc = "waiting" /\ inbox[a] # <<>>
        /\ inbox' = [inbox EXCEPT ![a] = Tail(inbox[a])]
        /\ UNCHANGED <<position, shown, lfr, turns, happened, troubles>>
    BY <1>3, <1>11
  <2>6. /\ q.pc = "waiting"
        /\ \/ q.filled = act[a].filled /\ q.settled = act[a].settled
           \/ m.is = "done" /\ q.filled = m.filled
        /\ q.failing => m.is # "done" /\ (act[a].failing \/ m.is = "failed")
        /\ q.none => act[a].none \/ m.none
    BY <1>3, <1>11, <2>3
  <2> QED BY ONLY OrdersInv, a \in Actions, <1>1, <2>2, <2>3, <2>4, <2>5, <2>6, HeardKeeps
<1>12. CASE m.is = "failed" /\ rest /\ act' = [act EXCEPT ![a].failing = TRUE, ![a].none = m.none]
  <2>1. PICK q : q = [act[a] EXCEPT !.failing = TRUE, !.none = m.none]
    OBVIOUS
  <2>2. q \in ActRecs
    BY ONLY <1>2, <1>5, <2>1 DEF ActRecs
  <2>3. /\ q.pc = act[a].pc /\ q.before = act[a].before /\ q.emptied = act[a].emptied
        /\ q.result = act[a].result /\ q.trader = act[a].trader
        /\ q.size = act[a].size /\ q.rq = act[a].rq /\ q.frame = act[a].frame
        /\ q.moved = act[a].moved /\ q.reads = act[a].reads
        /\ q.filled = act[a].filled /\ q.settled = act[a].settled
        /\ q.failing /\ q.none = m.none
    BY ONLY <1>2, <2>1 DEF ActRecs
  <2>4. act' = [act EXCEPT ![a] = q]
    BY ONLY <1>2, <1>12, <2>1
  <2>5. /\ act[a].pc = "waiting" /\ inbox[a] # <<>>
        /\ inbox' = [inbox EXCEPT ![a] = Tail(inbox[a])]
        /\ UNCHANGED <<position, shown, lfr, turns, happened, troubles>>
    BY <1>3, <1>12
  <2>6. /\ q.pc = "waiting"
        /\ \/ q.filled = act[a].filled /\ q.settled = act[a].settled
           \/ m.is = "done" /\ q.filled = m.filled
        /\ q.failing => m.is # "done" /\ (act[a].failing \/ m.is = "failed")
        /\ q.none => act[a].none \/ m.none
    BY <1>3, <1>12, <2>3
  <2> QED BY ONLY OrdersInv, a \in Actions, <1>1, <2>2, <2>3, <2>4, <2>5, <2>6, HeardKeeps
<1>13. CASE /\ m.is = "done" /\ rest
            /\ act' = [act EXCEPT ![a].failing = FALSE, ![a].settled = TRUE, ![a].filled = m.filled]
  <2>1. PICK q : q = [act[a] EXCEPT !.failing = FALSE, !.settled = TRUE, !.filled = m.filled]
    OBVIOUS
  <2>2. q \in ActRecs
    BY ONLY <1>2, <1>5, <2>1 DEF ActRecs
  <2>3. /\ q.pc = act[a].pc /\ q.before = act[a].before /\ q.emptied = act[a].emptied
        /\ q.result = act[a].result /\ q.trader = act[a].trader
        /\ q.size = act[a].size /\ q.rq = act[a].rq /\ q.frame = act[a].frame
        /\ q.moved = act[a].moved /\ q.reads = act[a].reads
        /\ q.filled = m.filled
        /\ ~q.failing /\ q.none = act[a].none
    BY ONLY <1>2, <2>1 DEF ActRecs
  <2>4. act' = [act EXCEPT ![a] = q]
    BY ONLY <1>2, <1>13, <2>1
  <2>5. /\ act[a].pc = "waiting" /\ inbox[a] # <<>>
        /\ inbox' = [inbox EXCEPT ![a] = Tail(inbox[a])]
        /\ UNCHANGED <<position, shown, lfr, turns, happened, troubles>>
    BY <1>3, <1>13
  <2>6. /\ q.pc = "waiting"
        /\ \/ q.filled = act[a].filled /\ q.settled = act[a].settled
           \/ m.is = "done" /\ q.filled = m.filled
        /\ q.failing => m.is # "done" /\ (act[a].failing \/ m.is = "failed")
        /\ q.none => act[a].none \/ m.none
    BY <1>3, <1>13, <2>3
  <2> QED BY ONLY OrdersInv, a \in Actions, <1>1, <2>2, <2>3, <2>4, <2>5, <2>6, HeardKeeps
<1> HIDE DEF rest
<1>14. \/ m.is = "refused" /\ Ends(a, "rejected", 0)
       \/ m.is = "admitted" /\ act[a].settled /\ Ends(a, "order", act[a].filled)
       \/ m.is = "admitted" /\ rest /\ act' = [act EXCEPT ![a].admitted = TRUE]
       \/ m.is = "failed" /\ rest /\ act' = [act EXCEPT ![a].failing = TRUE, ![a].none = m.none]
       \/ m.is = "done" /\ Ends(a, "order", m.filled)
       \/ /\ m.is = "done" /\ rest
          /\ act' = [act EXCEPT ![a].failing = FALSE, ![a].settled = TRUE, ![a].filled = m.filled]
  BY <1>1, <1>3 DEF Takes, rest
<1> QED BY <1>7, <1>9, <1>10, <1>11, <1>12, <1>13, <1>14

(* What a read-back says is so: of an order that settled, of a rejection that
   stands, and of the position as it reads. *)
VerdictIsSo(a, after, verdict) ==
  /\ ~SharesNumber(a) =>
       /\ verdict = "closed" => act[a].emptied \/ (Executed(a) /\ act[a].moved = act[a].size)
       /\ verdict = "unfilled" => Executed(a) /\ act[a].moved = 0
       /\ verdict = "failed" => act[a].frame \in {"refused", "failed"} \/ "late" \in happened
  /\ verdict = "landed" => \E b \in Actions : act[b].moved > 0
  /\ verdict = "closed" => position = 0 \/ \E b \in Actions : act[b].moved > 0
  /\ verdict \in {"closed", "unfilled", "partial", "failed", "pending", "landed"}

LEMMA VerdictFitsRead ==
  ASSUME OrdersInv, NEW a \in Actions, act[a].pc = "reading", NEW after \in {<<>>, <<position>>}
  PROVE  VerdictIsSo(a, after, OrderVerdict(a, after))
<1>1. /\ act[a] \in ActRecs /\ OrderFits(a) /\ act[a].rq \in Nat /\ position \in Nat
  BY AtTurn
<1>2. /\ act[a].before \in 0..MaxSize /\ act[a].size \in 0..MaxSize /\ act[a].filled \in 0..MaxSize
      /\ act[a].moved \in 0..MaxSize
  BY <1>1, ActFields
<1>3. /\ act[a].result = "order" => act[a].rq # 0 /\ FilledAt(a, act[a].filled)
      /\ act[a].moved <= act[a].size /\ (position = 0 => act[a].emptied)
      /\ ~SharesNumber(a) /\ act[a].result = "rejected" =>
           act[a].frame \in {"refused", "failed"} \/ "late" \in happened
  BY ONLY <1>1, act[a].pc = "reading" DEF OrderFits, PointFits, HeardFits, FailureFits
<1>4. ~SharesNumber(a) /\ act[a].result = "order" => Executed(a) /\ act[a].moved = act[a].filled
  BY <1>3, Unshared
<1>5. act[a].result = "order" /\ act[a].filled > 0 => \E b \in Actions : act[b].moved > 0
  BY <1>3 DEF FilledAt, SameNumber
<1>6. after = <<>> \/ (after # <<>> /\ after[1] = position)
  OBVIOUS
<1>7. CASE act[a].kind = "close"
  <2>1. OrderVerdict(a, after) = CloseVerdict(a, after)
    BY <1>7 DEF OrderVerdict
  <2>2. CASE after # <<>> /\ position = 0
    <3>1. CloseVerdict(a, after) = "closed"
      BY <1>6, <2>2 DEF CloseVerdict
    <3> QED BY ONLY <1>3, <2>1, <2>2, <3>1 DEF VerdictIsSo
  <2>3. CASE ~(after # <<>> /\ position = 0) /\ act[a].result = "order"
    <3>1. /\ CloseVerdict(a, after) \in {"unfilled", "closed", "partial"}
          /\ CloseVerdict(a, after) = "unfilled" => act[a].filled = 0
          /\ CloseVerdict(a, after) = "closed" => act[a].filled > 0 /\ act[a].filled >= act[a].size
      BY <1>2, <1>6, <2>3 DEF CloseVerdict
    <3> QED BY ONLY <1>2, <1>3, <1>4, <1>5, <2>1, <2>3, <3>1 DEF VerdictIsSo
  <2>4. CASE ~(after # <<>> /\ position = 0) /\ act[a].result # "order"
    <3>1. /\ CloseVerdict(a, after) \in {"partial", "failed", "pending"}
          /\ CloseVerdict(a, after) = "failed" => act[a].result = "rejected"
      BY <1>1, <1>2, <1>6, <2>4 DEF CloseVerdict, Failed
    <3> QED BY ONLY <1>3, <2>1, <2>4, <3>1 DEF VerdictIsSo
  <2> QED BY <2>2, <2>3, <2>4
<1>8. CASE act[a].kind # "close"
  <2>1. /\ OrderVerdict(a, after) \in {"landed", "pending"}
        /\ OrderVerdict(a, after) = "landed" => position # act[a].before
    BY <1>6, <1>8 DEF OrderVerdict, OpenVerdict
  <2>2. position # act[a].before => \E b \in Actions : act[b].moved > 0
    <3>1. (\A b \in Actions : act[b].moved = 0) => act[a].before = position
      BY act[a].pc = "reading" DEF OrdersInv, StillFits
    <3>2. \A b \in Actions : act[b].moved \in Nat
      BY AtTurn
    <3> QED BY <3>1, <3>2
  <2> QED BY ONLY <2>1, <2>2 DEF VerdictIsSo
<1> QED BY <1>7, <1>8

LEMMA ReadsBackKeeps ==
  ASSUME OrdersInv, NEW a \in Actions, ReadsBack(a)
  PROVE  OrdersInv'
<1>1. act[a].pc = "reading" /\ UNCHANGED <<position, lfr, turns, inbox>>
  BY DEF ReadsBack
<1>2. PICK after \in {<<>>, <<position>>} :
        LET verdict == OrderVerdict(a, after)
            last    == act[a].result = "order" \/ act[a].reads + 1 = MaxReads
            said    == IF verdict = "pending" /\ act[a].kind = "open" THEN "unconfirmed" ELSE verdict
        IN /\ IF after = <<>> THEN Trouble("unread") ELSE Calm
           /\ act' = [act EXCEPT ![a].reads = IF last THEN @ ELSE @ + 1,
                 ![a].pc   = IF verdict # "pending" \/ last THEN "told" ELSE @,
                 ![a].told = IF verdict # "pending" \/ last THEN said ELSE @]
           /\ shown' = CASE verdict = "closed"                               -> 0
                         [] verdict \in {"partial", "landed"} /\ after # <<>> -> after[1]
                         [] OTHER                                            -> shown
  BY DEF ReadsBack
<1> DEFINE verdict == OrderVerdict(a, after)
           last == act[a].result = "order" \/ act[a].reads + 1 = MaxReads
           reads == IF last THEN act[a].reads ELSE act[a].reads + 1
           pc == IF verdict # "pending" \/ last THEN "told" ELSE act[a].pc
           said == IF verdict = "pending" /\ act[a].kind = "open" THEN "unconfirmed" ELSE verdict
           told == IF verdict # "pending" \/ last THEN said ELSE act[a].told
<1>3. /\ (\E kind \in Faults : Trouble(kind)) \/ Calm
      /\ act' = [act EXCEPT ![a].reads = reads, ![a].pc = pc, ![a].told = told]
      /\ shown' = CASE verdict = "closed"                               -> 0
                    [] verdict \in {"partial", "landed"} /\ after # <<>> -> after[1]
                    [] OTHER                                            -> shown
  <2>1. (\E kind \in Faults : Trouble(kind)) \/ Calm
    BY <1>2 DEF Trouble
  <2>2. act \in [Actions -> ActRecs]
    BY AtTurn
  <2> QED BY <1>2, <2>1, <2>2
<1> HIDE DEF verdict
<1>4. VerdictIsSo(a, after, verdict)
  BY <1>1, VerdictFitsRead DEF verdict
<1>5. /\ act \in [Actions -> ActRecs] /\ act[a] \in ActRecs /\ inbox \in [Actions -> Seq(Messages)]
      /\ OrderFits(a) /\ OrdersTypeOK /\ position \in Nat
  BY AtTurn
<1>6. /\ act[a].reads \in 0..MaxReads /\ act[a].told \in Told /\ position \in 0..MaxSize
      /\ shown \in 0..MaxSize /\ MaxSize \in Nat /\ MaxReads \in Nat
      /\ act[a].reads < MaxReads /\ act[a].result # "none" /\ inbox[a] = <<>>
      /\ (position = 0 => act[a].emptied)
  BY <1>1, <1>5, ActFields, OrdersTypes, OrdersAssumption DEF OrderFits, PointFits
<1>7. /\ verdict \in {"closed", "unfilled", "partial", "failed", "pending", "landed"}
      /\ said \in {"closed", "unfilled", "partial", "failed", "pending", "landed", "unconfirmed"}
      /\ said # "unconfirmed" => said = verdict
  BY <1>4 DEF VerdictIsSo
<1>8. /\ reads \in 0..MaxReads /\ pc \in {"reading", "told"} /\ told \in Told
      /\ pc = "reading" => reads < MaxReads
      /\ pc = "told" => told = said
  BY <1>1, <1>6, <1>7 DEF Told
<1> HIDE DEF last, reads, pc, said, told
<1>9. PICK q : q = [act[a] EXCEPT !.reads = reads, !.pc = pc, !.told = told]
  OBVIOUS
<1>10. q \in ActRecs
  BY ONLY <1>5, <1>8, <1>9 DEF ActRecs, OrderPcs
<1>11. /\ q.pc = pc /\ q.before = act[a].before /\ q.emptied = act[a].emptied
       /\ q.result = act[a].result
       /\ q.kind = act[a].kind /\ q.trader = act[a].trader /\ q.filled = act[a].filled
       /\ q.size = act[a].size /\ q.rq = act[a].rq /\ q.frame = act[a].frame /\ q.told = told
       /\ q.moved = act[a].moved /\ q.failing = act[a].failing /\ q.none = act[a].none
       /\ q.settled = act[a].settled /\ q.reads = reads
  BY ONLY <1>5, <1>9 DEF ActRecs
<1>12. act' = [act EXCEPT ![a] = q]
  <2>1. act' = [act EXCEPT ![a].reads = reads, ![a].pc = pc, ![a].told = told]
    BY <1>3
  <2> QED BY ONLY <1>5, <1>9, <2>1
<1>13. act' \in [Actions -> ActRecs] /\ act'[a] = q /\ \A b \in Actions \ {a} : act'[b] = act[b]
  BY ONLY <1>5, <1>10, <1>12, a \in Actions
<1>14. happened' \subseteq Faults /\ troubles' \in 0..MaxTroubles /\ happened \subseteq happened'
  BY <1>3, <1>5, TroublesAreCounted
<1>15. /\ verdict = "closed" => shown' = 0
       /\ verdict # "closed" => shown' \in {position, shown}
  <2>1. after # <<>> => after[1] = position
    OBVIOUS
  <2> QED BY ONLY <1>3, <2>1
<1>16. OrdersTypeOK'
  <2>1. shown' \in 0..MaxSize
    BY <1>6, <1>15
  <2> QED BY <1>1, <1>5, <1>13, <1>14, <2>1, OrdersTypes, OrdersTypesNext
<1>17. ASSUME NEW b \in Actions, Turn(b)
       PROVE  Turn(b)'
  <2>1. act'[b].trader = act[b].trader /\ turns' = turns
    BY <1>1, <1>11, <1>13
  <2> QED BY ONLY <1>17, <2>1 DEF Turn
<1>18. \A b \in Actions : act[b].pc \in {"signing", "waiting"} => Turn(b)
  BY DEF OrdersInv, OrderFits, PointFits
<1>19. OthersStand(a)
  BY <1>1, <1>13, <1>14, <1>17, <1>18 DEF OthersStand
<1>20. NumberStays(a)
  BY ONLY <1>11, <1>13 DEF NumberStays, Executed, Forwarded
<1>21. \A b \in Actions : /\ act'[b].rq = act[b].rq /\ act'[b].moved = act[b].moved
                          /\ act'[b].frame = act[b].frame
  BY <1>11, <1>13
<1>22. /\ \A n : FilledAt(a, n) => FilledAt(a, n)'
       /\ ForwardedAt(a) => ForwardedAt(a)'
       /\ SharesNumber(a)' <=> SharesNumber(a)
  BY ONLY <1>21 DEF FilledAt, ForwardedAt, SharesNumber, SameNumber, Executed, Forwarded
<1>23. PointFits(a) /\ NumberFits(a) /\ HeardFits(a) /\ FailureFits(a) /\ VanishedFits(a)
  BY <1>5 DEF OrderFits
<1>24. PointFits(a)'
  <2>1. /\ act'[a].pc \in {"reading", "told"} /\ (act'[a].pc = "reading" => act'[a].reads < MaxReads)
        /\ inbox'[a] = <<>> /\ UNCHANGED position
    BY <1>1, <1>6, <1>8, <1>11, <1>13
  <2> QED BY ONLY <1>1, <1>6, <1>11, <1>13, <1>23, <2>1 DEF PointFits
<1>25. NumberFits(a)' /\ VanishedFits(a)'
  <2>1. NumberFits(a)'
    BY ONLY <1>1, <1>11, <1>13, <1>23 DEF NumberFits
  <2>2. VanishedFits(a)'
    BY ONLY <1>11, <1>13, <1>23 DEF VanishedFits
  <2> QED BY <2>1, <2>2
<1>26. HeardFits(a)'
  <2>1. act'[a].pc # "waiting" /\ inbox'[a] = <<>>
    BY <1>1, <1>6, <1>8, <1>11, <1>13
  <2>2. FilledAt(a, act[a].filled) => FilledAt(a, act[a].filled)'
    BY ONLY <1>11, <1>13, <1>21 DEF FilledAt, SameNumber, Executed
  <2> QED BY ONLY <1>11, <1>13, <1>22, <1>23, <2>1, <2>2 DEF HeardFits
<1>27. FailureFits(a)'
  <2>1. act'[a].pc # "waiting" /\ inbox'[a] = <<>>
    BY <1>1, <1>6, <1>8, <1>11, <1>13
  <2> QED BY ONLY <1>11, <1>13, <1>14, <1>22, <1>23, <2>1 DEF FailureFits
<1>28. ToldOrderFits(a)'
  <2>1. act'[a].pc = "told" => act'[a].told = said
    BY <1>8, <1>11, <1>13
  <2>2. ~SharesNumber(a) =>
          /\ said = "closed" => act'[a].emptied \/ (Executed(a)' /\ act'[a].moved = act'[a].size)
          /\ said = "unfilled" => Executed(a)' /\ act'[a].moved = 0
          /\ said = "failed" => act'[a].frame \in {"refused", "failed"} \/ "late" \in happened'
    BY ONLY <1>4, <1>7, <1>11, <1>13, <1>14 DEF VerdictIsSo, Executed
  <2>3. said = "landed" => \E b \in Actions : act'[b].moved > 0
    <3>1. said = "landed" => \E b \in Actions : act[b].moved > 0
      BY ONLY <1>4, <1>7 DEF VerdictIsSo
    <3> QED BY <1>21, <3>1
  <2>4. said # "already-closed" /\ said # "done"
    BY <1>7
  <2> QED BY ONLY <1>22, <2>1, <2>2, <2>3, <2>4 DEF ToldOrderFits
<1>29. StillFits'
  <2>1. CASE \E b \in Actions : act[b].moved > 0
    <3>1. PICK b \in Actions : act[b].moved > 0
      BY <2>1
    <3>2. act'[b].moved # 0
      BY <1>21, <3>1
    <3> QED BY <3>2 DEF StillFits
  <2>2. CASE ~\E b \in Actions : act[b].moved > 0
    <3>1. \A b \in Actions : act[b].moved = 0
      <4>1. \A b \in Actions : act[b].moved \in Nat
        BY AtTurn
      <4> QED BY <2>2, <4>1
    <3>2. shown = position /\ \A b \in Actions : act[b].pc # "idle" => act[b].before = position
      BY <3>1 DEF OrdersInv, StillFits
    <3>3. verdict = "closed" => position = 0
      BY ONLY <1>4, <2>2 DEF VerdictIsSo
    <3>4. shown' = position' /\ position' = position
      BY <1>1, <1>15, <3>2, <3>3
    <3>5. \A b \in Actions : act'[b].before = position
                             \/ act'[b].pc = "idle"
      BY <1>1, <1>11, <1>13, <3>2
    <3> QED BY <3>4, <3>5 DEF StillFits
  <2> QED BY <2>1, <2>2
<1>30. /\ act'[a].rq = act[a].rq /\ (act'[a].pc = "waiting" => act[a].pc = "waiting")
       /\ act[a].frame = "refused" => act'[a].frame = "refused"
  BY <1>8, <1>11, <1>13
<1> QED BY <1>16, <1>19, <1>20, <1>24, <1>25, <1>26, <1>27, <1>28, <1>29, <1>30, PhoneKeeps DEF OrderFits

(* A number at or below the last forwarded one: another order's.  The trader whose
   order vanishes lost an outcome, or the number went to another trader. *)
LEMMA VanishesKeeps ==
  ASSUME OrdersInv, NEW a \in Actions, act[a].frame = "admitted", act[a].rq <= lfr,
         act' = [act EXCEPT ![a].frame = "vanished"],
         UNCHANGED <<position, shown, lfr, turns, inbox, happened, troubles>>
  PROVE  OrdersInv'
<1>1. /\ act \in [Actions -> ActRecs] /\ act[a] \in ActRecs /\ inbox \in [Actions -> Seq(Messages)]
      /\ OrderFits(a) /\ OrdersTypeOK /\ act[a].rq \in Nat /\ lfr \in Nat
  BY AtTurn
<1>2. PICK q : q = [act[a] EXCEPT !.frame = "vanished"]
  OBVIOUS
<1>3. q \in ActRecs
  BY ONLY <1>1, <1>2 DEF ActRecs, Frames
<1>4. /\ q.pc = act[a].pc /\ q.before = act[a].before /\ q.emptied = act[a].emptied
      /\ q.result = act[a].result
      /\ q.kind = act[a].kind /\ q.trader = act[a].trader /\ q.filled = act[a].filled
      /\ q.size = act[a].size /\ q.rq = act[a].rq /\ q.frame = "vanished" /\ q.told = act[a].told
      /\ q.moved = act[a].moved /\ q.failing = act[a].failing /\ q.none = act[a].none
      /\ q.settled = act[a].settled /\ q.reads = act[a].reads
  BY ONLY <1>1, <1>2 DEF ActRecs
<1>5. act' = [act EXCEPT ![a] = q]
  BY ONLY <1>1, <1>2, act' = [act EXCEPT ![a].frame = "vanished"]
<1>6. act' \in [Actions -> ActRecs] /\ act'[a] = q /\ \A b \in Actions \ {a} : act'[b] = act[b]
  BY ONLY <1>1, <1>3, <1>5, a \in Actions
<1>7. OrdersTypeOK'
  BY <1>1, <1>6, OrdersTypes, OrdersTypesNext
<1>8. ASSUME NEW b \in Actions, Turn(b)
      PROVE  Turn(b)'
  <2>1. act'[b].trader = act[b].trader /\ turns' = turns
    BY <1>4, <1>6
  <2> QED BY ONLY <1>8, <2>1 DEF Turn
<1>9. \A b \in Actions : act[b].pc \in {"signing", "waiting"} => Turn(b)
  BY DEF OrdersInv, OrderFits, PointFits
<1>10. OthersStand(a)
  BY <1>6, <1>8, <1>9 DEF OthersStand
<1>11. NumberStays(a)
  BY <1>4, <1>6 DEF NumberStays, Executed, Forwarded
<1>12. \A b \in Actions : /\ act'[b].rq = act[b].rq /\ act'[b].moved = act[b].moved
                          /\ Executed(b)' <=> Executed(b)
                          /\ Forwarded(b)' <=> Forwarded(b)
  BY <1>4, <1>6, <1>11 DEF NumberStays, Executed, Forwarded
<1>13. /\ \A n : FilledAt(a, n) => FilledAt(a, n)'
       /\ ForwardedAt(a) => ForwardedAt(a)'
       /\ SharesNumber(a)' <=> SharesNumber(a)
  BY ONLY <1>12 DEF FilledAt, ForwardedAt, SharesNumber, SameNumber
<1>14. PointFits(a) /\ NumberFits(a) /\ HeardFits(a) /\ FailureFits(a) /\ ToldOrderFits(a)
       /\ act[a].rq > 0 /\ act[a].rq # 0 /\ ~Executed(a) /\ ~Forwarded(a)
  BY <1>1 DEF OrderFits, PointFits, Executed, Forwarded
<1>15. ~SharesNumber(a) => ~ForwardedAt(a) /\ \A n : ~FilledAt(a, n)
  BY <1>14, Unshared
<1>16. PointFits(a)'
  <2>1. act[a].pc \in {"signing", "waiting"} => Turn(a)'
    BY <1>8, <1>9
  <2>2. inbox'[a] = inbox[a] /\ position' = position /\ act[a].moved = 0
    BY <1>14 DEF PointFits, Executed
  <2> QED BY ONLY <1>4, <1>6, <1>14, <2>1, <2>2 DEF PointFits
<1>17. NumberFits(a)'
  BY ONLY <1>4, <1>6, <1>14, act[a].rq <= lfr,
          UNCHANGED <<position, shown, lfr, turns, inbox, happened, troubles>> DEF NumberFits
<1>18. HeardFits(a)'
  <2>1. inbox'[a] = inbox[a]
    OBVIOUS
  <2>2. FilledAt(a, act[a].filled) => FilledAt(a, act[a].filled)'
    <3>1. act'[a].filled = act[a].filled
      BY <1>4, <1>6
    <3> QED BY ONLY <1>12, <3>1 DEF FilledAt, SameNumber
  <2>3. ASSUME NEW i \in DOMAIN inbox[a]
        PROVE  MessageFits(a, inbox[a][i])'
    <3>1. MessageFits(a, inbox[a][i]) /\ inbox'[a][i] = inbox[a][i]
      BY <1>14, <2>1, <2>3 DEF HeardFits
    <3>2. inbox[a][i].is # "refused"
      BY <3>1, act[a].frame = "admitted" DEF MessageFits
    <3> QED BY ONLY <1>4, <1>6, <1>13, <3>1, <3>2 DEF MessageFits
  <2>4. act[a].result \in {"order", "rejected", "noposition"} => ForwardedAt(a)
    BY <1>14, act[a].frame = "admitted" DEF HeardFits
  <2> QED BY ONLY <1>4, <1>6, <1>13, <1>14, <2>1, <2>2, <2>3, <2>4 DEF HeardFits
<1>19. FailureFits(a)'
  <2>1. ASSUME ~SharesNumber(a), NEW i \in DOMAIN inbox[a]
        PROVE  inbox[a][i].is # "failed"
    BY <1>14, <1>15, <2>1 DEF HeardFits, MessageFits
  <2>2. ~SharesNumber(a) => ~(act[a].pc = "waiting" /\ act[a].failing)
    BY <1>14, <1>15 DEF HeardFits
  <2>3. ~SharesNumber(a) /\ act[a].result = "rejected" => "late" \in happened
    BY <1>14, act[a].frame = "admitted" DEF FailureFits
  <2>4. inbox'[a] = inbox[a] /\ happened' = happened
    OBVIOUS
  <2> QED BY ONLY <1>4, <1>6, <1>13, <2>1, <2>2, <2>3, <2>4 DEF FailureFits
<1>20. ToldOrderFits(a)'
  <2>1. (\E b \in Actions : act[b].moved > 0) => \E b \in Actions : act'[b].moved > 0
    BY <1>12
  <2>2. happened' = happened
    OBVIOUS
  <2> QED BY ONLY <1>4, <1>6, <1>13, <1>14, <2>1, <2>2, act[a].frame = "admitted"
          DEF ToldOrderFits, Executed
<1>21. VanishedFits(a)'
  <2>1. PICK b \in Actions : Forwarded(b) /\ act[b].rq = lfr
    BY <1>1, <1>14 DEF OrdersInv, LastFits
  <2>2. b # a /\ act[b].rq \in Nat /\ act[b].rq > 0
    BY <1>1, <1>14, <2>1
  <2>3. act'[b] = act[b] /\ PairFits(a, b) /\ act[b].frame # "refused"
    BY <1>6, <2>1, <2>2 DEF OrdersInv, Forwarded
  <2>4. act[a].trader = act[b].trader /\ act[a].rq = act[b].rq => "unknown" \in {act[a].result, act[b].result}
    BY <1>14, <2>2, <2>3, act[a].frame = "admitted" DEF PairFits
  <2>5. ASSUME act[a].trader = act[b].trader, act[a].rq # act[b].rq, act[a].result # "unknown"
        PROVE  \E c \in Actions \ {a} : act[c].rq = act[a].rq
                 /\ (act[c].trader # act[a].trader \/ act[c].result = "unknown")
    <3>1. act[a].pc # "waiting"
      BY <1>1, <1>14, <2>1, <2>2, <2>3, <2>5 DEF PairFits
    <3>2. act[a].pc \in OrderPcs /\ act[a].result \in OrderResults
      BY <1>1, ActFields
    <3>3. act[a].result \in {"order", "rejected", "noposition"}
      BY ONLY <1>14, <2>5, <3>1, <3>2 DEF PointFits, OrderPcs, OrderResults
    <3>4. ForwardedAt(a)
      BY <1>14, <3>3, act[a].frame = "admitted" DEF HeardFits
    <3>5. PICK c \in SameNumber(a) : Forwarded(c)
      BY <3>4 DEF ForwardedAt
    <3>6. c \in Actions \ {a} /\ act[c].rq = act[a].rq /\ PairFits(a, c) /\ act[c].frame # "refused"
      BY <1>14, <3>5 DEF SameNumber, OrdersInv, Forwarded
    <3>7. act[c].trader # act[a].trader \/ act[c].result = "unknown"
      BY ONLY <1>14, <2>5, <3>6, act[a].frame = "admitted" DEF PairFits
    <3> QED BY <3>6, <3>7
  <2>6. \E c \in Actions \ {a} :
          /\ act[c].rq >= act[a].rq
          /\ act[c].trader # act[a].trader \/ "unknown" \in {act[a].result, act[c].result}
    <3>1. CASE \/ act[a].trader # act[b].trader \/ act[a].rq = act[b].rq \/ act[a].result = "unknown"
      BY <1>1, <2>1, <2>2, <2>4, <3>1
    <3>2. CASE act[a].trader = act[b].trader /\ act[a].rq # act[b].rq /\ act[a].result # "unknown"
      BY <1>1, <2>5, <3>2
    <3> QED BY <3>1, <3>2
  <2>7. PICK c \in Actions \ {a} :
          /\ act[c].rq >= act[a].rq
          /\ act[c].trader # act[a].trader \/ "unknown" \in {act[a].result, act[c].result}
    BY <2>6
  <2>8. /\ act'[c].rq >= act'[a].rq
        /\ act'[c].trader # act'[a].trader \/ "unknown" \in {act'[a].result, act'[c].result}
    BY ONLY <1>4, <1>6, <2>7
  <2> QED BY <2>8 DEF VanishedFits
<1>22. StillFits'
  BY <1>4, <1>6, <1>7, <1>10, <1>11, StillStays
<1>23. act'[a].rq = act[a].rq /\ (act'[a].pc = "waiting" => act[a].pc = "waiting")
       /\ act[a].frame # "refused"
  BY <1>4, <1>6
<1> QED BY <1>7, <1>10, <1>11, <1>16, <1>17, <1>18, <1>19, <1>20, <1>21, <1>22, <1>23, PhoneKeeps
        DEF OrderFits

(* An order that Perpl puts on chain, as the first one of its number: what is sent of
   it to every socket that waits under that number is so. *)
LEMMA ForwardedKeeps ==
  ASSUME OrdersInv, NEW a \in Actions, act[a].frame = "admitted", act[a].rq > lfr, lfr' = act[a].rq,
         shown' = shown, turns' = turns, (\E kind \in Faults : Trouble(kind)) \/ Calm,
         position' \in 0..MaxSize,
         NEW frame \in {"executed", "failed"}, NEW n \in 0..MaxSize, n <= act[a].size,
         frame = "failed" => n = 0, n = 0 => position' = position,
         act' \in [Actions -> ActRecs], act'[a].frame = frame, act'[a].moved = n,
         \A b \in Actions :
           /\ act'[b].pc = act[b].pc /\ act'[b].trader = act[b].trader
           /\ act'[b].before = act[b].before /\ act'[b].size = act[b].size /\ act'[b].rq = act[b].rq
           /\ act'[b].failing = act[b].failing /\ act'[b].none = act[b].none
           /\ act'[b].filled = act[b].filled /\ act'[b].settled = act[b].settled
           /\ act'[b].result = act[b].result /\ act'[b].reads = act[b].reads
           /\ act'[b].told = act[b].told
           /\ act[b].emptied => act'[b].emptied
           /\ position' = 0 /\ act[b].pc # "idle" => act'[b].emptied,
         \A b \in Actions \ {a} : act'[b].frame = act[b].frame /\ act'[b].moved = act[b].moved,
         NEW messages \in Seq(Messages), messages # <<>>, Posts(Listening(a), messages),
         \A i \in DOMAIN messages :
           /\ \/ messages[i].is = "done" /\ frame = "executed" /\ messages[i].filled = n
              \/ messages[i].is = "failed"
           /\ messages[i].none => position' = 0,
         frame = "executed" => messages[Len(messages)].is = "done"
  PROVE  OrdersInv'
<1> DEFINE Same(b) ==
             /\ act'[b].pc = act[b].pc /\ act'[b].trader = act[b].trader
             /\ act'[b].before = act[b].before /\ act'[b].size = act[b].size /\ act'[b].rq = act[b].rq
             /\ act'[b].failing = act[b].failing /\ act'[b].none = act[b].none
             /\ act'[b].filled = act[b].filled /\ act'[b].settled = act[b].settled
             /\ act'[b].result = act[b].result /\ act'[b].reads = act[b].reads
             /\ act'[b].told = act[b].told
             /\ act[b].emptied => act'[b].emptied
             /\ position' = 0 /\ act[b].pc # "idle" => act'[b].emptied
<1>1. \A b \in Actions : Same(b)
  OBVIOUS
<1>2. \A b \in Actions \ {a} : act'[b].frame = act[b].frame /\ act'[b].moved = act[b].moved
  OBVIOUS
<1>3. act'[a].frame = frame /\ act'[a].moved = n /\ frame \in {"executed", "failed"}
      /\ act[a].frame = "admitted"
  OBVIOUS
<1>4. /\ act \in [Actions -> ActRecs] /\ inbox \in [Actions -> Seq(Messages)] /\ OrdersTypeOK
      /\ lfr \in Nat /\ act[a].rq \in Nat
  BY AtTurn
<1>5. \A b \in Actions : /\ OrderFits(b) /\ act[b].rq \in Nat /\ inbox[b] \in Seq(Messages)
                         /\ act[b].moved \in Nat
  BY AtTurn
<1>6. lfr' = act[a].rq /\ lfr' > lfr /\ lfr' \in Nat
  BY <1>4
<1>7. happened' \subseteq Faults /\ troubles' \in 0..MaxTroubles /\ happened \subseteq happened'
  BY <1>4, TroublesAreCounted
<1>8. \A c \in Actions : Forwarded(c) => act[c].rq # 0 /\ act[c].rq <= lfr /\ c # a /\ act[c].rq # act[a].rq
  <2> SUFFICES ASSUME NEW c \in Actions, Forwarded(c)
               PROVE  act[c].rq # 0 /\ act[c].rq <= lfr /\ c # a /\ act[c].rq # act[a].rq
    OBVIOUS
  <2>1. act[c].rq # 0 /\ act[c].rq <= lfr /\ act[c].rq \in Nat
    BY ExecutedIsForwarded
  <2> QED BY <1>4, <2>1 DEF Forwarded
<1>9. ~Executed(a) /\ ~Forwarded(a) /\ act[a].moved = 0 /\ act[a].rq > 0
  BY <1>3, <1>5 DEF OrderFits, PointFits, Executed, Forwarded
<1>10. \A c \in Actions \ {a} : (Executed(c)' <=> Executed(c)) /\ (Forwarded(c)' <=> Forwarded(c))
  BY ONLY <1>2 DEF Executed, Forwarded
<1>11. Forwarded(a)' /\ (frame = "executed" => Executed(a)')
  BY ONLY <1>3 DEF Executed, Forwarded
<1>12. NumbersStay
  <2> SUFFICES ASSUME NEW c \in Actions
               PROVE  /\ act[c].rq # 0 => act'[c].rq = act[c].rq
                      /\ Executed(c) => Executed(c)' /\ act'[c].moved = act[c].moved
                      /\ Forwarded(c) => Forwarded(c)'
                      /\ Forwarded(c) => act[c].rq # 0
    BY DEF NumbersStay
  <2>1. CASE c = a
    BY ONLY <1>1, <1>9, <1>11, <2>1
  <2>2. CASE c # a
    BY ONLY <1>1, <1>2, <1>8, <1>10, <2>2
  <2> QED BY <2>1, <2>2
<1>13. \A b \in Actions : SharesNumber(b)' <=> SharesNumber(b)
  BY ONLY <1>1 DEF SharesNumber
<1>14. ASSUME NEW b \in Actions
       PROVE  /\ \A k : FilledAt(b, k) => FilledAt(b, k)'
              /\ ForwardedAt(b) => ForwardedAt(b)'
  BY <1>12, NumbersGrow
<1>15. ASSUME NEW b \in Actions, act[b].rq = act[a].rq
       PROVE  ForwardedAt(b)' /\ (frame = "executed" => FilledAt(b, n)')
  <2>1. a \in SameNumber(b)'
    BY ONLY <1>1, <1>15, a \in Actions DEF SameNumber
  <2> QED BY ONLY <1>3, <1>11, <2>1 DEF ForwardedAt, FilledAt
<1>16. /\ inbox' \in [Actions -> Seq(Messages)]
       /\ \A b \in Actions : \/ inbox'[b] = inbox[b] /\ b \notin Listening(a)
                             \/ b \in Listening(a) /\ inbox'[b] = inbox[b] \o messages
  <2>1. inbox' = [b \in Actions |-> IF b \in Listening(a) THEN inbox[b] \o messages ELSE inbox[b]]
    BY DEF Posts
  <2>2. \A b \in Actions : inbox[b] \o messages \in Seq(Messages)
    BY <1>4
  <2> QED BY ONLY <1>4, <2>1, <2>2
<1>17. \A b \in Listening(a) : b \in Actions /\ act[b].pc = "waiting" /\ act[b].rq = act[a].rq
  BY DEF Listening
<1>18. OrdersTypeOK'
  <2>1. shown' \in 0..MaxSize /\ turns' \in [Traders -> Seq(Actions)]
    BY <1>4, OrdersTypes
  <2> QED BY <1>6, <1>7, <1>16, <2>1, OrdersTypesNext
<1> HIDE DEF Same
<1>19. ASSUME NEW b \in Actions
       PROVE  PointFits(b)' /\ NumberFits(b)'
  <2>1. PointFits(b) /\ NumberFits(b) /\ Same(b) /\ act[b].rq \in Nat
    BY <1>1, <1>5 DEF OrderFits
  <2>2. act[b].pc # "waiting" => inbox'[b] = inbox[b]
    BY <1>16, <1>17
  <2>3. Turn(b) => Turn(b)'
    <3>1. turns' = turns /\ act'[b].trader = act[b].trader
      BY <2>1 DEF Same
    <3> QED BY ONLY <3>1 DEF Turn
  <2>4. /\ (act'[b].frame # "none" <=> act'[b].rq > 0) /\ act'[b].moved <= act'[b].size
        /\ act'[b].frame # "executed" => act'[b].moved = 0
        /\ act[b].frame # "none" => act'[b].frame # "none"
        /\ act[b].frame = "none" => act'[b].frame = "none"
    <3>1. CASE b = a
      BY ONLY <1>3, <1>9, <2>1, <3>1, n <= act[a].size, frame = "failed" => n = 0 DEF Same
    <3>2. CASE b # a
      BY ONLY <1>2, <2>1, <3>2 DEF Same, PointFits
    <3> QED BY <3>1, <3>2
  <2>5. PointFits(b)'
    BY ONLY <2>1, <2>2, <2>3, <2>4 DEF PointFits, Same
  <2>6. NumberFits(b)'
    <3>1. act'[b].rq <= lfr' + 1
      BY ONLY <1>4, <1>6, <2>1 DEF NumberFits, Same
    <3>2. act'[b].frame \in {"executed", "failed", "vanished"} => act'[b].rq <= lfr'
      <4>1. CASE b = a
        BY ONLY <1>4, <1>6, <2>1, <4>1 DEF Same
      <4>2. CASE b # a
        BY ONLY <1>2, <1>4, <1>6, <2>1, <4>2 DEF NumberFits, Same
      <4> QED BY <4>1, <4>2
    <3> QED BY <3>1, <3>2 DEF NumberFits
  <2> QED BY <2>5, <2>6
<1>20. ASSUME NEW b \in Actions, NEW i \in DOMAIN inbox'[b]
       PROVE  \/ i \in DOMAIN inbox[b] /\ inbox'[b][i] = inbox[b][i]
              \/ \E j \in DOMAIN messages : b \in Listening(a) /\ inbox'[b][i] = messages[j]
  <2>1. inbox[b] \in Seq(Messages)
    BY <1>5
  <2>2. CASE inbox'[b] = inbox[b]
    BY <1>20, <2>2
  <2>3. CASE b \in Listening(a) /\ inbox'[b] = inbox[b] \o messages
    <3>1. \/ i \in DOMAIN inbox[b] /\ inbox'[b][i] = inbox[b][i]
          \/ /\ i - Len(inbox[b]) \in DOMAIN messages
             /\ inbox'[b][i] = messages[i - Len(inbox[b])]
      BY ONLY <1>20, <2>1, <2>3, messages \in Seq(Messages), JoinedParts
    <3> QED BY ONLY <2>3, <3>1
  <2> QED BY <1>16, <2>2, <2>3
<1>21. ASSUME NEW b \in Actions
       PROVE  HeardFits(b)'
  <2>1. HeardFits(b) /\ PointFits(b) /\ Same(b)
    BY <1>1, <1>5 DEF OrderFits
  <2>2. act[b].frame = "refused" => act'[b].frame = "refused"
    BY <1>2, <1>3
  <2>3. ASSUME NEW i \in DOMAIN inbox'[b]
        PROVE  MessageFits(b, inbox[b][i])'
    <3>1. CASE i \in DOMAIN inbox[b] /\ inbox'[b][i] = inbox[b][i]
      <4>1. MessageFits(b, inbox[b][i])
        BY <2>1, <3>1 DEF HeardFits
      <4> QED BY ONLY <1>14, <2>1, <2>2, <3>1, <4>1, b \in Actions DEF MessageFits, Same
    <3>2. CASE \E j \in DOMAIN messages : b \in Listening(a) /\ inbox'[b][i] = messages[j]
      <4>1. PICK j \in DOMAIN messages : b \in Listening(a) /\ inbox'[b][i] = messages[j]
        BY <3>2
      <4>2. act[b].pc = "waiting" /\ ForwardedAt(b)' /\ (frame = "executed" => FilledAt(b, n)')
        BY <1>15, <1>17, <4>1
      <4>3. position' = 0 => act'[b].emptied
        BY <2>1, <4>2 DEF Same
      <4>4. /\ \/ messages[j].is = "done" /\ frame = "executed" /\ messages[j].filled = n
               \/ messages[j].is = "failed"
            /\ messages[j].none => position' = 0
        BY <4>1
      <4>5. PICK m : m = messages[j]
        OBVIOUS
      <4>6. MessageFits(b, m)'
        BY ONLY <4>2, <4>3, <4>4, <4>5 DEF MessageFits
      <4>7. m = inbox'[b][i]
        BY <4>1, <4>5
      <4> QED BY ONLY <4>6, <4>7 DEF MessageFits, FilledAt
    <3> QED BY <1>20, <2>3, <3>1, <3>2
  <2>4. FilledAt(b, act[b].filled) => FilledAt(b, act[b].filled)'
    <3>1. PICK k : k = act[b].filled
      OBVIOUS
    <3>2. FilledAt(b, k) => FilledAt(b, k)'
      BY <1>14
    <3>3. k = act'[b].filled
      BY <2>1, <3>1 DEF Same
    <3> QED BY ONLY <3>1, <3>2, <3>3 DEF FilledAt
  <2>5. ForwardedAt(b) => ForwardedAt(b)'
    BY <1>14
  <2> QED BY ONLY <2>1, <2>2, <2>3, <2>4, <2>5 DEF HeardFits, Same
<1>22. ASSUME NEW b \in Actions
       PROVE  FailureFits(b)'
  <2>1. FailureFits(b) /\ PointFits(b) /\ HeardFits(b) /\ Same(b) /\ (SharesNumber(b)' <=> SharesNumber(b))
    BY <1>1, <1>5, <1>13 DEF OrderFits
  <2>2. CASE SharesNumber(b)
    BY <2>1, <2>2 DEF FailureFits
  <2>3. CASE ~SharesNumber(b) /\ b # a
    <3>1. b \notin Listening(a)
      BY <1>9, <1>17, <2>3 DEF SharesNumber
    <3>2. inbox'[b] = inbox[b] /\ act'[b].frame = act[b].frame
      BY <1>2, <1>16, <2>3, <3>1
    <3> QED BY ONLY <1>7, <2>1, <3>2 DEF FailureFits, FillIsComing, Same
  <2>4. CASE ~SharesNumber(b) /\ b = a
    <3>1. ~ForwardedAt(a)
      BY <1>9, <2>4, Unshared
    <3>2. act[a].result = "rejected" => "late" \in happened'
      BY ONLY <1>3, <1>7, <2>1, <2>4 DEF FailureFits
    <3>3. CASE a \in Listening(a)
      <4>1. inbox'[a] = inbox[a] \o messages
        BY <1>16, <3>3
      <4>2. inbox'[a] # <<>> /\ inbox'[a][Len(inbox'[a])] = messages[Len(messages)]
        BY <1>5, <4>1, JoinedParts
      <4>3. act'[a].frame = "failed" \/ FillIsComing(a)'
        BY ONLY <1>3, <4>2, frame = "executed" => messages[Len(messages)].is = "done" DEF FillIsComing
      <4>4. act'[a].result = "rejected" => "late" \in happened'
        BY <1>1, <3>2 DEF Same
      <4> QED BY ONLY <2>4, <4>3, <4>4 DEF FailureFits
    <3>4. CASE a \notin Listening(a)
      <4>1. act[a].pc # "waiting"
        BY <3>4 DEF Listening
      <4>2. inbox'[a] = <<>> /\ act'[a].pc # "waiting"
        BY <1>1, <1>16, <2>1, <2>4, <3>4, <4>1 DEF PointFits, Same
      <4>3. act'[a].result = "rejected" => "late" \in happened'
        BY <1>1, <3>2 DEF Same
      <4> QED BY ONLY <2>4, <4>2, <4>3 DEF FailureFits
    <3> QED BY <3>3, <3>4
  <2> QED BY <2>2, <2>3, <2>4
<1>23. \A b \in Actions : act[b].moved > 0 => act'[b].moved > 0
  BY <1>2, <1>9
<1>24. ASSUME NEW b \in Actions
       PROVE  ToldOrderFits(b)'
  <2>1. ToldOrderFits(b) /\ Same(b) /\ (SharesNumber(b)' <=> SharesNumber(b))
    BY <1>1, <1>5, <1>13 DEF OrderFits
  <2>2. Executed(b) => Executed(b)' /\ act'[b].moved = act[b].moved
    BY <1>12 DEF NumbersStay
  <2>3. act[b].frame \in {"refused", "failed"} => act'[b].frame = act[b].frame
    BY <1>2, <1>3
  <2>4. (\E c \in Actions : act[c].moved > 0) => \E c \in Actions : act'[c].moved > 0
    BY <1>23
  <2> QED BY ONLY <1>7, <2>1, <2>2, <2>3, <2>4 DEF ToldOrderFits, Same
<1>25. ASSUME NEW b \in Actions
       PROVE  VanishedFits(b)'
  <2>1. VanishedFits(b) /\ (act'[b].frame = "vanished" => act[b].frame = "vanished")
    BY <1>2, <1>3, <1>5 DEF OrderFits
  <2> QED BY ONLY <1>1, <2>1, b \in Actions DEF VanishedFits, Same
<1>26. \A b \in Actions : OrderFits(b)'
  BY <1>19, <1>21, <1>22, <1>24, <1>25 DEF OrderFits
<1>27. ASSUME NEW b \in Actions, NEW c \in Actions, b # c
       PROVE  PairFits(b, c)'
  <2>1. PairFits(b, c) /\ Same(b) /\ Same(c)
    BY <1>1, <1>27 DEF OrdersInv
  <2>2. /\ act[b].frame = "refused" => act'[b].frame = "refused"
        /\ act[c].frame = "refused" => act'[c].frame = "refused"
    BY <1>2, <1>3
  <2> QED BY ONLY <2>1, <2>2 DEF PairFits, Same
<1>28. StillFits'
  <2>1. CASE \E b \in Actions : act[b].moved > 0
    <3>1. PICK b \in Actions : act'[b].moved > 0
      BY <1>23, <2>1
    <3> QED BY <3>1 DEF StillFits
  <2>2. CASE ~\E b \in Actions : act[b].moved > 0
    <3>1. \A b \in Actions : act[b].moved = 0
      BY <1>5, <2>2
    <3>2. shown = position /\ \A b \in Actions : act[b].pc # "idle" => act[b].before = position
      BY <3>1 DEF OrdersInv, StillFits
    <3>3. CASE n = 0
      <4>1. position' = position /\ shown' = shown
        BY <3>3
      <4>2. \A b \in Actions : act'[b].pc # "idle" => act'[b].before = position
        BY ONLY <1>1, <3>2 DEF Same
      <4> QED BY <3>2, <4>1, <4>2 DEF StillFits
    <3>4. CASE n # 0
      BY <1>3, <3>4 DEF StillFits
    <3> QED BY <3>3, <3>4
  <2> QED BY <2>1, <2>2
<1>29. LastFits'
  <2>1. act'[a].rq = lfr'
    BY <1>1, <1>6 DEF Same
  <2> QED BY <1>11, <2>1 DEF LastFits
<1>30. ASSUME NEW b \in Actions, NEW c \in Actions, Executed(b)', Executed(c)', act'[b].rq = act'[c].rq
       PROVE  b = c
  <2>1. act[b].rq = act[c].rq
    BY <1>1, <1>30 DEF Same
  <2>2. CASE b # a /\ c # a
    <3>1. Executed(b) /\ Executed(c)
      BY <1>10, <1>30, <2>2
    <3> QED BY <2>1, <3>1 DEF OrdersInv
  <2>3. CASE b = a \/ c = a
    <3>1. b # a => Forwarded(b)
      BY <1>10, <1>30, ExecutedIsForwarded
    <3>2. c # a => Forwarded(c)
      BY <1>10, <1>30, ExecutedIsForwarded
    <3> QED BY ONLY <1>8, <2>1, <2>3, <3>1, <3>2, b \in Actions, c \in Actions
  <2> QED BY <2>2, <2>3
<1> QED BY <1>18, <1>26, <1>27, <1>28, <1>29, <1>30 DEF OrdersInv

LEMMA ForwardsKeeps ==
  ASSUME OrdersInv, NEW a \in Actions, Forwards(a)
  PROVE  OrdersInv'
<1>1. /\ act \in [Actions -> ActRecs] /\ act[a] \in ActRecs /\ act[a].rq \in Nat /\ lfr \in Nat
      /\ OrdersTypeOK /\ position \in 0..MaxSize /\ MaxSize \in Nat
      /\ \A b \in Actions : /\ OrderFits(b) /\ act[b] \in ActRecs /\ act[b].size \in 0..MaxSize
                            /\ act[b].emptied \in BOOLEAN
  BY AtTurn, ActFields, OrdersTypes
<1>2. act[a].frame = "admitted" /\ shown' = shown /\ turns' = turns
  BY DEF Forwards
<1>3. CASE act[a].rq <= lfr
  <2>1. /\ act' = [act EXCEPT ![a].frame = "vanished"]
        /\ UNCHANGED <<position, shown, lfr, turns, inbox, happened, troubles>>
    BY <1>3 DEF Forwards, Calm
  <2> QED BY <1>2, <1>3, <2>1, VanishesKeeps
<1>4. ASSUME ~(act[a].rq <= lfr), NEW n \in Fills(a),
             position' = IF act[a].kind = "open" THEN position + n ELSE position - n,
             act' = [b \in Actions |-> IF b = a
                       THEN [act[a] EXCEPT !.frame = "executed", !.moved = n,
                                           !.emptied = @ \/ position' = 0]
                       ELSE [act[b] EXCEPT !.emptied = @ \/ position' = 0]],
             \/ Calm /\ Posts(Listening(a), <<Message("done", n, FALSE)>>)
             \/ /\ Trouble("contradicted")
                /\ Posts(Listening(a), <<Message("failed", 0, FALSE), Message("done", n, FALSE)>>),
             lfr' = act[a].rq
      PROVE  OrdersInv'
  <2>1. n \in 0..MaxSize /\ n <= act[a].size /\ position' \in 0..MaxSize /\ (n = 0 => position' = position)
    BY <1>1, <1>4 DEF Fills
  <2> DEFINE e(b) == act[b].emptied \/ position' = 0
             r(b) == IF b = a THEN [act[a] EXCEPT !.frame = "executed", !.moved = n, !.emptied = e(a)]
                     ELSE [act[b] EXCEPT !.emptied = e(b)]
  <2>2. act' = [b \in Actions |-> r(b)]
    BY <1>4
  <2>3. \A b \in Actions : /\ e(b) \in BOOLEAN /\ (act[b].emptied => e(b))
                           /\ position' = 0 => e(b)
    BY <1>1
  <2> HIDE DEF e
  <2>4. ASSUME NEW b \in Actions
        PROVE  /\ r(b) \in ActRecs /\ r(b).emptied = e(b)
               /\ r(b).pc = act[b].pc /\ r(b).trader = act[b].trader
               /\ r(b).before = act[b].before /\ r(b).size = act[b].size /\ r(b).rq = act[b].rq
               /\ r(b).failing = act[b].failing /\ r(b).none = act[b].none
               /\ r(b).filled = act[b].filled /\ r(b).settled = act[b].settled
               /\ r(b).result = act[b].result /\ r(b).reads = act[b].reads
               /\ r(b).told = act[b].told
               /\ b # a => r(b).frame = act[b].frame /\ r(b).moved = act[b].moved
               /\ b = a => r(b).frame = "executed" /\ r(b).moved = n
    <3>1. act[b] \in ActRecs /\ e(b) \in BOOLEAN
      BY <1>1, <2>3
    <3>2. CASE b = a
      <4>1. PICK q : q = [act[b] EXCEPT !.frame = "executed", !.moved = n, !.emptied = e(b)]
        OBVIOUS
      <4>2. q \in ActRecs
        BY ONLY <2>1, <3>1, <4>1 DEF ActRecs, Frames
      <4>3. /\ q.emptied = e(b) /\ q.pc = act[b].pc /\ q.trader = act[b].trader
            /\ q.before = act[b].before /\ q.size = act[b].size /\ q.rq = act[b].rq
            /\ q.failing = act[b].failing /\ q.none = act[b].none
            /\ q.filled = act[b].filled /\ q.settled = act[b].settled
            /\ q.result = act[b].result /\ q.reads = act[b].reads
            /\ q.told = act[b].told /\ q.frame = "executed" /\ q.moved = n
        BY ONLY <3>1, <4>1 DEF ActRecs
      <4>4. r(b) = q
        BY ONLY <3>2, <4>1
      <4> HIDE DEF r
      <4> QED BY ONLY <3>2, <4>2, <4>3, <4>4
    <3>3. CASE b # a
      <4>1. PICK q : q = [act[b] EXCEPT !.emptied = e(b)]
        OBVIOUS
      <4>2. q \in ActRecs
        BY ONLY <3>1, <4>1 DEF ActRecs
      <4>3. /\ q.emptied = e(b) /\ q.pc = act[b].pc /\ q.trader = act[b].trader
            /\ q.before = act[b].before /\ q.size = act[b].size /\ q.rq = act[b].rq
            /\ q.failing = act[b].failing /\ q.none = act[b].none
            /\ q.filled = act[b].filled /\ q.settled = act[b].settled
            /\ q.result = act[b].result /\ q.reads = act[b].reads
            /\ q.told = act[b].told /\ q.frame = act[b].frame /\ q.moved = act[b].moved
        BY ONLY <3>1, <4>1 DEF ActRecs
      <4>4. r(b) = q
        BY ONLY <3>3, <4>1
      <4> HIDE DEF r
      <4> QED BY ONLY <3>3, <4>2, <4>3, <4>4
    <3> QED BY <3>2, <3>3
  <2> HIDE DEF r
  <2>5. act' \in [Actions -> ActRecs] /\ \A b \in Actions : act'[b] = r(b)
    BY ONLY <2>2, <2>4
  <2>6. \A b \in Actions :
           /\ act'[b].pc = act[b].pc /\ act'[b].trader = act[b].trader
           /\ act'[b].before = act[b].before /\ act'[b].size = act[b].size /\ act'[b].rq = act[b].rq
           /\ act'[b].failing = act[b].failing /\ act'[b].none = act[b].none
           /\ act'[b].filled = act[b].filled /\ act'[b].settled = act[b].settled
           /\ act'[b].result = act[b].result /\ act'[b].reads = act[b].reads
           /\ act'[b].told = act[b].told
           /\ act[b].emptied => act'[b].emptied
           /\ position' = 0 /\ act[b].pc # "idle" => act'[b].emptied
    BY ONLY <2>3, <2>4, <2>5
  <2>7. /\ \A b \in Actions \ {a} : act'[b].frame = act[b].frame /\ act'[b].moved = act[b].moved
        /\ act'[a].frame = "executed" /\ act'[a].moved = n
    BY ONLY <2>4, <2>5, a \in Actions
  <2> DEFINE done == Message("done", n, FALSE)
             failed == Message("failed", 0, FALSE)
  <2>8. /\ done \in Messages /\ done.is = "done" /\ done.filled = n /\ ~done.none
        /\ failed \in Messages /\ failed.is = "failed" /\ ~failed.none
    BY <1>1, <2>1 DEF Message, Messages
  <2> HIDE DEF done, failed
  <2>9. PICK messages : /\ messages = <<done>> \/ messages = <<failed, done>>
                        /\ Posts(Listening(a), messages)
    BY <1>4 DEF done, failed
  <2>10. /\ messages \in Seq(Messages) /\ messages # <<>> /\ messages[Len(messages)] = done
         /\ \A i \in DOMAIN messages : messages[i] \in {done, failed}
    <3>1. CASE messages = <<done>>
      BY ONLY <2>8, <3>1
    <3>2. CASE messages = <<failed, done>>
      <4>1. Len(messages) = 2 /\ messages[2] = done /\ messages[1] = failed /\ DOMAIN messages = 1..2
        BY ONLY <3>2
      <4>2. messages \in Seq(Messages) /\ messages # <<>>
        BY ONLY <2>8, <3>2
      <4> QED BY ONLY <4>1, <4>2
    <3> QED BY <2>9, <3>1, <3>2
  <2>11. /\ \A i \in DOMAIN messages :
              /\ \/ messages[i].is = "done" /\ "executed" = "executed" /\ messages[i].filled = n
                 \/ messages[i].is = "failed"
              /\ messages[i].none => position' = 0
         /\ messages[Len(messages)].is = "done"
    BY ONLY <2>8, <2>10
  <2>12. (\E kind \in Faults : Trouble(kind)) \/ Calm
    BY <1>4 DEF Trouble
  <2>13. act[a].rq > lfr
    BY <1>1, <1>4
  <2> DEFINE frame == "executed"
  <2>14. /\ frame \in {"executed", "failed"} /\ (frame = "failed" => n = 0) /\ act'[a].frame = frame
         /\ \A i \in DOMAIN messages :
              /\ \/ messages[i].is = "done" /\ frame = "executed" /\ messages[i].filled = n
                 \/ messages[i].is = "failed"
              /\ messages[i].none => position' = 0
         /\ frame = "executed" => messages[Len(messages)].is = "done"
    BY <2>7, <2>11
  <2> HIDE DEF frame
  <2> QED BY ONLY OrdersInv, a \in Actions, lfr' = act[a].rq, <1>2, <1>4, <2>1, <2>5, <2>6, <2>7, <2>9, <2>10,
                  <2>12, <2>13, <2>14, ForwardedKeeps
<1>5. ASSUME ~(act[a].rq <= lfr), NEW none \in BOOLEAN, none => position = 0,
             (\E kind \in Faults : Trouble(kind)) \/ Calm,
             act' = [act EXCEPT ![a].frame = "failed"],
             Posts(Listening(a), <<Message("failed", 0, none)>>),
             position' = position, lfr' = act[a].rq
      PROVE  OrdersInv'
  <2>1. PICK q : q = [act[a] EXCEPT !.frame = "failed"]
    OBVIOUS
  <2>2. q \in ActRecs
    BY ONLY <1>1, <2>1 DEF ActRecs, Frames
  <2>3. /\ q.pc = act[a].pc /\ q.before = act[a].before /\ q.emptied = act[a].emptied
        /\ q.result = act[a].result
        /\ q.trader = act[a].trader /\ q.filled = act[a].filled
        /\ q.size = act[a].size /\ q.rq = act[a].rq /\ q.frame = "failed" /\ q.told = act[a].told
        /\ q.moved = act[a].moved /\ q.failing = act[a].failing /\ q.none = act[a].none
        /\ q.settled = act[a].settled /\ q.reads = act[a].reads
    BY ONLY <1>1, <2>1 DEF ActRecs
  <2>4. act' = [act EXCEPT ![a] = q]
    BY ONLY <1>1, <1>5, <2>1
  <2>5. act' \in [Actions -> ActRecs] /\ act'[a] = q /\ \A b \in Actions \ {a} : act'[b] = act[b]
    BY ONLY <1>1, <2>2, <2>4, a \in Actions
  <2>6. \A b \in Actions : position' = 0 /\ act[b].pc # "idle" => act[b].emptied
    BY <1>1, <1>5 DEF OrderFits, PointFits
  <2>7. \A b \in Actions :
           /\ act'[b].pc = act[b].pc /\ act'[b].trader = act[b].trader
           /\ act'[b].before = act[b].before /\ act'[b].size = act[b].size /\ act'[b].rq = act[b].rq
           /\ act'[b].failing = act[b].failing /\ act'[b].none = act[b].none
           /\ act'[b].filled = act[b].filled /\ act'[b].settled = act[b].settled
           /\ act'[b].result = act[b].result /\ act'[b].reads = act[b].reads
           /\ act'[b].told = act[b].told
           /\ act[b].emptied => act'[b].emptied
           /\ position' = 0 /\ act[b].pc # "idle" => act'[b].emptied
    BY ONLY <2>3, <2>5, <2>6
  <2> DEFINE n == 0
             frame == "failed"
             failed == Message("failed", 0, none)
             messages == <<failed>>
  <2>8. act[a].moved = 0
    BY <1>1, <1>2 DEF OrderFits, PointFits
  <2>9. /\ \A b \in Actions \ {a} : act'[b].frame = act[b].frame /\ act'[b].moved = act[b].moved
        /\ act'[a].frame = frame /\ act'[a].moved = n
    BY ONLY <2>3, <2>5, <2>8, a \in Actions
  <2>10. failed \in Messages /\ failed.is = "failed" /\ failed.none = none
    BY <1>1, <1>5 DEF Message, Messages
  <2> HIDE DEF failed
  <2>11. /\ messages \in Seq(Messages) /\ messages # <<>>
         /\ \A i \in DOMAIN messages : messages[i] = failed
    BY ONLY <2>10
  <2>12. Posts(Listening(a), messages)
    BY <1>5 DEF failed
  <2>13. act[a].rq > lfr /\ position' \in 0..MaxSize /\ n \in 0..MaxSize /\ n <= act[a].size
         /\ frame \in {"executed", "failed"} /\ (frame = "failed" => n = 0) /\ (n = 0 => position' = position)
    BY <1>1, <1>5
  <2>14. frame # "executed"
    OBVIOUS
  <2> HIDE DEF messages, n, frame
  <2>15. /\ \A i \in DOMAIN messages :
              /\ \/ messages[i].is = "done" /\ frame = "executed" /\ messages[i].filled = n
                 \/ messages[i].is = "failed"
              /\ messages[i].none => position' = 0
         /\ frame = "executed" => messages[Len(messages)].is = "done"
    BY ONLY <1>5, <2>10, <2>11, <2>14
  <2>16. lfr' = act[a].rq /\ ((\E kind \in Faults : Trouble(kind)) \/ Calm)
    BY <1>5
  <2> QED BY ONLY OrdersInv, a \in Actions, <1>2, <2>5, <2>7, <2>9, <2>11, <2>12, <2>13, <2>15, <2>16,
                  ForwardedKeeps
<1>6. CASE ~(act[a].rq <= lfr)
  <2>1. lfr' = act[a].rq
    BY <1>6 DEF Forwards
  <2>2. CASE \E n \in Fills(a) :
               /\ position' = IF act[a].kind = "open" THEN position + n ELSE position - n
               /\ act' = [b \in Actions |-> IF b = a
                       THEN [act[a] EXCEPT !.frame = "executed", !.moved = n,
                                           !.emptied = @ \/ position' = 0]
                       ELSE [act[b] EXCEPT !.emptied = @ \/ position' = 0]]
               /\ \/ Calm /\ Posts(Listening(a), <<Message("done", n, FALSE)>>)
                  \/ /\ Trouble("contradicted")
                     /\ Posts(Listening(a), <<Message("failed", 0, FALSE), Message("done", n, FALSE)>>)
    BY <1>4, <1>6, <2>1, <2>2
  <2> DEFINE none == act[a].kind = "close" /\ position = 0
  <2>3. CASE /\ IF none THEN Calm ELSE Trouble("failed")
             /\ act' = [act EXCEPT ![a].frame = "failed"]
             /\ Posts(Listening(a), <<Message("failed", 0, none)>>)
             /\ UNCHANGED position
    <3>1. (\E kind \in Faults : Trouble(kind)) \/ Calm
      BY <2>3 DEF Trouble
    <3>2. none \in BOOLEAN /\ (none => position = 0)
      OBVIOUS
    <3> HIDE DEF none
    <3> QED BY <1>5, <1>6, <2>1, <2>3, <3>1, <3>2
  <2> QED BY <1>6, <2>2, <2>3 DEF Forwards
<1> QED BY <1>3, <1>6

-------------------------------------------------------------------------------
LEMMA OrdersInitially == OrdersInit => OrdersInv
<1> SUFFICES ASSUME OrdersInit PROVE OrdersInv
  OBVIOUS
<1>1. PICK kind \in [Actions -> OrderKinds], trader \in [Actions -> Traders] :
        act = [a \in Actions |->
         [kind |-> kind[a], trader |-> trader[a], pc |-> "idle", before |-> 0, size |-> 0,
          rq |-> 0, frame |-> "none", moved |-> 0, admitted |-> FALSE, failing |-> FALSE,
          none |-> FALSE, filled |-> 0, settled |-> FALSE, result |-> "none", reads |-> 0,
          told |-> "nothing", emptied |-> FALSE]]
  BY DEF OrdersInit
<1>2. /\ position \in 0..1 /\ shown = position /\ lfr = 0
      /\ turns = [t \in Traders |-> <<>>] /\ inbox = [a \in Actions |-> <<>>]
      /\ happened = {} /\ troubles = 0
  BY DEF OrdersInit
<1>3. {MaxSize, MaxReads, MaxTroubles} \subseteq Nat /\ MaxSize > 0
  BY OrdersAssumption
<1>4. \A a \in Actions : act[a] \in ActRecs
  BY ONLY <1>1, <1>3 DEF ActRecs, OrderPcs, Frames, OrderResults, Told
<1>5. OrdersTypeOK
  <2>1. act \in [Actions -> ActRecs]
    BY ONLY <1>1, <1>4
  <2>2. inbox \in [Actions -> Seq(Messages)] /\ turns \in [Traders -> Seq(Actions)]
    BY <1>2
  <2> QED BY <1>2, <1>3, <2>1, <2>2, OrdersTypes
<1>6. \A a \in Actions :
        /\ act[a].pc = "idle" /\ act[a].rq = 0 /\ act[a].frame = "none" /\ act[a].moved = 0
        /\ act[a].size = 0 /\ act[a].filled = 0 /\ act[a].result = "none" /\ act[a].reads = 0
        /\ ~act[a].failing /\ ~act[a].settled /\ ~act[a].none
        /\ inbox[a] = <<>> /\ act[a].told = "nothing"
  BY ONLY <1>1, <1>2
<1>7. ASSUME NEW a \in Actions
      PROVE  OrderFits(a)
  BY ONLY <1>2, <1>6, a \in Actions
     DEF OrderFits, PointFits, NumberFits, HeardFits, FailureFits, ToldOrderFits, VanishedFits
<1>8. StillFits /\ LastFits
  BY <1>2, <1>6 DEF StillFits, LastFits
<1>9. /\ \A a, b \in Actions : a # b => PairFits(a, b)
      /\ \A a, b \in Actions : Executed(a) /\ Executed(b) /\ act[a].rq = act[b].rq => a = b
  BY <1>6 DEF PairFits, Executed
<1> QED BY <1>5, <1>7, <1>8, <1>9 DEF OrdersInv

(* What the screen says of an order is what became of it, and no number executes
   twice: perpReconcile.ts and trading.ts, for any number of actions and traders. *)
THEOREM OrdersStayTrue == OrdersSpec => []OrdersAreTrue
<1>1. OrdersInit => OrdersInv
  BY OrdersInitially
<1>2. OrdersInv /\ [OrdersNext]_ordersVars => OrdersInv'
  <2> SUFFICES ASSUME OrdersInv, [OrdersNext]_ordersVars PROVE OrdersInv'
    OBVIOUS
  <2>1. CASE UNCHANGED ordersVars
    <3>1. /\ shown' = shown /\ position' = position /\ lfr' = lfr /\ turns' = turns /\ act' = act
          /\ inbox' = inbox /\ happened' = happened /\ troubles' = troubles
      BY <2>1 DEF ordersVars
    <3>2. OrdersTypeOK'
      BY <3>1, OrdersTypes, OrdersTypesNext DEF OrdersInv
    <3>3. ASSUME NEW a \in Actions
          PROVE  OrderFits(a)'
      <4>1. OrderFits(a)
        BY DEF OrdersInv
      <4>2. PointFits(a)' /\ NumberFits(a)'
        BY ONLY <3>1, <4>1 DEF OrderFits, PointFits, NumberFits, Turn
      <4>3. HeardFits(a)' /\ FailureFits(a)'
        BY ONLY <3>1, <4>1 DEF OrderFits, HeardFits, FailureFits, MessageFits, FilledAt, ForwardedAt,
                               SameNumber, Executed, Forwarded, FillIsComing, SharesNumber
      <4>4. ToldOrderFits(a)' /\ VanishedFits(a)'
        BY ONLY <3>1, <4>1 DEF OrderFits, ToldOrderFits, VanishedFits, Executed, SharesNumber
      <4> QED BY <4>2, <4>3, <4>4 DEF OrderFits
    <3>4. StillFits' /\ LastFits'
      BY <3>1 DEF OrdersInv, StillFits, LastFits, Forwarded
    <3>5. \A a, b \in Actions : a # b => PairFits(a, b)'
      BY <3>1 DEF OrdersInv, PairFits
    <3>6. \A a, b \in Actions : Executed(a)' /\ Executed(b)' /\ act'[a].rq = act'[b].rq => a = b
      BY <3>1 DEF OrdersInv, Executed
    <3> QED BY <3>2, <3>3, <3>4, <3>5, <3>6 DEF OrdersInv
  <2>2. CASE Refreshes
    BY <2>2, RefreshesKeeps
  <2>3. ASSUME NEW a \in Actions,
               \/ Asks(a) \/ Connects(a) \/ SignsIn(a) \/ GatewayAnswers(a) \/ Forwards(a)
               \/ Takes(a) \/ GraceEnds(a) \/ OutcomeTimesOut(a) \/ Drops(a) \/ ReadsBack(a)
        PROVE  OrdersInv'
    BY <2>3, AsksKeeps, ConnectsKeeps, SignsInKeeps, GatewayAnswersKeeps, ForwardsKeeps,
       TakesKeeps, GraceEndsKeeps, OutcomeTimesOutKeeps, DropsKeeps, ReadsBackKeeps
  <2> QED BY <2>1, <2>2, <2>3 DEF OrdersNext
<1>3. OrdersInv => OrdersAreTrue
  <2> SUFFICES ASSUME OrdersInv PROVE OrdersAreTrue
    OBVIOUS
  <2>1. OrdersTypeOK /\ NumbersAreOnce
    BY DEF OrdersInv, NumbersAreOnce, OrderFits, VanishedFits
  <2>2. ASSUME NEW a \in Actions, act[a].pc = "told", ~SharesNumber(a)
        PROVE  act[a].told = "landed" /\ Alone(a) => act[a].moved > 0
    <3>1. act[a].told = "landed" => \E b \in Actions : act[b].moved > 0
      BY <2>2 DEF OrdersInv, OrderFits, ToldOrderFits
    <3> QED BY <3>1 DEF Alone
  <2>3. VerdictsAreTrue
    <3>1. \A a \in Actions : ToldOrderFits(a)
      BY DEF OrdersInv, OrderFits
    <3> QED BY ONLY <2>2, <3>1 DEF VerdictsAreTrue, ToldOrderFits
  <2> QED BY <2>1, <2>3 DEF OrdersAreTrue
<1> QED BY <1>1, <1>2, <1>3, PTL DEF OrdersSpec

===============================================================================
