---------------------------- MODULE MCUserTrades ----------------------------
(* A user's trades: as the server executes them (TradeExecution), as the phone
   that asked for one follows it (TradeFollow), and the orders at Perpl, which
   the phone places itself (PerplOrders).  They are checked side by side: they
   share no state, a behaviour takes one of the parts, and the variables of the
   others stay what they were. *)
EXTENDS TradeExecution, TradeFollow, PerplOrders

CONSTANTS f1, o1, o2, p1, p2

VARIABLE part

MCPlans == {<<"deposit", "place">>, <<"batch">>}

(* One trade, for flows share nothing, and a price that moves.  Two orders, the
   first of one phone, the other of that or of a second. *)
MCInit == /\ part \in {"executing", "following", "ordering"}
          /\ Init /\ FollowInit /\ OrdersInit
          /\ part # "following" => price = 1 /\ flow[f1].kind = "market"
          /\ act[o1].trader = p1
          /\ part # "ordering" => position = 0 /\ act[o2].trader = p1
                                 /\ act[o1].kind = "open" /\ act[o2].kind = "open"

MCNext == /\ UNCHANGED part
          /\ \/ part = "executing" /\ Next       /\ UNCHANGED <<followVars, ordersVars>>
             \/ part = "following" /\ FollowNext /\ UNCHANGED <<vars, ordersVars>>
             \/ part = "ordering"  /\ OrdersNext /\ UNCHANGED <<vars, followVars>>

(* The fairness of each part, of which only its own behaviours have a claim. *)
ExecutingIsFair ==
  LET on == part = "executing"
  IN /\ \A t \in Trades :
          /\ WF_vars(on /\ Work(t)) /\ WF_vars(on /\ GivesUp(t))
          /\ WF_vars(on /\ \E i \in DOMAIN op[t] : Lands(t, i))
          /\ SF_vars(on /\ \E r \in Readers : Reads(r, t))
     /\ \A r \in Readers : SF_vars(on /\ Hears(r)) /\ WF_vars(on /\ Settles(r))
     /\ WF_vars(on /\ Tick)

FollowingIsFair ==
  LET on == part = "following"
  IN WF_followVars(on /\ Passes) /\ WF_followVars(on /\ FlowStep(f1))

OrderingIsFair ==
  LET on == part = "ordering"
  IN WF_ordersVars(on /\ OrderStep(o1)) /\ WF_ordersVars(on /\ OrderStep(o2))

MCSpec == /\ MCInit /\ [][MCNext]_<<part, vars, followVars, ordersVars>>
          /\ ExecutingIsFair /\ FollowingIsFair /\ OrderingIsFair

-----------------------------------------------------------------------------
(* A trade the server committed ends (trade-store.ts:54); whoever confirms one
   is told something, though it never does (flow.ts:490); and so is whoever asks
   for an order at Perpl, though its outcome is lost (perpReconcile.ts:5).  Again
   and again nothing executes and nobody waits. *)
EveryoneIsTold == []<>(NothingExecutes /\ NobodyWaits /\ NobodyAwaitsPerpl)
===============================================================================
