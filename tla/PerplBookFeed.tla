----------------------------- MODULE PerplBookFeed -----------------------------
(***************************************************************************)
(* The one market-data socket of the API: PerplBookFeed of                 *)
(* services/api/src/venues/perpl/perpl-book-feed.ts, which keeps the order *)
(* book of every market from one snapshot and the updates after it, and    *)
(* says of each whether it is fresh.                                       *)
(*                                                                         *)
(* A book is the number of changes it shows.  Clocks are ages, so time has *)
(* no end; every action is one callback of the socket or of a timer, or a  *)
(* read.  The length of a backoff is left open; pings, which are off, and  *)
(* those who wait for a book (waitFor) are left out.                       *)
(***************************************************************************)
EXTENDS Naturals, Sequences, FiniteSets

CONSTANTS
  MarketIds,    \* Perpl's open markets
  MaxRequests,  \* maxRequestsPerMin
  Window,       \* WINDOW_MS
  StaleAfter, RefreshMin, IdleAfter,  \* staleMs, refreshMinMs, idleCloseMs
  MaxChanges,   \* bound: changes of a book
  MaxFrames,    \* bound: frames that are on their way while time passes
  MaxFeedTroubles, \* bound: closed sockets, refusals and failed reads of the ids
  FeedTroubles     \* a subset of {"closed", "refused", "noids"}

FeedAssumption ==
  /\ {MaxRequests, Window, StaleAfter, RefreshMin, IdleAfter} \subseteq Nat
  /\ {MaxChanges, MaxFeedTroubles} \subseteq Nat
  /\ MaxRequests > 0 /\ Window > 0 /\ IdleAfter > 0
  /\ IsFiniteSet(MarketIds)

VARIABLES
  link,      \* ws and open: "none", "connecting", "asking" (open, awaits the ids), "open"
  retrying,  \* reconnectTimer
  watching,  \* idleTimer
  wanted,    \* pendingSubscribe
  sent,      \* the ages of the requests inside the window, oldest first
  streams,   \* the markets of sidToMarket
  kept,      \* books: for each market, whether one is held, what it shows, and its age
  heard,     \* the age of the last frame
  lastRead,  \* the age of the last read
  refreshed, \* the age of each market's last refresh
  refused,   \* subscriptionErrors
  served,    \* Perpl: the streams it serves on this connection
  inbox,     \* frames on their way, each with the books of its time
  books,     \* Perpl: the changes of each market's book
  shown,     \* history: the books as of the last frame taken
  spoilt     \* the troubles so far

feedVars == <<link, retrying, watching, wanted, sent, streams, kept, heard, lastRead, refreshed,
              refused, served, inbox, books, shown, spoilt>>
reading  == <<watching, lastRead, refreshed>>
memory   == <<kept, heard, refused, shown>>

-------------------------------------------------------------------------------
Ages(bound)       == 0..(bound + 1)
Older(age, bound) == IF age > bound THEN age ELSE age + 1

(* Never read, heard or refreshed: as long ago as can be. *)
FeedInit ==
  /\ link = "none" /\ retrying = FALSE /\ watching = FALSE
  /\ wanted = {} /\ sent = <<>> /\ streams = {}
  /\ kept = [m \in MarketIds |-> [any |-> FALSE, shows |-> 0, age |-> StaleAfter + 1]]
  /\ heard = StaleAfter + 1 /\ lastRead = IdleAfter + 1
  /\ refreshed = [m \in MarketIds |-> RefreshMin + 1]
  /\ refused = {} /\ served = {} /\ inbox = <<>>
  /\ books = [m \in MarketIds |-> 0] /\ shown = books /\ spoilt = 0

Frames == [kind : {"reply", "snapshot", "delta", "heartbeat"}, markets : SUBSET MarketIds,
           no : SUBSET MarketIds, books : [MarketIds -> 0..MaxChanges]]

FeedTypeOK ==
  /\ link \in {"none", "connecting", "asking", "open"} /\ {retrying, watching} \subseteq BOOLEAN
  /\ {wanted, streams, refused, served} \subseteq SUBSET MarketIds
  /\ sent \in Seq(0..Window) /\ inbox \in Seq(Frames)
  /\ heard \in Ages(StaleAfter) /\ lastRead \in Ages(IdleAfter)
  /\ kept \in [MarketIds -> [any : BOOLEAN, shows : 0..MaxChanges, age : Ages(StaleAfter)]]
  /\ refreshed \in [MarketIds -> Ages(RefreshMin)]
  /\ {books, shown} \subseteq [MarketIds -> 0..MaxChanges] /\ spoilt \in 0..MaxFeedTroubles

FeedTrouble(kind) == kind \in FeedTroubles /\ spoilt < MaxFeedTroubles /\ spoilt' = spoilt + 1
NoTrouble == UNCHANGED spoilt

-------------------------------------------------------------------------------
(* entry: a stream that is subscribed vouches for a quiet book. *)
SocketOpen  == link \in {"asking", "open"}
Live(m)     == SocketOpen /\ m \in streams
Age(m)      == IF Live(m) /\ heard < kept[m].age THEN heard ELSE kept[m].age
Fresh(m)    == kept[m].any /\ Age(m) <= StaleAfter
Outdated(m) == kept[m].any /\ Age(m) > StaleAfter

Frame(kind, markets) == [kind |-> kind, markets |-> markets, no |-> {}, books |-> books]
Reply(yes, no)       == [Frame("reply", yes) EXCEPT !.no = no]
Snapshots(order)     == [i \in DOMAIN order |-> Frame("snapshot", {order[i]})]

(* The orders in which the books of some markets may come. *)
InOrder(markets) ==
  {o \in [1..Cardinality(markets) -> markets] : \A m \in markets : \E i \in DOMAIN o : o[i] = m}

(* A window that counts the request to come: with room for one, none is sent. *)
MayRequestOneLess == Len(sent) + 1 < MaxRequests

MayRequest == Len(sent) < MaxRequests

(* send of a subscription: Perpl answers it for all the markets, and then sends
   the book of each it serves.  A refresh gives a stream up and asks for it anew
   in one frame, so one that is refused is served no more. *)
Subscribes(markets) ==
  /\ sent' = Append(sent, 0)
  /\ \E no \in {{}} \cup {{m} : m \in markets} :
       /\ IF no = {} THEN NoTrouble ELSE FeedTrouble("refused")
       /\ served' = (served \ no) \cup (markets \ no)
       /\ \E order \in InOrder(markets \ no) :
            inbox' = inbox \o <<Reply(markets \ no, no)>> \o Snapshots(order)
Silent == UNCHANGED <<sent, served, inbox>> /\ NoTrouble

(* A socket that goes while its streams stay mapped: the next one's frames would
   vouch for books it has not brought. *)
DisconnectsOnly ==
  /\ link' = "none" /\ wanted' = {} /\ served' = {} /\ inbox' = <<>>
  /\ UNCHANGED <<sent, streams>>

(* disconnect: what is tied to the socket goes; books and budget stay. *)
Disconnects ==
  /\ link' = "none" /\ wanted' = {} /\ streams' = {} /\ served' = {} /\ inbox' = <<>>
  /\ UNCHANGED sent

(* scheduleReconnect: not for a feed that nobody reads. *)
Reconnects == retrying' = (lastRead < IdleAfter)

-------------------------------------------------------------------------------
(* refresh of a stale book: it counts as done even if the window has no room. *)
Refreshes(m) == Outdated(m) /\ SocketOpen /\ refreshed[m] >= RefreshMin /\ m \notin wanted

(* book: touch, which opens the socket, and then the refresh. *)
Read(m) ==
  /\ lastRead' = 0 /\ watching' = TRUE
  /\ link' = IF link = "none" /\ ~retrying THEN "connecting" ELSE link
  /\ \/ /\ Refreshes(m) /\ refreshed' = [refreshed EXCEPT ![m] = 0]
        /\ IF MayRequest THEN Subscribes({m}) ELSE Silent
     \/ ~Refreshes(m) /\ Silent /\ UNCHANGED refreshed
  /\ UNCHANGED <<retrying, wanted, streams, memory, books>>

Opens ==
  /\ link = "connecting" /\ link' = "asking"
  /\ UNCHANGED <<retrying, wanted, sent, streams, reading, memory, served, inbox, books, spoilt>>

(* subscribeAll, when the ids arrive or cannot be had. *)
AsksAll ==
  /\ link = "asking"
  /\ \/ /\ link' = "open" /\ wanted' = MarketIds /\ NoTrouble
        /\ UNCHANGED <<retrying, sent, streams, served, inbox>>
     \/ FeedTrouble("noids") /\ Disconnects /\ Reconnects
  /\ UNCHANGED <<reading, memory, books>>

(* flushSubscribe: one request for all, at once or when the window has room. *)
MayFlush == link = "open" /\ wanted # {} /\ MayRequest
Flushes ==
  /\ MayFlush /\ Subscribes(wanted) /\ wanted' = {}
  /\ UNCHANGED <<link, retrying, streams, reading, memory, books>>

SocketCloses ==
  /\ link # "none" /\ FeedTrouble("closed") /\ Disconnects /\ Reconnects
  /\ UNCHANGED <<reading, memory, books>>

ReconnectFires ==
  /\ retrying /\ retrying' = FALSE
  /\ link' = IF link = "none" THEN "connecting" ELSE link
  /\ UNCHANGED <<wanted, sent, streams, reading, memory, served, inbox, books, spoilt>>

(* armIdle, whose timer is armed anew while somebody reads. *)
MayIdle == watching /\ lastRead >= IdleAfter
IdleFires ==
  /\ MayIdle /\ watching' = FALSE /\ Disconnects /\ retrying' = FALSE
  /\ UNCHANGED <<lastRead, refreshed, memory, books, spoilt>>

-------------------------------------------------------------------------------
(* store, of a snapshot and of a delta, which adds one change. *)
Stores(m, shows) == kept' = [kept EXCEPT ![m] = [any |-> TRUE, shows |-> shows, age |-> 0]]

(* onFrame: whatever comes was heard; the book of no known stream is ignored. *)
TakesReply(f) ==
  /\ f.kind = "reply"
  /\ streams' = streams \cup f.markets /\ refused' = (refused \ f.markets) \cup f.no
  /\ UNCHANGED kept
TakesSnapshot(f) ==
  /\ f.kind = "snapshot" /\ UNCHANGED <<streams, refused>>
  /\ \E m \in f.markets : IF m \in streams THEN Stores(m, f.books[m]) ELSE UNCHANGED kept
TakesDelta(f) ==
  /\ f.kind = "delta" /\ UNCHANGED <<streams, refused>>
  /\ \E m \in f.markets : IF m \in streams /\ kept[m].any
                          THEN Stores(m, kept[m].shows + 1)
                          ELSE UNCHANGED kept
TakesHeartbeat(f) == f.kind = "heartbeat" /\ UNCHANGED <<kept, streams, refused>>

TakesFrame ==
  /\ inbox # <<>> /\ inbox' = Tail(inbox) /\ heard' = 0 /\ shown' = Head(inbox).books
  /\ LET f == Head(inbox) IN TakesReply(f) \/ TakesSnapshot(f) \/ TakesDelta(f) \/ TakesHeartbeat(f)
  /\ UNCHANGED <<link, retrying, wanted, sent, reading, served, books, spoilt>>

(* Perpl: a market changes, and who is served hears of it; or a heartbeat. *)
Changes(m) ==
  /\ books[m] < MaxChanges /\ Len(inbox) < MaxFrames
  /\ books' = [books EXCEPT ![m] = @ + 1]
  /\ inbox' = IF m \in served THEN Append(inbox, [Frame("delta", {m}) EXCEPT !.books = books'])
              ELSE inbox
  /\ UNCHANGED <<link, retrying, wanted, sent, streams, reading, memory, served, spoilt>>

Beats ==
  /\ SocketOpen /\ Len(inbox) < MaxFrames /\ inbox' = Append(inbox, Frame("heartbeat", {}))
  /\ UNCHANGED <<link, retrying, wanted, sent, streams, reading, memory, served, books, spoilt>>

(* requestsInWindow: the requests of a minute ago are shifted off the front. *)
Shifts ==
  \E n \in 0..Len(sent) :
    /\ \A i \in 1..n : sent[i] + 1 >= Window
    /\ n < Len(sent) => sent[n + 1] + 1 < Window
    /\ sent' = [i \in 1..(Len(sent) - n) |-> sent[n + i] + 1]

(* A moment passes, once the timers that are due have fired.  Frames may be late,
   though no more than MaxFrames of them. *)
Passes ==
  /\ ~MayFlush /\ ~MayIdle /\ Len(inbox) <= MaxFrames
  /\ Shifts
  /\ kept' = [m \in MarketIds |-> [kept[m] EXCEPT !.age = Older(@, StaleAfter)]]
  /\ heard' = Older(heard, StaleAfter) /\ lastRead' = Older(lastRead, IdleAfter)
  /\ refreshed' = [m \in MarketIds |-> Older(refreshed[m], RefreshMin)]
  /\ UNCHANGED <<link, retrying, watching, wanted, streams, refused, served, inbox, books, shown,
                 spoilt>>

FeedNext ==
  \/ \E m \in MarketIds : Read(m) \/ Changes(m)
  \/ Opens \/ AsksAll \/ Flushes \/ SocketCloses \/ ReconnectFires \/ IdleFires
  \/ TakesFrame \/ Beats \/ Passes

FeedSpec == FeedInit /\ [][FeedNext]_feedVars

-------------------------------------------------------------------------------
(* The answer to a subscription was taken, and the book that follows it is the next
   word of its market. *)
Awaited(m) ==
  \E i \in DOMAIN inbox :
    /\ inbox[i].kind = "snapshot" /\ m \in inbox[i].markets
    /\ \A j \in 1..(i - 1) : ~(inbox[j].kind = "delta" /\ m \in inbox[j].markets)

(* A live subscription vouches for a quiet book (perpl-book-feed.ts:487): one that
   is said to be fresh for it shows every change there was by the last frame
   taken, but while its book is awaited.  It does not hold: a refused
   re-subscription leaves the stream mapped. *)
LiveVouches == \A m \in MarketIds : Live(m) /\ Fresh(m) /\ ~Awaited(m) => kept[m].shows = shown[m]

(* What does hold: a book that is vouched for in vain is one whose refusal the
   feed was told of, and tells of itself (subscriptionErrors). *)
FreshIsTrue ==
  \A m \in MarketIds :
    Live(m) /\ Fresh(m) /\ ~Awaited(m) => kept[m].shows = shown[m] \/ m \in refused

(* At worst a book is an old one: it shows no change twice, nor one that was not
   told by the last frame taken, whatever was refused and asked for again in
   between (perpl-book-feed.ts:436). *)
NothingIsMadeUp == \A m \in MarketIds : kept[m].shows <= shown[m]

(* No more requests a minute than the feed's share of what Perpl allows, whatever
   reconnects and whatever is refreshed (perpl-book-feed.ts:387). *)
BudgetIsKept == Len(sent) <= MaxRequests

(* A socket is open, or one is about to be, while a feed is read, unless none has
   asked since it went (perpl-book-feed.ts:250). *)
NobodyIsLeft == (link # "none" \/ retrying) => watching

(* The five of them: what a reader of a book may take for granted. *)
BooksAreTrue ==
  FeedTypeOK /\ FreshIsTrue /\ NothingIsMadeUp /\ BudgetIsKept /\ NobodyIsLeft

(* The book of every market comes to be fresh again and again, unless Perpl
   refuses its stream or nobody reads for so long that the feed closes
   (perpl-book-feed.ts:16). *)
BooksComeFresh ==
  \A m \in MarketIds : []<>(Fresh(m) \/ m \in refused \/ lastRead >= IdleAfter)
===============================================================================
