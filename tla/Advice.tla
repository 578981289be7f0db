------------------------------- MODULE Advice -------------------------------
(***************************************************************************)
(* AiIntelligenceService: the shop's gateway to the service of models, with *)
(* the answers it gives in its place.  getRecommendations asks the model    *)
(* and keeps the products of the shop, and ranks the shop's own sales when  *)
(* nothing is left (localRecommendations); loyalty ranks them for one       *)
(* customer and asks no model; overview asks the model for every product    *)
(* and puts stock facts where it is unavailable; demandForecast and         *)
(* salesForecast only pass the answer on.                                   *)
(*                                                                          *)
(* The queries of one question are separate reads: the shop sells and       *)
(* archives products in between.                                            *)
(***************************************************************************)
EXTENDS Integers, FiniteSets, FiniteSetsExt, Sequences, SequencesExt

CONSTANTS
    Goods,          \* the products of the shop
    Alien,          \* a product of the model's training data and not of the shop
    Shoppers,      \* customers of the shop
    MaxSold         \* bound: a product's sales to a customer, its stock after a refund

ASSUME AdviceAssumption ==
    /\ IsFiniteSet(Goods)
    /\ Alien \notin Goods
    /\ MaxSold \in Nat

VARIABLES
    shelf,          \* the products' rows: [active, stock]
    bought,         \* who bought what, how often
    advice          \* the question being answered

adviceVars == <<shelf, bought, advice>>

-----------------------------------------------------------------------------
\* post: what the model's service replied, by its status; no reply at all
\* (a refused connection, the timeout of twenty seconds) is unavailable too.
Classified(status) ==
    CASE status = 200 -> "ok"
      [] status \in {400, 422} -> "badRequest"
      [] status = 404 -> "notFound"
      [] status \in {503, 0} -> "unavailable"
      [] OTHER -> "error"
Statuses == {200, 0, 400, 404, 422, 500, 503}

Sold(b, good) == MapThenSumSet(LAMBDA customer : b[customer][good], Shoppers)
AnySale(b) == \E good \in Goods : Sold(b, good) > 0
Purchased(b, customer) == {good \in Goods : b[customer][good] > 0}

\* A question for recommendations: about one customer, one product or a cart,
\* or about the shop (TRENDING, COLD_START).
Contexts == {"CUSTOMER", "PRODUCT", "CART_READY", "TRENDING"}

\* The checks before the model is asked.  A cart and a product need no sales.
Enough(b, context, customer) ==
    CASE context = "CUSTOMER" -> Purchased(b, customer) # {}
      [] context = "TRENDING" -> AnySale(b)
      [] OTHER -> TRUE

\* Rankings by units sold, the best first; ties come in any order.
Rankings(b, excluded) ==
    {order \in SetToSeqs({good \in Goods \ excluded : Sold(b, good) > 0}) :
         \A i, j \in DOMAIN order : i < j => Sold(b, order[i]) >= Sold(b, order[j])}

Top(order, n) == SubSeq(order, 1, IF Len(order) < n THEN Len(order) ELSE n)

\* The elements of a list that are in a set, in their order (filter).
Place(list, set, i) == Cardinality({j \in 1..i : list[j] \in set})
Only(list, set) ==
    [k \in 1..Place(list, set, Len(list)) |->
         list[CHOOSE i \in DOMAIN list : list[i] \in set /\ Place(list, set, i) = k]]

\* What localRecommendations keeps of a ranking: active, on the shelf, top n.
Kept(s, order, n) ==
    Top(Only(order, {good \in Goods : s[good].active /\ s[good].stock > 0}), n)

\* Fault: only what the question is about is left out.
NothingOwned(q, b) == q.byId

\* What it leaves out: what the question is about, and what the customer has.
\* A cart is left out as it was written down: a product of it that was named by
\* its SKU does not match any id.
LeftOut(q, b) ==
    q.byId \cup IF q.context \in {"CUSTOMER", "LOYALTY"} THEN Purchased(b, q.customer) ELSE {}

\* What getRecommendations keeps of the model's list.
Grounded(s, list) == Only(list, {good \in Goods : s[good].active})

-----------------------------------------------------------------------------
\* Forecasts: refused without a branch, a product or a price (demand), or any
\* history; then as the model answered.  A demand forecast without a list of
\* predictions is malformed.
ForecastReply(known, priced, history, status, wellFormed) ==
    IF ~known THEN "notFound"
    ELSE IF ~history \/ ~priced THEN "badRequest"
    ELSE IF Classified(status) # "ok" THEN Classified(status)
    ELSE IF wellFormed THEN "ok" ELSE "error"

\* Overview: one failure that is not unavailability fails it as a whole.
OverviewReply(statuses) ==
    IF \E good \in DOMAIN statuses : Classified(statuses[good]) \notin {"ok", "unavailable"}
    THEN "failed"
    ELSE "answered"

-----------------------------------------------------------------------------
NoQuestion == [at |-> "idle", context |-> "none", customer |-> "none", about |-> {},
               byId |-> {}, n |-> 0, had |-> {}, excluded |-> {}, ranked |-> <<>>, list |-> <<>>,
               from |-> "none"]

AdviceInit ==
    /\ shelf \in [Goods -> [active : {TRUE}, stock : {0, 1}]]
    /\ bought \in [Shoppers -> [Goods -> {0, 1}]]
    /\ advice = NoQuestion

\* getRecommendations, up to the call of the model.
AskAdvice(context, customer, about, byId, n) ==
    /\ advice.at = "idle"
    /\ context = "PRODUCT" => Cardinality(about) = 1 /\ byId = about
    /\ context = "CART_READY" => about # {} /\ byId \subseteq about
    /\ context \in {"CUSTOMER", "TRENDING"} => about = {} /\ byId = {}
    /\ Enough(bought, context, customer)
    /\ advice' = [NoQuestion EXCEPT !.at = "model", !.context = context,
                      !.customer = customer, !.about = about, !.byId = byId, !.n = n,
                      !.had = Purchased(bought, customer)]
    /\ UNCHANGED <<shelf, bought>>

\* A question that fails a check, and the forecasts, which keep nothing.
AskForecast(known, priced, history, status, wellFormed) ==
    /\ advice.at = "idle"
    /\ advice' = [NoQuestion EXCEPT !.at = "answered",
                      !.from = ForecastReply(known, priced, history, status, wellFormed)]
    /\ UNCHANGED <<shelf, bought>>

AskOverview(statuses) ==
    /\ advice.at = "idle"
    /\ advice' = [NoQuestion EXCEPT !.at = "answered", !.from = OverviewReply(statuses)]
    /\ UNCHANGED <<shelf, bought>>

\* loyalty: the customer's sales are read first.
AskLoyalty(customer, n) ==
    /\ advice.at = "idle"
    /\ advice' = [NoQuestion EXCEPT !.at = "purchases", !.context = "LOYALTY",
                      !.customer = customer, !.n = n, !.had = Purchased(bought, customer)]
    /\ UNCHANGED <<shelf, bought>>

\* The model answers with a list; without a product of the shop in it the
\* shop's own ranking takes its place.
ModelRecommends(list) ==
    /\ advice.at = "model"
    /\ LET grounded == Grounded(shelf, list)
       IN  advice' =
               IF grounded = <<>>
               THEN [advice EXCEPT !.at = "purchases"]
               ELSE [advice EXCEPT !.at = "answered", !.from = "model",
                        !.list = Top(grounded, advice.n)]
    /\ UNCHANGED <<shelf, bought>>

\* Whatever post throws here is only logged.
ModelFails ==
    /\ advice.at = "model"
    /\ advice' = [advice EXCEPT !.at = "purchases"]
    /\ UNCHANGED <<shelf, bought>>

\* localRecommendations, first read: what to leave out.
ReadPurchases ==
    /\ advice.at = "purchases"
    /\ advice' = [advice EXCEPT !.at = "ranking", !.excluded = LeftOut(advice, bought)]
    /\ UNCHANGED <<shelf, bought>>

\* Second read: the ranking.
ReadRanking ==
    /\ advice.at = "ranking"
    /\ \E order \in Rankings(bought, advice.excluded) :
           advice' = [advice EXCEPT !.at = "products",
                          !.ranked = IF advice.context = "LOYALTY" THEN Top(order, advice.n)
                                     ELSE order]
    /\ UNCHANGED <<shelf, bought>>

\* Third read: the products, the newest first when nothing was sold.
ReadProducts ==
    /\ advice.at = "products" /\ advice.context # "LOYALTY"
    /\ \E order \in IF advice.ranked # <<>> THEN {advice.ranked}
                    ELSE SetToSeqs(Goods \ advice.excluded) :
           advice' = [advice EXCEPT !.at = "answered", !.from = "shop",
                                    !.list = Kept(shelf, order, advice.n)]
    /\ UNCHANGED <<shelf, bought>>

\* The last read of loyalty, in any order: stock is not looked at, and what is
\* new may be what the customer has.
ReadLoyalty ==
    /\ advice.at = "products" /\ advice.context = "LOYALTY"
    /\ \E order \in SetToSeqs({good \in Goods : /\ shelf[good].active
                                              /\ \/ advice.ranked = <<>>
                                                 \/ good \in ToSet(advice.ranked)}) :
           advice' = [advice EXCEPT !.at = "answered", !.from = "shop",
                                    !.list = Top(order, advice.n)]
    /\ UNCHANGED <<shelf, bought>>

CloseAdvice ==
    /\ advice.at = "answered"
    /\ advice' = NoQuestion
    /\ UNCHANGED <<shelf, bought>>

\* Meanwhile the shop sells the last of a product, takes one back or archives one.
SellGood(customer, good) ==
    /\ shelf[good].active /\ shelf[good].stock > 0
    /\ bought[customer][good] < MaxSold
    /\ shelf' = [shelf EXCEPT ![good].stock = @ - 1]
    /\ bought' = [bought EXCEPT ![customer][good] = @ + 1]
    /\ UNCHANGED advice

\* A sale is refunded as a whole, and counts no more for any query: what the
\* customer had when asking is not had any longer.
RefundGood(customer, good, restocked) ==
    /\ bought[customer][good] > 0
    /\ restocked => shelf[good].stock < MaxSold
    /\ shelf' = IF restocked THEN [shelf EXCEPT ![good].stock = @ + 1] ELSE shelf
    /\ bought' = [bought EXCEPT ![customer][good] = @ - 1]
    /\ advice' = IF customer = advice.customer /\ bought[customer][good] = 1
                 THEN [advice EXCEPT !.had = @ \ {good}] ELSE advice

ArchiveGood(good) ==
    /\ shelf[good].active
    /\ shelf' = [shelf EXCEPT ![good].active = FALSE]
    /\ UNCHANGED <<bought, advice>>

AdviceNext ==
    \/ \E context \in Contexts, customer \in Shoppers,
          about, byId \in SUBSET Goods, n \in {1, 2} :
           AskAdvice(context, customer, about, byId, n)
    \/ \E known, priced, history, wellFormed \in BOOLEAN, status \in Statuses :
           AskForecast(known, priced, history, status, wellFormed)
    \/ \E statuses \in [Goods -> Statuses] : AskOverview(statuses)
    \/ \E list \in BoundedSeq(Goods \cup {Alien}, 2) : ModelRecommends(list)
    \/ \E customer \in Shoppers, n \in {1, 2} : AskLoyalty(customer, n)
    \/ ModelFails
    \/ ReadPurchases
    \/ ReadRanking
    \/ ReadProducts
    \/ ReadLoyalty
    \/ CloseAdvice
    \/ \E customer \in Shoppers, good \in Goods :
           SellGood(customer, good) \/ \E restocked \in BOOLEAN : RefundGood(customer, good, restocked)
    \/ \E good \in Goods : ArchiveGood(good)

AdviceSpec == AdviceInit /\ [][AdviceNext]_adviceVars

-----------------------------------------------------------------------------
AdviceTypeOK ==
    /\ shelf \in [Goods -> [active : BOOLEAN, stock : Nat]]
    /\ bought \in [Shoppers -> [Goods -> Nat]]
    /\ advice.at \in {"idle", "model", "purchases", "ranking", "products", "answered"}
    /\ ToSet(advice.list) \cup ToSet(advice.ranked) \cup advice.excluded \subseteq Goods

\* "Popular with similar customers and not previously purchased"
\* (localRecommendations): whatever was sold, refunded or archived while the
\* question was answered, the list names products of the shop only, no more than
\* asked for, and the shop's own list holds no product twice, none the question
\* is about (as far as it names products by id), and for a customer none that
\* was bought before the question and not refunded since; the ranking for a
\* customer's loyalty holds none either.
AdviceIsNew ==
    LET named == ToSet(advice.list)
    IN  advice.at = "answered" =>
            /\ Len(advice.list) <= advice.n
            /\ named \subseteq Goods
            /\ advice.from = "shop" =>
                   /\ Cardinality(named) = Len(advice.list)
                   /\ named \cap advice.byId = {}
                   /\ (advice.context = "CUSTOMER"
                         \/ (advice.context = "LOYALTY" /\ advice.ranked # <<>>))
                      => named \cap advice.had = {}
=============================================================================
