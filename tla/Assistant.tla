----------------------------- MODULE Assistant ------------------------------
(***************************************************************************)
(* The business assistant: BusinessAssistantService.chat resolves who asks *)
(* and where, BusinessAssistantOrchestrator plans the tools, runs the ones *)
(* the user may use, and hands what they return to GeminiProvider, which   *)
(* tries a primary model and then a fallback.  When no model answers, the  *)
(* orchestrator answers from what the tools returned.                      *)
(*                                                                         *)
(* A question is the set of things it speaks about; nothing is kept from   *)
(* one question to the next, so the module follows one at a time.          *)
(***************************************************************************)
EXTENDS Integers, FiniteSets, Sequences, SequencesExt

CONSTANTS
    MaxTopics,      \* things one question speaks about (a bound)
    MaxPrimary,     \* calls of the primary model (3 in the code)
    MaxFallback     \* calls of the fallback model (2 in the code)

ASSUME AssistantAssumption ==
    /\ {MaxPrimary, MaxFallback} \subseteq Nat \ {0}
    /\ MaxTopics \in Nat

VARIABLES
    provider,       \* is a key configured, is there another model to fall back to
    chat            \* the question being answered

assistantVars == <<provider, chat>>

-----------------------------------------------------------------------------
\* What the planner looks for in a question.
Topics == {"demand", "lowStock", "salesForecast", "recommend", "customer",
           "together", "businessSummary", "branch", "product", "sale", "inventory"}

Questions == {question \in SUBSET Topics : Cardinality(question) <= MaxTopics}

StoreTools == {"GeneralBusinessTool", "CustomersTool", "BranchesTool",
               "ProductsTool", "SalesTool", "InventoryTool"}
Tools == StoreTools \cup
         {"DemandForecastTool", "SalesForecastTool", "RecommendationTool"}

\* The tools' requiredPermissions.
Required(tool) ==
    IF tool = "CustomersTool" THEN {"customers:view", "dashboard:view"}
    ELSE {"dashboard:view"}

\* What a user may have of them; a super administrator has both.
Permissions == {"customers:view", "dashboard:view"}

\* The route's guard.
Admitted(permissions) == "dashboard:view" \in permissions

\* orchestrate: a tool runs for a user who has some of its permissions, which
\* everyone whom the route admits has.  (ToolRegistryService, which lists the
\* tools to the model, asks for all of them.)
MayRun(tool, permissions) == Required(tool) \cap permissions # {}

\* The context a recommendation is asked for.  The planner never names a
\* customer, a product or a cart, so only the last two can be served.
RecommendationContext(question) ==
    IF "together" \in question THEN "CART_READY"
    ELSE IF "customer" \in question THEN "CUSTOMER"
    ELSE IF "product" \in question THEN "PRODUCT"
    ELSE IF "branch" \in question THEN "BRANCH" ELSE "TRENDING"

\* planToolExecution: the first rule that fits.
ForecastRules(question) ==
    LET Speaks(topics) == topics \subseteq question
        recommend == {"recommend", "together"} \cap question # {}
    IN  << [fits |-> Speaks({"demand", "lowStock"}),
            tools |-> <<"DemandForecastTool", "InventoryTool">>],
           [fits |-> Speaks({"salesForecast"}) /\ recommend,
            tools |-> <<"SalesForecastTool", "RecommendationTool">>],
           [fits |-> Speaks({"demand"}), tools |-> <<"DemandForecastTool">>],
           [fits |-> Speaks({"salesForecast"}), tools |-> <<"SalesForecastTool">>],
           [fits |-> recommend, tools |-> <<"RecommendationTool">>] >>

\* Every word for stock or sales keeps a question from the catalogue.
StoreRules(question) ==
    LET Speaks(topics) == topics \cap question # {}
    IN  << [fits |-> Speaks({"businessSummary"}), tools |-> <<"GeneralBusinessTool">>],
           [fits |-> Speaks({"customer"}), tools |-> <<"CustomersTool">>],
           [fits |-> Speaks({"branch"}), tools |-> <<"BranchesTool">>],
           [fits |-> Speaks({"product"})
                     /\ ~Speaks({"lowStock", "inventory", "sale", "salesForecast"}),
            tools |-> <<"ProductsTool">>],
           [fits |-> Speaks({"sale"}), tools |-> <<"SalesTool">>],
           [fits |-> Speaks({"inventory", "lowStock"}), tools |-> <<"InventoryTool">>],
           [fits |-> TRUE, tools |-> <<"GeneralBusinessTool">>] >>

Plan(question) ==
    LET rules == ForecastRules(question) \o StoreRules(question)
    IN  rules[SelectInSeq(rules, LAMBDA rule : rule.fits)].tools

\* With two wishes in one question the context is always TRENDING.
ContextOf(question) ==
    IF Len(Plan(question)) = 2 THEN "TRENDING" ELSE RecommendationContext(question)

-----------------------------------------------------------------------------
\* What a tool may come back with: rows of the store, the notice that a model
\* is unavailable (which counts as data), a refusal, or an exception that
\* escapes it.  A branch is looked up again by the tool: it may be gone, and
\* the forecast tools and the recommendations look it up outside of their try.
BranchLookup(branch) == IF branch THEN {"refused", "thrown"} ELSE {}

\* SalesForecastTool.execute: any failure of the service is unavailability.
SalesForecastReturns(branch) == {"rows", "unavailable"} \cup BranchLookup(branch)

\* DemandForecastTool.execute, which picks the first active product itself.
DemandForecastReturns(branch) == {"rows", "unavailable", "thrown"} \cup BranchLookup(branch)

\* RecommendationTool.execute: no customer and no product is ever named, a
\* cart is never given, and a branch only when the question is about one.
RecommendationReturns(context, branch) ==
    BranchLookup(branch) \cup
    CASE context \in {"CUSTOMER", "PRODUCT"} -> {"refused"}
      [] context = "CART_READY" \/ (context = "BRANCH" /\ ~branch) -> {"unavailable"}
      [] OTHER -> {"rows", "unavailable"}

\* The tools that only read the store catch everything themselves.
StoreReturns == {"rows", "refused"}

MayReturn(tool, context, branch) ==
    CASE tool = "SalesForecastTool" -> SalesForecastReturns(branch)
      [] tool = "DemandForecastTool" -> DemandForecastReturns(branch)
      [] tool = "RecommendationTool" -> RecommendationReturns(context, branch)
      [] tool \in StoreTools -> StoreReturns

\* GeminiProvider.classifyError: which failures are worth another call.
AnyFailure(outcome) == outcome # "ok"
Transient(outcome) == outcome = "transient"

\* generateResponse and executeWithModel: the calls made so far and whether
\* there is another model decide on the next one.
CallsAllowed == IF provider.fallback THEN MaxPrimary + MaxFallback ELSE MaxPrimary

CallsAgain(calls) ==
    /\ Len(calls) < CallsAllowed
    /\ calls # <<>> => Transient(Last(calls))

\* Then there is an answer, from the model or in its place; without the catch
\* around the call a failure would end the request.
Uncaught(calls) ==
    IF CallsAgain(calls) THEN "calling" ELSE IF Last(calls) = "ok" THEN "answered" ELSE "refused"
AfterCalls(calls) == IF CallsAgain(calls) THEN "calling" ELSE "answered"

-----------------------------------------------------------------------------
NoChat == [at |-> "idle", permissions |-> {}, context |-> "TRENDING", branch |-> FALSE,
           plan |-> <<>>, got |-> <<>>, calls |-> <<>>, degraded |-> FALSE]

AssistantInit ==
    /\ provider \in [key : BOOLEAN, fallback : BOOLEAN]
    /\ chat = NoChat

\* chat of someone the route does not admit, or without an organization, or for
\* a branch that is not one of its active branches.
RefuseChat ==
    /\ chat.at = "idle"
    /\ chat' = [NoChat EXCEPT !.at = "refused"]
    /\ UNCHANGED provider

\* A question the policy turns down is answered before any tool runs.
TurnDown ==
    /\ chat.at = "idle"
    /\ chat' = [NoChat EXCEPT !.at = "answered"]
    /\ UNCHANGED provider

AskAssistant(question, permissions, branch) ==
    /\ chat.at = "idle"
    /\ Admitted(permissions)
    /\ chat' = [NoChat EXCEPT !.at = "tools",
                              !.permissions = permissions,
                              !.context = ContextOf(question),
                              !.branch = branch,
                              !.plan = Plan(question)]
    /\ UNCHANGED provider

\* The next tool of the plan.  A failure of one never stops the next.
RunTool ==
    /\ chat.at = "tools"
    /\ Len(chat.got) < Len(chat.plan)
    /\ LET tool == chat.plan[Len(chat.got) + 1]
       IN  \E got \in IF MayRun(tool, chat.permissions)
                      THEN MayReturn(tool, chat.context, chat.branch)
                      ELSE {"unauthorized"} :
               chat' = [chat EXCEPT !.got = Append(@, got)]
    /\ UNCHANGED provider

\* All tools ran: to the model, or straight to the degraded answer without a
\* key.
ToolsDone ==
    /\ chat.at = "tools"
    /\ Len(chat.got) = Len(chat.plan)
    /\ chat' = IF provider.key
               THEN [chat EXCEPT !.at = "calling"]
               ELSE [chat EXCEPT !.at = "answered", !.degraded = TRUE]
    /\ UNCHANGED provider

\* One call of a model; every call ends, by an answer or by its timeout.
CallModel(outcome) ==
    /\ chat.at = "calling"
    /\ LET calls == Append(chat.calls, outcome)
       IN  chat' = [chat EXCEPT
               !.calls = calls,
               !.at = AfterCalls(calls),
               !.degraded = outcome # "ok" /\ ~CallsAgain(calls)]
    /\ UNCHANGED provider

\* The reply is read, and the user may ask again.
CloseChat ==
    /\ chat.at \in {"answered", "refused"}
    /\ chat' = NoChat
    /\ UNCHANGED provider

Outcomes == {"ok", "transient", "permanent"}

AnswerStep == RunTool \/ ToolsDone \/ \E outcome \in Outcomes : CallModel(outcome)

AssistantNext ==
    \/ RefuseChat
    \/ TurnDown
    \/ \E question \in Questions, permissions \in SUBSET Permissions, branch \in BOOLEAN :
           AskAssistant(question, permissions, branch)
    \/ AnswerStep
    \/ CloseChat

\* The event loop goes on with a question it took: tools and calls all end.
AssistantFairness == WF_assistantVars(AnswerStep)

AssistantSpec == AssistantInit /\ [][AssistantNext]_assistantVars /\ AssistantFairness

-----------------------------------------------------------------------------
AssistantTypeOK ==
    /\ provider \in [key : BOOLEAN, fallback : BOOLEAN]
    /\ chat.at \in {"idle", "refused", "tools", "calling", "answered"}
    /\ chat.permissions \subseteq Permissions
    /\ \A i \in DOMAIN chat.plan : chat.plan[i] \in Tools
    /\ Len(chat.got) <= Len(chat.plan)
    /\ chat.calls \in Seq(Outcomes)
    /\ Len(chat.calls) <= MaxPrimary + MaxFallback

\* An answer rests on what happened: it is degraded exactly when no model
\* answered, no call follows an error that another call cannot mend, and every
\* planned tool was tried first (orchestrate, generateResponse).
AnswerTellsTruth ==
    /\ \A i \in DOMAIN chat.calls : i < Len(chat.calls) => chat.calls[i] = "transient"
    /\ chat.at = "answered" /\ chat.plan # <<>> =>
           /\ Len(chat.got) = Len(chat.plan)
           /\ chat.degraded <=> "ok" \notin ToSet(chat.calls)
           /\ chat.degraded /\ provider.key =>
                  Last(chat.calls) = "permanent" \/ Len(chat.calls) = CallsAllowed

\* Every question taken is answered, whatever fails (the fallback of
\* orchestrate).
EveryQuestionAnswered == chat.at \in {"tools", "calling"} ~> chat.at = "answered"
=============================================================================
