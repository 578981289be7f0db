------------------------------ MODULE Services ------------------------------
(***************************************************************************)
(* The services that go on by themselves once they were started: the       *)
(* launches of promotions by the notification worker, the synchronization  *)
(* of offline sales and the answers of the business assistant.  None reads *)
(* what another one writes; a behaviour follows one of them, its focus,    *)
(* which alone is scheduled.                                               *)
(***************************************************************************)
EXTENDS Promotions, OfflineSync, Assistant

VARIABLE focus    \* the service that the behaviour follows

servicesVars == <<focus, promotionVars, vars, assistantVars>>

ServicesInit ==
    /\ focus \in {"promotions", "offline sync", "assistant"}
    /\ PromotionsInit
    /\ Init
    /\ AssistantInit /\ (focus # "assistant" => provider.key /\ provider.fallback)

ServicesNext ==
    /\ UNCHANGED focus
    /\ \/ focus = "promotions" /\ PromotionsNext
       \/ focus # "promotions" /\ UNCHANGED promotionVars
    /\ \/ focus = "offline sync" /\ Next
       \/ focus # "offline sync" /\ UNCHANGED vars
    /\ \/ focus = "assistant" /\ AssistantNext
       \/ focus # "assistant" /\ UNCHANGED assistantVars

\* The fairness of the three specifications, for the one that is followed.
ServicesFairness ==
    /\ WF_servicesVars(
           /\ focus = "promotions" /\ WorkerStep
           /\ UNCHANGED <<focus, vars, assistantVars>>)
    /\ \A p \in Posts : WF_servicesVars(
           /\ focus = "offline sync" /\ Continue(p)
           /\ UNCHANGED <<focus, promotionVars, assistantVars>>)
    /\ WF_servicesVars(
           /\ focus = "assistant" /\ AnswerStep
           /\ UNCHANGED <<focus, promotionVars, vars>>)

ServicesSpec == ServicesInit /\ [][ServicesNext]_servicesVars /\ ServicesFairness

ServicesTypeOK == PromotionsTypeOK /\ TypeOK /\ AssistantTypeOK

\* WorkerGoesOn, of the behaviours that follow the worker.
WorkerKeepsGoing == focus = "promotions" => WorkerGoesOn
=============================================================================
