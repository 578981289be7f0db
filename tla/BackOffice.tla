----------------------------- MODULE BackOffice -----------------------------
(***************************************************************************)
(* Services of the back office that write no row another one decides on:   *)
(* staff and roles, warranties, the media and the barcode of a product,    *)
(* the defaults of an organization, suppliers and customers, a purchase    *)
(* order, promotions, advice and forecasts.                                *)
(*                                                                         *)
(* A step of one of them cannot be told from a stutter by the others, so   *)
(* what holds of each alone holds of all: a behaviour follows one of them, *)
(* its focus, and leaves the others where they start.                      *)
(***************************************************************************)
EXTENDS Staff, Warranties, Catalog, Defaults, Partners, Advice, Forecast, Purchasing,
        Promotions

CONSTANT Parts    \* the services that a run follows

ASSUME BackOfficeAssumption ==
    Parts \subseteq {"staff", "warranties", "media", "barcode", "choice", "template",
                     "supplier", "customer", "advice", "forecast", "purchasing",
                     "promotions"}

VARIABLE focus    \* the service that the behaviour follows

backOfficeVars == <<focus, staffVars, warrantyVars, catalogVars, defaultsVars, partnersVars,
                    adviceVars, forecastVars, purchasingVars, promotionVars>>

\* A service that is not followed starts in one of its ways only.
BackOfficeInit ==
    /\ focus \in Parts
    /\ StaffInit /\ WarrantiesInit /\ CatalogInit /\ PartnersInit
    /\ DefaultsInit /\ (focus # "choice" => table = "theme")
    /\ AdviceInit
    /\ focus # "advice" =>
          /\ \A g \in Goods : shelf[g].stock = 0
          /\ \A s \in Shoppers, g \in Goods : bought[s][g] = 0
    /\ ForecastInit /\ (focus # "forecast" => DOMAIN sold = {})
    /\ PurchasingInit /\ PromotionsInit

BackOfficeNext ==
    /\ UNCHANGED focus
    /\ \/ focus = "staff" /\ StaffNext
       \/ focus # "staff" /\ UNCHANGED staffVars
    /\ \/ focus = "warranties" /\ WarrantiesNext
       \/ focus # "warranties" /\ UNCHANGED warrantyVars
    /\ \/ focus = "media" /\ MediaNext
       \/ focus = "barcode" /\ BarcodeNext
       \/ focus \notin {"media", "barcode"} /\ UNCHANGED catalogVars
    /\ \/ focus = "choice" /\ ChoiceNext
       \/ focus = "template" /\ TemplateNext
       \/ focus \notin {"choice", "template"} /\ UNCHANGED defaultsVars
    /\ \/ focus = "supplier" /\ SupplierNext
       \/ focus = "customer" /\ CustomerNext
       \/ focus \notin {"supplier", "customer"} /\ UNCHANGED partnersVars
    /\ \/ focus = "advice" /\ AdviceNext
       \/ focus # "advice" /\ UNCHANGED adviceVars
    /\ \/ focus = "forecast" /\ ForecastNext
       \/ focus # "forecast" /\ UNCHANGED forecastVars
    /\ \/ focus = "purchasing" /\ PurchasingNext
       \/ focus # "purchasing" /\ UNCHANGED purchasingVars
    /\ \/ focus = "promotions" /\ PromotionsNext
       \/ focus # "promotions" /\ UNCHANGED promotionVars

BackOfficeSpec == BackOfficeInit /\ [][BackOfficeNext]_backOfficeVars

BackOfficeTypeOK ==
    /\ focus \in Parts
    /\ StaffTypeOK /\ WarrantiesTypeOK /\ CatalogTypeOK /\ DefaultsTypeOK /\ PartnersTypeOK
    /\ AdviceTypeOK /\ ForecastTypeOK /\ PurchasingTypeOK
    /\ PromotionsTypeOK
=============================================================================
