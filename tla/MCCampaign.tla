------------------------------ MODULE MCCampaign ------------------------------
(* A plan with one layer and one re-anchor block; the base stages before   *)
(* the allocation that are treated alike are left to one, the identity.    *)
EXTENDS Campaign

PlanOrder == << "identity", "allocation", "confirmation",
                "fit", "candidates", "causal_encode", "kld_reanchor" >>
PlanKind == [s \in {"identity", "allocation", "confirmation",
                    "fit", "candidates", "causal_encode", "kld_reanchor"} |-> s]
PlanDependencies ==
    [s \in DOMAIN PlanKind |->
        CASE s = "identity"      -> {}
          [] s = "allocation"    -> {"identity"}
          [] s = "confirmation"  -> {"allocation"}
          [] s = "fit"           -> {"allocation", "confirmation"}
          [] s = "candidates"    -> {"fit", "allocation", "confirmation"}
          [] s = "causal_encode" -> {"candidates", "fit", "allocation", "confirmation"}
          [] OTHER               -> {"causal_encode"}]
PlanFirstEncode == [s \in {"kld_reanchor"} |-> "causal_encode"]
===============================================================================
