----------------------------- MODULE MCWorkshop -----------------------------
(* Finite instances of WorkshopApi.                                        *)
EXTENDS WorkshopApi, TLC

(* general_minimum and tires, of DEFAULT_WORKSHOP_TEMPLATES                *)
MCTemplates ==
  {<<"entrada", "validacao", "diagnostico", "fecho">>,
   <<"entrada", "validacao", "inspecao", "reparacao", "fecho">>}

MCConfigs ==
  {[min |-> 1, max |-> 2, review |-> TRUE, required |-> TRUE],
   [min |-> 1, max |-> 1, review |-> FALSE, required |-> TRUE]}

=============================================================================
