------------------------------- MODULE MCPaper -------------------------------
(* PaperRuns with one or two configurations, profiles and networks. *)
EXTENDS PaperRuns

MCAll == <<"hybrid">>
MCProtected == <<"hybrid", "full-pqc">>
MCProtectedV2 == <<"hybrid">>
MCProfiles == <<"tabular_small", "llm_completion">>
MCNetworks == <<"wan">>

\* A sweep per network, pairs with and without authentication, a streaming
\* sweep, and threats and a command before a step that must still run
MCPlans == {<<4>>, <<20>>, <<6>>, <<21, 3>>}

=============================================================================
