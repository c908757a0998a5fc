-------------------------- MODULE MCRoutingReplay ---------------------------
(***************************************************************************)
(* A project of two workflows and three orchestrators for TLC.  Workflow   *)
(* "card" was updated last.                                                *)
(***************************************************************************)
EXTENDS RoutingReplay

MCDefinitions == <<"card", "loan">>
MCFallbacks   == {"loan"}
MCActiveSets  == {{"card", "loan"}, {}}

\* "plain" switches when it is told to and by a wide margin; "calm" has a cooldown;
\* "firm" sees one candidate, never switches, and never trusts the router.
MCConfigs  == <<"calm", "plain", "firm">>
Defaults   ==
  [confidence_threshold |-> 600, switch_margin |-> 200, max_disambiguation_turns |-> 1,
   top_k_candidates |-> 20, cooldown_seconds |-> 0, hysteresis_margin |-> 0,
   sticky |-> FALSE, allow_switch |-> TRUE, explicit_switch_only |-> FALSE]
MCSettings ==
  [plain |-> [Defaults EXCEPT !.hysteresis_margin = 300, !.explicit_switch_only = TRUE],
   calm  |-> [Defaults EXCEPT !.switch_margin = -1, !.cooldown_seconds = 1],
   firm  |-> [Defaults EXCEPT !.top_k_candidates = 0, !.confidence_threshold = 1200,
                              !.allow_switch = FALSE]]
MCAsks       == {None, "calm", "firm"}
MCFallbackOf == [calm |-> "card", plain |-> None, firm |-> None]

NoHit   == [tags |-> 0, examples |-> 0, heads |-> 0, name |-> FALSE]
Nothing == [intent |-> "none", explicit |-> FALSE, locked |-> FALSE,
            hits |-> [w \in {"card", "loan"} |-> NoHit]]

\* A late word of an example, from which on the run may not be cancelled; a tag; a tag,
\* against the name and an example of the other workflow, as a request to switch; the two
\* intents.
MCMessages ==
  {[Nothing EXCEPT !.hits.card.examples = 1, !.locked = TRUE],
   [Nothing EXCEPT !.hits.card.tags = 1],
   [Nothing EXCEPT !.hits.loan.tags = 1, !.hits.card.examples = 1, !.hits.card.name = TRUE,
                   !.explicit = TRUE],
   [Nothing EXCEPT !.intent = "cancel"],
   [Nothing EXCEPT !.intent = "operator"]}
=============================================================================
