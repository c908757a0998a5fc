---------------------------- MODULE RoutingReplay ---------------------------
(***************************************************************************)
(* A session is routed message by message (_handle_orchestrated), and then *)
(* its messages are sent to the offline evaluation, which goes through     *)
(* them again without touching runs or session (evaluate_routing_replay).  *)
(* Both are in orchestrator_runtime/runtime.py; they share the shortlist,  *)
(* the router, the target and the switch policy, and each has its own copy *)
(* of the decision.                                                        *)
(*                                                                         *)
(* The router is the heuristic one of llm_adapter/responses_router.py.     *)
(* Messages of the session come one after the other: SessionRouting has    *)
(* what happens when they overlap or fail.  Scores and thresholds are in   *)
(* thousandths.                                                            *)
(***************************************************************************)
EXTENDS Integers, Sequences, FiniteSets, SequencesExt

CONSTANTS
  Definitions,    \* the project's workflows, the latest updated first
  IsFallback,     \* those with is_fallback
  ActiveSets,     \* which of them may be active
  Configs,        \* the project's orchestrators, the latest updated first
  Settings,       \* routing_policy of each, as it was stored
  FallbackOf,     \* fallback_workflow_id of each, or None
  Default,        \* the project's default_orchestrator_id, or None
  Asks,           \* the orchestrators that messages may name, or None
  Messages,       \* what a message may say: see Sayings
  None,
  RecentLimit,    \* decisions that a session looks back at; 5 in the code
  ReplayLimit,    \* decisions that an evaluation looks back at; 20 in the code
  MaxMessages,    \* bound on the messages of the session
  MaxTime         \* bound on the clock

Workflows     == ToSet(Definitions)
Orchestrators == ToSet(Configs)

\* What the text of a message finds of a workflow: tags, examples by any of their words,
\* examples by one of their first three words, the name.
Hits == [tags : Nat, examples : Nat, heads : Nat, name : BOOLEAN]

\* intent: words that stop a workflow or call for an operator; explicit: words that ask
\* for a switch; locked: its metadata say that the run is not cancellable.
Sayings == [intent : {"none", "cancel", "operator"}, explicit : BOOLEAN,
            locked : BOOLEAN, hits : [Workflows -> Hits]]

Fields == {"confidence_threshold", "switch_margin", "max_disambiguation_turns",
           "top_k_candidates", "cooldown_seconds", "hysteresis_margin"}
Flags  == {"sticky", "allow_switch", "explicit_switch_only"}

ASSUME ReplayAssumption ==
  /\ IsFallback \subseteq Workflows /\ ActiveSets \subseteq SUBSET Workflows
  /\ Configs \in Seq(Orchestrators) \ {<<>>}
  /\ {Default} \cup Asks \subseteq Orchestrators \cup {None}
  /\ \A o \in Orchestrators :
       /\ \A f \in Fields : Settings[o][f] \in Int
       /\ \A f \in Flags : Settings[o][f] \in BOOLEAN
       /\ FallbackOf[o] \in Workflows \cup {None}
  /\ Messages \subseteq Sayings
  /\ None \notin Workflows \cup Orchestrators
  /\ RecentLimit \in Nat \ {0} /\ ReplayLimit \in Nat /\ RecentLimit <= ReplayLimit
  /\ MaxMessages \in Nat /\ MaxTime \in Nat

VARIABLES
  active,   \* the active workflow definitions
  asks,     \* the orchestrator that the session's messages name, or None
  run,      \* the session's active run, or None
  turns,    \* disambiguation_turns of the session
  recent,   \* the latest decisions of the session, the newest first
  now,      \* the clock
  tape,     \* history: the session's messages, and what was done with each
  eval,     \* the evaluation that was asked for: are active workflows given; or None
  chosen,   \* active_workflow_id,
  asked,    \* disambiguation_turns,
  past,     \* replay_decisions and
  items     \* items of the evaluation

project == <<active, asks>>
session == <<run, turns, recent, tape>>
replay  == <<eval, chosen, asked, past, items>>
vars    == <<project, session, now, replay>>

Actions == {"START_WORKFLOW", "RESUME_CURRENT", "SWITCH_WORKFLOW", "DISAMBIGUATE",
            "FALLBACK", "CANCEL", "OPERATOR"}
Errors  == {"ERR_NO_ACTIVE_WORKFLOW", "ERR_CANCEL_NOT_ALLOWED", "ERR_FALLBACK_NOT_AVAILABLE",
            "ERR_SWITCH_DISABLED", "ERR_SWITCH_COOLDOWN_ACTIVE",
            "ERR_SWITCH_EXPLICIT_REQUIRED", "ERR_STICKY_POLICY_ACTIVE"}

ASSUME NoneAssumption == None \notin Errors /\ None \notin BOOLEAN /\ None \notin Nat

Outcomes  == [action : Actions, workflow : Workflows \cup {None},
              error : Errors \cup {None}, after : Nat \cup {None}]
Decisions == [action : Actions, at : Nat]
Runs      == [workflow : Workflows, cancellable : BOOLEAN]

TypeOK ==
  /\ active \in ActiveSets /\ asks \in Asks
  /\ run \in Runs \cup {None} /\ turns \in Nat
  /\ recent \in Seq(Decisions) /\ Len(recent) <= RecentLimit
  /\ now \in 0 .. MaxTime
  /\ \A k \in DOMAIN tape :
       /\ tape[k].said \in Messages /\ tape[k].before \in Workflows \cup {None}
       /\ tape[k].turns \in Nat /\ tape[k].at \in Nat /\ tape[k].outcome \in Outcomes
  /\ eval \in BOOLEAN \cup {None}
  /\ chosen \in Workflows \cup {None} /\ asked \in Nat
  /\ past \in Seq(Decisions) /\ Len(past) <= ReplayLimit
  /\ items \in Seq(Outcomes)

Init ==
  /\ active \in ActiveSets /\ asks \in Asks
  /\ run = None /\ turns = 0 /\ recent = <<>> /\ now = 0
  /\ tape = <<>>
  /\ eval = None /\ chosen = None /\ asked = 0 /\ past = <<>> /\ items = <<>>

-----------------------------------------------------------------------------
(* The orchestrator and its policy.                                        *)

\* Of list_orchestrator_configs.
LatestConfig == Head(Configs)

\* The one that is named, else the default, else the latest updated.
Resolve(named) ==
  CASE named # None   -> named
    [] Default # None -> Default
    [] OTHER          -> LatestConfig

Between(low, n, high) == IF n < low THEN low ELSE IF n > high THEN high ELSE n

\* RoutingPolicy.from_dict
PolicyOf(o) ==
  LET value == Settings[o] IN
  [threshold  |-> Between(0, value.confidence_threshold, 1000),
   margin     |-> Between(0, value.switch_margin, 1000),
   turns      |-> IF value.max_disambiguation_turns < 0 THEN 0
                  ELSE value.max_disambiguation_turns,
   top        |-> Between(1, value.top_k_candidates, 100),
   cooldown   |-> IF value.cooldown_seconds < 0 THEN 0 ELSE value.cooldown_seconds,
   hysteresis |-> Between(0, value.hysteresis_margin, 1000),
   sticky     |-> value.sticky,
   allow      |-> value.allow_switch,
   explicit   |-> value.explicit_switch_only]

-----------------------------------------------------------------------------
(* The shortlist and the router.                                           *)

If(b, n) == IF b THEN n ELSE 0

Score(m, w) ==
  LET h == m.hits[w] IN 2000 * h.tags + 1000 * h.examples + If(h.name, 1200)

\* What the router makes of a candidate: it adds to the score of the shortlist.
Total(m, w) ==
  LET h == m.hits[w] IN Score(m, w) + 2000 * h.tags + 1000 * h.heads + If(h.name, 1500)

Place(w, s) == CHOOSE i \in DOMAIN s : s[i] = w

Better(m, v, w) ==
  \/ Score(m, v) > Score(m, w)
  \/ Score(m, v) = Score(m, w) /\ Place(v, Definitions) < Place(w, Definitions)

\* The active workflows by falling score, the latest updated first.
Ranking ==
  [m \in Messages |-> [set \in ActiveSets |->
     SetToSortSeq(set, LAMBDA v, w : Better(m, v, w))]]

Shortlist(m, top) ==
  LET all == Ranking[m][active] IN SubSeq(all, 1, IF top < Len(all) THEN top ELSE Len(all))

Says(type, w, confidence, margin) ==
  [type |-> type, workflow |-> w, confidence |-> confidence, margin |-> margin]

NoCandidates == Says("FALLBACK", None, 0, 0)

\* _route_heuristic among the candidates cs, w being the active workflow: the candidate
\* with the highest total (the first one of the shortlist, when several have it) and its
\* margin over the next one.
Route(m, cs, w, p) ==
  LET First(i, S) == \A j \in S : \/ Total(m, cs[i]) > Total(m, cs[j])
                                  \/ Total(m, cs[i]) = Total(m, cs[j]) /\ i <= j
      top    == CHOOSE i \in DOMAIN cs : First(i, DOMAIN cs)
      rest   == DOMAIN cs \ {top}
      second == IF rest = {} THEN 0
                ELSE Total(m, cs[CHOOSE i \in rest : First(i, rest)])
      best   == cs[top]
      total  == Total(m, best)
      margin == total - second
      confidence == Between(0, 350 + (16 * total) \div 100, 980)
  IN  CASE m.intent = "cancel"   -> Says("CANCEL", w, 990, 1000)
        [] m.intent = "operator" -> Says("OPERATOR", None, 990, 1000)
        [] m.intent = "none" /\ cs = <<>> -> NoCandidates
        [] m.intent = "none" /\ cs # <<>> ->
             CASE total = 0 -> Says("DISAMBIGUATE", None, 200, 0)
               [] total > 0 /\ w = best /\ confidence >= p.threshold ->
                    Says("RESUME_CURRENT", w, confidence, margin)
               [] total > 0 /\ w \notin {None, best} ->
                    IF margin >= p.margin THEN Says("SWITCH_WORKFLOW", best, confidence, margin)
                    ELSE Says("RESUME_CURRENT", w, confidence, margin)
               [] total > 0 /\ w \in {None, best} /\ confidence < p.threshold ->
                    Says("DISAMBIGUATE", None, confidence, margin)
               [] OTHER -> Says("START_WORKFLOW", best, confidence, margin)

\* get_workflow_definition finds the workflow, and it is active.
IsActive(w) == w \in active

\* get_fallback_workflow_definition, unless the orchestrator has an active one of its own.
Fallback(o) ==
  LET marked == {i \in DOMAIN Definitions : Definitions[i] \in active \cap IsFallback} IN
  CASE IsActive(FallbackOf[o]) -> FallbackOf[o]
    [] ~IsActive(FallbackOf[o]) /\ marked # {} ->
         Definitions[CHOOSE i \in marked : \A j \in marked : i <= j]
    [] OTHER -> None

\* _resolve_target_workflow of what the router says
Target(d, cs, o) ==
  CASE IsActive(d.workflow) -> d.workflow
    [] ~IsActive(d.workflow) /\ d.type # "FALLBACK" /\ cs # <<>> -> Head(cs)
    [] OTHER -> Fallback(o)

-----------------------------------------------------------------------------
(* The switch policy.                                                      *)

\* The newest switch among some decisions, the newest of which is the first.
LastSwitch(decisions) ==
  LET switches == {i \in DOMAIN decisions : decisions[i].action = "SWITCH_WORKFLOW"}
  IN  IF switches = {} THEN None
      ELSE decisions[CHOOSE i \in switches : \A j \in switches : i <= j].at

\* _is_explicit_switch_request
Explicit(m) == m.explicit

SwitchError(p, decisions, explicit) ==
  LET last == LastSwitch(decisions) IN
  CASE ~p.allow -> "ERR_SWITCH_DISABLED"
    [] p.allow /\ last # None /\ now - last < p.cooldown -> "ERR_SWITCH_COOLDOWN_ACTIVE"
    [] OTHER -> CASE p.explicit /\ ~explicit -> "ERR_SWITCH_EXPLICIT_REQUIRED"
                  [] ~p.explicit /\ p.sticky /\ ~explicit -> "ERR_STICKY_POLICY_ACTIVE"
                  [] OTHER -> None

\* _switch_retry_after_seconds
RetryAfter(error, p, decisions) ==
  IF error = "ERR_SWITCH_COOLDOWN_ACTIVE" THEN p.cooldown - (now - LastSwitch(decisions))
  ELSE None

Newest(decisions, limit) ==
  SubSeq(decisions, 1, IF Len(decisions) < limit THEN Len(decisions) ELSE limit)

Does(action, w, error) ==
  [action |-> action, workflow |-> w, error |-> error, after |-> None]

-----------------------------------------------------------------------------
(* A message of the session: _handle_orchestrated.                         *)

Orchestrator == Resolve(asks)
Policy       == PolicyOf(Orchestrator)
Candidates(m) == Shortlist(m, Policy.top)

Running == IF run = None THEN None ELSE run.workflow

\* The router is only asked when there are candidates.
Said(m) ==
  IF Candidates(m) = <<>> THEN NoCandidates
  ELSE Route(m, Candidates(m), Running, Policy)

TargetOf(m, d) == Target(d, Candidates(m), Orchestrator)

Arrives == eval = None /\ Len(tape) < MaxMessages

\* The message is answered and its decision recorded; questions: the session's turns.
Answer(m, outcome, questions) ==
  /\ tape' = Append(tape, [said |-> m, before |-> Running, turns |-> turns,
                           at |-> now, outcome |-> outcome])
  /\ recent' = Newest(<<[action |-> outcome.action, at |-> now]>> \o recent, RecentLimit)
  /\ turns' = questions
  /\ UNCHANGED <<project, now, replay>>

\* The questions that have been asked still count.
Operator(m, d) ==
  /\ d.type = "OPERATOR"
  /\ Answer(m, Does("OPERATOR", None, None), turns)
  /\ UNCHANGED run

Cancel(m, d) ==
  /\ d.type = "CANCEL"
  /\ \/ /\ run = None
        /\ Answer(m, Does("CANCEL", None, "ERR_NO_ACTIVE_WORKFLOW"), turns)
        /\ UNCHANGED run
     \/ /\ run # None /\ ~run.cancellable
        /\ Answer(m, Does("CANCEL", Running, "ERR_CANCEL_NOT_ALLOWED"), turns)
        /\ UNCHANGED run
     \/ /\ run # None /\ run.cancellable
        /\ Answer(m, Does("CANCEL", Running, None), turns)
        /\ run' = None

Unsure(d) == d.type = "DISAMBIGUATE" \/ d.confidence < Policy.threshold

Clarify(m, d) ==
  /\ d.type \notin {"OPERATOR", "CANCEL"}
  /\ Unsure(d) /\ turns < Policy.turns
  /\ Answer(m, Does("DISAMBIGUATE", None, None), turns + 1)
  /\ UNCHANGED run

\* The message is not for an operator and not to cancel, and nothing is to be asked.
Settles(m, d) ==
  /\ d.type \notin {"OPERATOR", "CANCEL"}
  /\ ~Unsure(d) \/ turns >= Policy.turns

NoTarget(m, d) ==
  /\ Settles(m, d) /\ TargetOf(m, d) = None
  /\ Answer(m, Does("FALLBACK", None, "ERR_FALLBACK_NOT_AVAILABLE"), 0)
  /\ UNCHANGED run

\* adapter.start returns: the run has ended, or waits for input.
StartedRun(m, w) == {None, [workflow |-> w, cancellable |-> ~m.locked]}

\* adapter.resume returns: it takes the metadata over.
ResumedRun(m) == {None, [run EXCEPT !.cancellable = @ /\ ~m.locked]}

Elsewhere(m, d) == Settles(m, d) /\ run # None /\ TargetOf(m, d) \notin {None, Running}

PolicyError(m) == SwitchError(Policy, recent, Explicit(m))

\* The policy, the confidence and the margin are for a switch.
MaySwitch(m, d) ==
  /\ PolicyError(m) = None
  /\ d.confidence >= Policy.threshold
  /\ d.margin >= Between(0, Policy.margin + Policy.hysteresis, 1000)

Switch(m, d) ==
  /\ Elsewhere(m, d) /\ MaySwitch(m, d) /\ run.cancellable
  /\ Answer(m, Does("SWITCH_WORKFLOW", TargetOf(m, d), None), 0)
  /\ run' \in StartedRun(m, TargetOf(m, d))

MayNotLeave(m, d) ==
  /\ Elsewhere(m, d) /\ MaySwitch(m, d) /\ ~run.cancellable
  /\ Answer(m, Does("RESUME_CURRENT", Running, "ERR_CANCEL_NOT_ALLOWED"), 0)
  /\ UNCHANGED run

Keep(m, d) ==
  /\ Elsewhere(m, d) /\ ~MaySwitch(m, d)
  /\ Answer(m, [Does("RESUME_CURRENT", Running, PolicyError(m)) EXCEPT
                  !.after = RetryAfter(PolicyError(m), Policy, recent)], 0)
  /\ run' \in ResumedRun(m)

Resume(m, d) ==
  /\ Settles(m, d) /\ run # None /\ TargetOf(m, d) = Running
  /\ Answer(m, Does("RESUME_CURRENT", Running, None), 0)
  /\ run' \in ResumedRun(m)

Start(m, d) ==
  /\ Settles(m, d) /\ run = None /\ TargetOf(m, d) # None
  /\ Answer(m, Does(IF d.type = "FALLBACK" THEN "FALLBACK" ELSE "START_WORKFLOW",
                    TargetOf(m, d), None), 0)
  /\ run' \in StartedRun(m, TargetOf(m, d))

Tick ==
  /\ eval = None /\ now < MaxTime
  /\ now' = now + 1
  /\ UNCHANGED <<project, session, replay>>

-----------------------------------------------------------------------------
(* The evaluation: its cases are the session's messages, each with the     *)
(* workflow that was active before it, or none of them with it.            *)

\* The handler checks the cases, of which there are at least one; the orchestrator is
\* resolved from what the messages have named.
Submit(given) ==
  /\ eval = None /\ tape # <<>>
  /\ eval' = given
  /\ UNCHANGED <<project, session, now, chosen, asked, past, items>>

Evaluates == eval # None /\ Len(items) < Len(tape)
Case      == tape[Len(items) + 1]
CaseSays  == Case.said

\* _resolve_orchestrator_for_eval
EvalOrchestrator == Resolve(asks)

EvalPolicy     == PolicyOf(EvalOrchestrator)
EvalCandidates == Shortlist(CaseSays, EvalPolicy.top)

\* A case may override the workflow that the evaluation has as active.
EvalActive == IF eval THEN Case.before ELSE chosen

\* The router is always asked.
EvalSaid   == Route(CaseSays, EvalCandidates, EvalActive, EvalPolicy)
EvalTarget(d) == Target(d, EvalCandidates, EvalOrchestrator)

\* The item and the decision of a case; w: what is active after it.
Item(outcome, w, questions) ==
  /\ items' = Append(items, outcome)
  /\ past' = Newest(<<[action |-> outcome.action, at |-> now]>> \o past, ReplayLimit)
  /\ chosen' = w
  /\ asked' = questions
  /\ UNCHANGED <<project, session, now, eval>>

\* Unlike in a session, the questions that have been asked do not count any more.
EvalOperator(d) ==
  /\ d.type = "OPERATOR"
  /\ Item(Does("OPERATOR", None, None), EvalActive, 0)

EvalCancel(d) ==
  /\ d.type = "CANCEL"
  /\ Item(Does("CANCEL", EvalActive,
               IF EvalActive = None THEN "ERR_NO_ACTIVE_WORKFLOW" ELSE None), None, 0)

EvalUnsure(d) ==
  d.type = "DISAMBIGUATE" \/ d.confidence < EvalPolicy.threshold

EvalClarify(d) ==
  /\ d.type \notin {"OPERATOR", "CANCEL"}
  /\ EvalUnsure(d) /\ asked < EvalPolicy.turns
  /\ Item(Does("DISAMBIGUATE", None, None), EvalActive, asked + 1)

EvalSettles(d) ==
  /\ d.type \notin {"OPERATOR", "CANCEL"}
  /\ ~EvalUnsure(d) \/ asked >= EvalPolicy.turns

EvalNoTarget(d) ==
  /\ EvalSettles(d) /\ EvalTarget(d) = None
  /\ Item(Does("FALLBACK", None, "ERR_FALLBACK_NOT_AVAILABLE"), EvalActive, 0)

EvalError == SwitchError(EvalPolicy, past, Explicit(CaseSays))

\* Variant: the hysteresis is left out.
MutEvalMaySwitch(d) ==
  /\ EvalError = None
  /\ d.confidence >= EvalPolicy.threshold
  /\ d.margin >= EvalPolicy.margin

EvalMaySwitch(d) ==
  /\ EvalError = None
  /\ d.confidence >= EvalPolicy.threshold
  /\ d.margin >= Between(0, EvalPolicy.margin + EvalPolicy.hysteresis, 1000)

EvalSwitch(d) ==
  /\ EvalSettles(d) /\ EvalActive # None /\ EvalTarget(d) \notin {None, EvalActive}
  /\ EvalMaySwitch(d)
  /\ Item(Does("SWITCH_WORKFLOW", EvalTarget(d), None), EvalTarget(d), 0)

EvalKeep(d) ==
  /\ EvalSettles(d) /\ EvalActive # None /\ EvalTarget(d) \notin {None, EvalActive}
  /\ ~EvalMaySwitch(d)
  /\ Item([Does("RESUME_CURRENT", EvalActive, EvalError) EXCEPT
             !.after = RetryAfter(EvalError, EvalPolicy, past)], EvalActive, 0)

EvalResume(d) ==
  /\ EvalSettles(d) /\ EvalActive # None /\ EvalTarget(d) = EvalActive
  /\ Item(Does("RESUME_CURRENT", EvalActive, None), EvalActive, 0)

EvalStart(d) ==
  /\ EvalSettles(d) /\ EvalActive = None /\ EvalTarget(d) # None
  /\ Item(Does(IF d.type = "FALLBACK" THEN "FALLBACK" ELSE "START_WORKFLOW",
               EvalTarget(d), None), EvalTarget(d), 0)

-----------------------------------------------------------------------------
\* d is what the router says.
Handle(m) ==
  Arrives /\ \E d \in {Said(m)} :
    \/ Operator(m, d) \/ Cancel(m, d) \/ Clarify(m, d) \/ NoTarget(m, d)
    \/ Switch(m, d) \/ MayNotLeave(m, d) \/ Keep(m, d) \/ Resume(m, d) \/ Start(m, d)

Evaluate ==
  Evaluates /\ \E d \in {EvalSaid} :
    \/ EvalOperator(d) \/ EvalCancel(d) \/ EvalClarify(d) \/ EvalNoTarget(d)
    \/ EvalSwitch(d) \/ EvalKeep(d) \/ EvalResume(d) \/ EvalStart(d)

Next ==
  \/ \E m \in Messages : Handle(m)
  \/ Tick
  \/ \E given \in BOOLEAN : Submit(given)
  \/ Evaluate

Spec == Init /\ [][Next]_vars

-----------------------------------------------------------------------------
(* Properties.                                                             *)

Agree(k) ==
  LET did == tape[k].outcome IN
  /\ items[k].action = did.action /\ items[k].workflow = did.workflow
  /\ items[k].error = did.error

\* What the session has as active after message k if its run goes on.
ActiveAfter(k) ==
  LET did == tape[k].outcome IN
  CASE did.action = "CANCEL" /\ did.error # "ERR_CANCEL_NOT_ALLOWED" -> None
    [] did.action # "CANCEL" /\ did.workflow # None -> did.workflow
    [] OTHER -> tape[k].before

\* A run ended or was deleted before message k.
RunEnded(k) == \E i \in 1 .. k - 1 : tape[i + 1].before # ActiveAfter(i)

\* Since a question was asked, the user has called for an operator or has cancelled, and
\* no workflow was started or resumed.
QuestionsForgotten(k) ==
  \E i \in 1 .. k - 1 :
    /\ tape[i].outcome.action \in {"OPERATOR", "CANCEL"} /\ tape[i].turns > 0
    /\ \A j \in i .. k - 1 : tape[j].outcome.action \in {"OPERATOR", "CANCEL", "DISAMBIGUATE"}

\* By the time of message k no switch of the session was both among the decisions that
\* it looks back at and within the cooldown.
CooledDown(k) ==
  \A i \in 1 .. k - 1 :
    tape[i].outcome.action = "SWITCH_WORKFLOW" =>
      k - i > RecentLimit \/ tape[k].at - tape[i].at >= Policy.cooldown

\* ADR-0015 calls the evaluation a "routing simulation", and runtime.md:18 uses it "to
\* evaluate routing quality".  What the code gives: sent the messages of a session, the
\* evaluation says what was done with them, up to a message where one of these holds: it
\* was not told that a run had ended; it has forgotten the questions that were asked; a
\* cooldown that is over in the session, where time passes and fewer decisions are looked
\* back at, is not over for it; a run may not be left; there are no candidates.
ReplayPredicts ==
  \A k \in DOMAIN items :
    (\A i \in 1 .. k - 1 : Agree(i)) /\ ~Agree(k) =>
      \/ ~eval /\ RunEnded(k)
      \/ QuestionsForgotten(k)
      \/ items[k].error = "ERR_SWITCH_COOLDOWN_ACTIVE" /\ CooledDown(k)
      \/ tape[k].outcome.error = "ERR_CANCEL_NOT_ALLOWED"
      \/ Candidates(tape[k].said) = <<>> /\ tape[k].said.intent # "none"
=============================================================================
