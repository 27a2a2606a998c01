------------------------------ MODULE ModelChoice ------------------------------
(***************************************************************************)
(* Which backend model and which reasoning effort a request is sent with   *)
(* (model.rs and the head of request.rs), for both endpoints.              *)
(*                                                                         *)
(* A model id is the sequence of its segments: what the code asks of an id *)
(* (equality, a "-<effort>" suffix, a substring) is asked of segments.  An *)
(* id is trimmed and in lower case, and no segment only begins or ends     *)
(* like another one, "gpt-60" and "gpt-4o" excepted.                       *)
(***************************************************************************)
EXTENDS Integers, Sequences, FiniteSetsExt, SequencesExt

CONSTANTS
  Heads,        \* first segments of the ids clients ask for
  Tails,        \* their other segments
  MaxSegments,  \* bound: segments of an id
  Fields        \* values of the two effort fields, "" for an absent one

VARIABLES
  wanted,  \* [name, effort, nested]: model, reasoning_effort, reasoning.effort
  chosen   \* [model, effort] in the body for the upstream, effort "" for none

choiceVars == <<wanted, chosen>>

Efforts == {"minimal", "low", "medium", "high", "xhigh", "max", "ultra"}

Gpt5 == <<"gpt-5">>
Gpt51 == <<"gpt-5.1">>
Gpt52 == <<"gpt-5.2">>
Gpt54 == <<"gpt-5.4">>
Gpt55 == <<"gpt-5.5">>
Codex(base) == base \o <<"codex">>
Mini(base) == base \o <<"mini">>
Gpt51CodexMax == <<"gpt-5.1", "codex", "max">>
Gpt53Codex == <<"gpt-5.3", "codex">>
Spark == <<"gpt-5.3", "codex", "spark">>
Sol == <<"gpt-5.6", "sol">>
Terra == <<"gpt-5.6", "terra">>
Luna == <<"gpt-5.6", "luna">>
Astra == <<"gpt-6", "astra">>

\* model_allowed_efforts, the models of KNOWN_MODELS
Allowed(model) ==
  CASE model \in {Gpt5, Codex(Gpt5)} -> {"minimal", "low", "medium", "high"}
    [] model \in {Gpt52, Gpt54, Gpt55, Mini(Gpt54), Codex(Gpt52), Gpt53Codex, Spark, Gpt51CodexMax} ->
         {"low", "medium", "high", "xhigh"}
    [] model \in {Astra, Sol, Terra} -> Efforts \ {"minimal"}
    [] model = Luna -> Efforts \ {"minimal", "ultra"}
    [] model \in {Gpt51, Codex(Gpt51)} -> {"low", "medium", "high"}
    [] model \in {Mini(Codex(Gpt5)), Mini(Codex(Gpt51))} -> {"medium", "high"}
    [] OTHER -> Efforts \union {""}  \* an unknown model takes anything

KnownModels ==
  {Gpt5, Gpt51, Gpt52, Gpt54, Gpt55, Codex(Gpt5), Codex(Gpt51), Codex(Gpt52), Gpt53Codex,
   Mini(Gpt54), Mini(Codex(Gpt5)), Mini(Codex(Gpt51)), Gpt51CodexMax, Spark, Sol, Terra,
   Luna, Astra}

\* model_default_effort, "" for none
Default(model) ==
  CASE model \in {Gpt51, Codex(Gpt51), Gpt51CodexMax, Sol, Astra} -> "low"
    [] model = Spark -> "high"
    [] model \in {Gpt52, Gpt54, Mini(Gpt54), Codex(Gpt52), Gpt53Codex, Gpt55,
                  Mini(Codex(Gpt5)), Mini(Codex(Gpt51)), Terra, Luna} -> "medium"
    [] OTHER -> ""

-----------------------------------------------------------------------------
HasSuffix(name) == Len(name) > 1 /\ Last(name) \in Efforts

\* Bug: the suffixes stripped are not those that are read.
StripOldSuffix(name) ==
  IF HasSuffix(name) /\ Last(name) \notin {"max", "ultra"} THEN Front(name) ELSE name

\* The loop over EFFORT_SUFFIXES in normalize_model.
StripSuffix(name) == IF HasSuffix(name) THEN Front(name) ELSE name

\* effort_suffix: a known id is a model, whatever it ends in, and "-high" is none.
EffortSuffix(name) ==
  IF name \in KnownModels \/ ~HasSuffix(name) \/ Front(name) = <<"">> THEN "" ELSE Last(name)

Mentions(name, part) ==
  \E i \in 1..(Len(name) - Len(part) + 1) : SubSeq(name, i, i + Len(part) - 1) = part

Guard(part, model) == [part |-> part, model |-> model]
\* The guards of normalize_model that look for a substring, in their order.
Guards ==
  <<Guard(Codex(Gpt52), Codex(Gpt52)), Guard(Spark, Spark), Guard(Gpt53Codex, Gpt53Codex),
    Guard(Mini(Gpt54), Mini(Gpt54)), Guard(Gpt54, Gpt54), Guard(Gpt52, Gpt52),
    Guard(Gpt51CodexMax, Gpt51CodexMax), Guard(Mini(Codex(Gpt51)), Mini(Codex(Gpt51))),
    Guard(Codex(Gpt51), Codex(Gpt51)), Guard(Gpt51, Gpt51),
    Guard(Mini(Codex(Gpt5)), Mini(Codex(Gpt5))), Guard(<<"mini">>, Mini(Codex(Gpt51))),
    Guard(<<"gpt-4o">>, Mini(Codex(Gpt51))), Guard(<<"codex">>, Codex(Gpt5))>>

\* The chain below the exact ids: an id without its suffix to a family.
Family(name) ==
  LET hits == {j \in DOMAIN Guards : Mentions(name, Guards[j].part)}
  IN IF name = <<"">> THEN Gpt5
     ELSE IF name[1] \in {"gpt-6", "gpt-6.1"} THEN Astra
     ELSE IF name[1] = "gpt-5.6" THEN Sol
     ELSE IF hits # {} THEN Guards[Min(hits)].model
     ELSE Gpt5

\* Bug: the suffix is stripped before the id is looked up.
NormalizeStrippedFirst(name) ==
  IF StripSuffix(name) \in KnownModels THEN StripSuffix(name) ELSE Family(StripSuffix(name))

\* Bug: an id of no family is sent as it is.
NormalizeLenient(name) ==
  IF name \in KnownModels THEN name
  ELSE IF Family(StripSuffix(name)) = Gpt5 THEN StripSuffix(name)
  ELSE Family(StripSuffix(name))

\* normalize_model
Normalize(name) ==
  IF name \in KnownModels THEN name
  ELSE IF StripSuffix(name) \in KnownModels THEN StripSuffix(name)
  ELSE Family(StripSuffix(name))

\* Bug: the suffix of the id overrides the fields.
ResolveSuffixFirst(r) ==
  IF EffortSuffix(r.name) # "" THEN EffortSuffix(r.name)
  ELSE IF r.effort # "" THEN r.effort ELSE r.nested

\* resolve_reasoning_effort
Resolve(r) ==
  IF r.effort # "" THEN r.effort
  ELSE IF r.nested # "" THEN r.nested
  ELSE EffortSuffix(r.name)

\* normalize_reasoning_effort
Level(effort) ==
  IF effort \in Efforts THEN effort ELSE IF effort = "none" THEN "low" ELSE ""

\* clamp_reasoning_effort_for_model: a model without a default keeps what it got.
Clamp(effort, model) ==
  IF effort \in Allowed(model) THEN effort
  ELSE IF Default(model) # "" THEN Default(model)
  ELSE effort

-----------------------------------------------------------------------------
Nothing == [model |-> <<>>, effort |-> ""]

Names ==
  UNION {{<<h>> \o t : h \in Heads, t \in [1..n -> Tails]} : n \in 0..(MaxSegments - 1)}

ChoiceInit ==
  /\ wanted \in [name : Names, effort : Fields, nested : Fields]
  /\ chosen = Nothing

\* build_reasoning_settings, or transform_responses_request_body
Build ==
  /\ chosen = Nothing
  /\ LET model == Normalize(wanted.name)
     IN chosen' = [model |-> model, effort |-> Clamp(Level(Resolve(wanted)), model)]
  /\ UNCHANGED wanted

ChoiceNext == Build

ChoiceSpec == ChoiceInit /\ [][ChoiceNext]_choiceVars

-----------------------------------------------------------------------------
(* Properties *)

\* Only ids the backend is known to serve are sent, with a known effort or none.
TypeOK ==
  chosen # Nothing => chosen.model \in KnownModels /\ chosen.effort \in Efforts \union {""}

Plain == wanted.effort = "" /\ wanted.nested = ""

\* A known id is served as the model it names, also when it ends like an effort
\* (gpt-5.1-codex-max), and then asks for no effort (model.rs:30-35).
KnownModelIsServed ==
  (chosen # Nothing /\ wanted.name \in KnownModels) =>
    chosen.model = wanted.name /\ (Plain => chosen.effort = Default(chosen.model))

\* A known id with an effort behind it is served as that model at that effort if
\* it takes it, unless the two spell another model (model.rs:890-907).
SuffixedModelIsServed ==
  (chosen # Nothing /\ HasSuffix(wanted.name) /\ Front(wanted.name) \in KnownModels
     /\ wanted.name \notin KnownModels) =>
    /\ chosen.model = Front(wanted.name)
    /\ (Plain /\ Last(wanted.name) \in Allowed(chosen.model)) => chosen.effort = Last(wanted.name)

\* An explicit effort the model takes is the one sent, whatever the id ends in
\* and the other field says (request.rs:62-64).
ExplicitEffortWins ==
  (chosen # Nothing /\ wanted.effort \in Allowed(chosen.model)) => chosen.effort = wanted.effort

\* clamp_reasoning_effort_for_model is what keeps max and ultra off the models that
\* do not accept them (model.rs:227-228).
EffortIsAccepted ==
  chosen # Nothing => chosen.effort \in Allowed(chosen.model) \union {""}
=============================================================================
