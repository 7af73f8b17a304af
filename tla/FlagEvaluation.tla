--------------------------- MODULE FlagEvaluation ---------------------------
(***************************************************************************)
(* FlagService::evaluate_flag and what it calls: the value of one flag for *)
(* the user that a context describes, by the first targeting rule that     *)
(* matches.  The rules change under update_flag and the flag is switched   *)
(* by toggle_flag while one user asks for its value again and again.       *)
(*                                                                         *)
(* What the operators see of a string is a table: Number for std::stod,    *)
(* Contains for find, Hash for std::hash of "<flag key>:<value>".          *)
(***************************************************************************)
EXTENDS Integers, Sequences, FiniteSets, FiniteSetsExt

CONSTANTS
  Value,         \* attribute values
  Number,        \* Number[v]: the number std::stod reads, NotANumber if it throws
  NotANumber,
  Contains,      \* <<v, w>>: w is a substring of v
  Hash,          \* Hash[v]: std::hash, some function of the string
  Contexts,      \* the users: functions from some attributes to values
  TargetingRule, \* the rules an editor may write
  MaxRules       \* bound: rules of the flag

ASSUME EvaluationAssumption ==
  /\ Number \in [Value -> Int \cup {NotANumber}]
  /\ NotANumber \notin Int
  /\ Hash \in [Value -> Nat]
  /\ \A c \in Contexts : \A a \in DOMAIN c : c[a] \in Value
  /\ TargetingRule \subseteq [attribute : STRING, op : STRING, values : Seq(Value),
                              rollout_percentage : Int, value : STRING]
  /\ MaxRules \in Nat

VARIABLES
  user,     \* the context the client sends
  rules,    \* the flag's rules
  enabled,  \* the flag's switch
  answer,   \* EvaluationResult of the last request
  best      \* history: the rule that answered last, 0 if a change since then
            \* did more than extend the roll-out

vars == <<user, rules, enabled, answer, best>>
-----------------------------------------------------------------------------
(* FlagService::percentage_hash *)
PercentageHash(v) == Hash[v] % 100

(* Wrong on purpose: not_in holds for a user without the attribute. *)
RuleMatchesAbsent(rule, context) ==
  \/ rule.op = "not_in" /\ rule.attribute \notin DOMAIN context
  \/ /\ rule.attribute \in DOMAIN context
     /\ LET v == context[rule.attribute] IN
        \/ rule.op = "percentage" /\ PercentageHash(v) < rule.rollout_percentage
        \/ rule.op = "in"         /\ v \in Range(rule.values)
        \/ rule.op = "not_in"     /\ v \notin Range(rule.values)

(* Wrong on purpose: a user whose hash is the percentage itself is let in. *)
RuleMatchesUpTo(rule, context) ==
  /\ rule.attribute \in DOMAIN context
  /\ rule.op = "percentage"
  /\ PercentageHash(context[rule.attribute]) <= rule.rollout_percentage

(* FlagService::rule_matches *)
RuleMatches(rule, context) ==
  /\ rule.attribute \in DOMAIN context
  /\ LET v == context[rule.attribute] IN
     \/ rule.op = "percentage" /\ PercentageHash(v) < rule.rollout_percentage
     \/ rule.op = "in"         /\ v \in Range(rule.values)
     \/ rule.op = "not_in"     /\ v \notin Range(rule.values)
     \/ /\ rule.values # <<>>
        /\ LET w == rule.values[1] IN
           \/ rule.op = "eq"       /\ v = w
           \/ rule.op = "neq"      /\ v # w
           \/ rule.op = "contains" /\ <<v, w>> \in Contains
           \/ /\ NotANumber \notin {Number[v], Number[w]}
              /\ \/ rule.op = "gt" /\ Number[v] > Number[w]
                 \/ rule.op = "lt" /\ Number[v] < Number[w]

(* The rules that match; the first of them decides, 0 if there is none.    *)
Hits(rs, context) == {i \in DOMAIN rs : RuleMatches(rs[i], context)}

(* Wrong on purpose: every matching rule overwrites the result. *)
LastMatch(rs, context) ==
  IF Hits(rs, context) = {} THEN 0 ELSE Max(Hits(rs, context))

FirstMatch(rs, context) ==
  IF Hits(rs, context) = {} THEN 0 ELSE Min(Hits(rs, context))

(* Wrong on purpose: a disabled flag is answered without a value. *)
EvaluateFlagValueless(rs, on, context) ==
  LET i == FirstMatch(rs, context) IN
  CASE ~on          -> [reason |-> "disabled"]
    [] on /\ i # 0  -> [value |-> rs[i].value, reason |-> "rule_match"]
    [] on /\ i = 0  -> [value |-> "default", reason |-> "default"]

(* FlagService::evaluate_flag *)
EvaluateFlag(rs, on, context) ==
  LET i == FirstMatch(rs, context) IN
  CASE ~on          -> [value |-> "default", reason |-> "disabled"]
    [] on /\ i # 0  -> [value |-> rs[i].value, reason |-> "rule_match"]
    [] on /\ i = 0  -> [value |-> "default", reason |-> "default"]
-----------------------------------------------------------------------------
RuleLists == UNION {[1..n -> TargetingRule] : n \in 0..MaxRules}

(* new only extends the roll-out of old: no percentage is lowered, nothing  *)
(* else about a rule changes, and new rules come after the old ones.        *)
Extends(old, new) ==
  /\ Len(old) <= Len(new)
  /\ \A i \in DOMAIN old :
       /\ new[i] = [old[i] EXCEPT !.rollout_percentage = new[i].rollout_percentage]
       /\ old[i].rollout_percentage <= new[i].rollout_percentage

(* EvaluationResult: a value somebody wrote for the flag, and the reason.   *)
Result == [value : {"default"} \cup {r.value : r \in TargetingRule},
           reason : {"rule_match", "disabled", "default"}]

TypeOK ==
  /\ user \in Contexts
  /\ rules \in RuleLists
  /\ enabled \in BOOLEAN
  /\ answer \in Result
  /\ best \in 0..MaxRules

Init ==
  /\ user \in Contexts
  /\ rules = <<>>
  /\ enabled = TRUE
  /\ answer = [value |-> "default", reason |-> "default"]
  /\ best = 0

(* POST /evaluate *)
Evaluate ==
  /\ answer' = EvaluateFlag(rules, enabled, user)
  /\ best' = IF enabled THEN FirstMatch(rules, user) ELSE best
  /\ UNCHANGED <<user, rules, enabled>>

(* PUT /flags/<key> replaces rules and switch at once. *)
UpdateFlag ==
  /\ rules' \in RuleLists
  /\ enabled' \in BOOLEAN
  /\ best' = IF Extends(rules, rules') THEN best ELSE 0
  /\ UNCHANGED <<user, answer>>

(* POST /flags/<key>/toggle *)
ToggleFlag == enabled' = ~enabled /\ UNCHANGED <<user, rules, answer, best>>

Next == Evaluate \/ UpdateFlag \/ ToggleFlag

Spec == Init /\ [][Next]_vars
-----------------------------------------------------------------------------
(* README.md, "Deterministic hashing for gradual feature rollouts": a user  *)
(* who was given a rule's value is given that value, or an earlier rule's,  *)
(* for as long as editors only raise percentages and append rules, however  *)
(* often the flag is switched off and on in between.                        *)
StaysIn ==
  [][Evaluate /\ enabled /\ best # 0 =>
       answer'.reason = "rule_match" /\ best' \in 1..best]_vars

(* A roll-out of 0 % (or less) reaches nobody, and no user that has the     *)
(* attribute gets past one of 100 % (or more).                              *)
RolloutBounds ==
  LET i == FirstMatch(rules, user) IN
  /\ i # 0 /\ rules[i].op = "percentage" => rules[i].rollout_percentage > 0
  /\ \A j \in DOMAIN rules :
       /\ rules[j].op = "percentage" /\ rules[j].rollout_percentage >= 100
       /\ rules[j].attribute \in DOMAIN user
       => i \in 1..j

(* c tells all that d tells, and maybe more attributes. *)
Tells(c, d) == DOMAIN d \subseteq DOMAIN c /\ \A a \in DOMAIN d : c[a] = d[a]

(* A client that sends more attributes of its user never falls back to the  *)
(* default or to a later rule because of them.                              *)
MoreContextKeepsMatch ==
  \A c \in Contexts : Tells(c, user) /\ FirstMatch(rules, user) # 0 =>
    FirstMatch(rules, c) \in 1..FirstMatch(rules, user)
=============================================================================
