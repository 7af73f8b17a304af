----------------------- MODULE FlagEvaluation_proofs -----------------------
(***************************************************************************)
(* Proofs about FlagEvaluation, for every hash function, every table of    *)
(* values, any rules and any number of them.                               *)
(***************************************************************************)
EXTENDS FlagEvaluation, WellFoundedInduction, TLAPS

LEMMA LeastOf ==
  ASSUME NEW S \in SUBSET Nat, S # {}
  PROVE  Min(S) \in S /\ \A x \in S : Min(S) <= x
<1> DEFINE R == OpToRel(<, Nat)
<1>1. \A x, y \in Nat : x < y => <<x, y>> \in R
  BY DEF OpToRel
<1>2. IsWellFoundedOn(R, Nat)
  BY NatLessThanWellFounded
<1> HIDE DEF R
<1>3. PICK x \in S : \A y \in S : ~(<<y, x>> \in R)
  BY <1>2, WFMin
<1>4. ASSUME NEW y \in S
      PROVE  x <= y
  <2>1. x \in Nat /\ y \in Nat
    OBVIOUS
  <2>2. y < x => <<y, x>> \in R
    BY <1>1, <2>1, Zenon
  <2>3. <<y, x>> \notin R
    BY <1>3
  <2>4. QED
    BY <2>1, <2>2, <2>3
<1>5. QED
  BY <1>3, <1>4 DEF Min

(* FirstMatch is the least number of a matching rule. *)
LEMMA FirstMatchIsFirst ==
  ASSUME NEW rs \in RuleLists, NEW c
  PROVE  /\ FirstMatch(rs, c) \in Nat
         /\ FirstMatch(rs, c) # 0 => FirstMatch(rs, c) \in Hits(rs, c)
         /\ \A i \in Hits(rs, c) : FirstMatch(rs, c) \in 1..i
<1>1. PICK n \in 0..MaxRules : rs \in [1..n -> TargetingRule]
  BY DEF RuleLists
<1>2. Hits(rs, c) \subseteq 1..n
  BY <1>1 DEF Hits
<1>3. n \in Nat /\ Hits(rs, c) \in SUBSET Nat
  BY <1>1, <1>2, EvaluationAssumption
<1>4. CASE Hits(rs, c) = {}
  BY <1>4 DEF FirstMatch
<1>5. CASE Hits(rs, c) # {}
  <2>1. /\ Min(Hits(rs, c)) \in Hits(rs, c)
        /\ \A i \in Hits(rs, c) : Min(Hits(rs, c)) <= i
    BY <1>3, <1>5, LeastOf
  <2>2. FirstMatch(rs, c) = Min(Hits(rs, c))
    BY <1>5 DEF FirstMatch
  <2>3. \A i \in Hits(rs, c) : i \in Nat /\ 1 <= i
    BY <1>2, <1>3
  <2>4. QED
    BY <2>1, <2>2, <2>3
<1>6. QED
  BY <1>4, <1>5

(* More matching rules can only bring the first one forward. *)
LEMMA MoreHits ==
  ASSUME NEW rs \in RuleLists, NEW c, NEW ts \in RuleLists, NEW d,
         Hits(rs, c) \subseteq Hits(ts, d), FirstMatch(rs, c) # 0
  PROVE  FirstMatch(ts, d) \in 1..FirstMatch(rs, c)
BY FirstMatchIsFirst

LEMMA PercentageInRange ==
  ASSUME NEW v \in Value
  PROVE  PercentageHash(v) \in 0..99
<1>1. Hash[v] \in Nat
  BY EvaluationAssumption
<1>2. QED
  BY <1>1 DEF PercentageHash

(* What a roll-out that grows keeps. *)
LEMMA GrowthKeepsHits ==
  ASSUME NEW old \in RuleLists, NEW new \in RuleLists, NEW c \in Contexts,
         Extends(old, new)
  PROVE  Hits(old, c) \subseteq Hits(new, c)
<1> SUFFICES ASSUME NEW i \in DOMAIN old, RuleMatches(old[i], c)
             PROVE  i \in DOMAIN new /\ RuleMatches(new[i], c)
  BY DEF Hits
<1>1. PICK n \in 0..MaxRules : old \in [1..n -> TargetingRule]
  BY DEF RuleLists
<1>2. PICK m \in 0..MaxRules : new \in [1..m -> TargetingRule]
  BY DEF RuleLists
<1>3. n \in Nat /\ m \in Nat
  BY <1>1, <1>2, EvaluationAssumption
<1>4. Len(old) = n /\ Len(new) = m
  BY <1>1, <1>2, <1>3
<1>5. i \in DOMAIN new
  BY <1>1, <1>2, <1>3, <1>4 DEF Extends
<1> DEFINE r == old[i]
           s == new[i]
<1>6. /\ r \in TargetingRule /\ s \in TargetingRule
      /\ s = [r EXCEPT !.rollout_percentage = s.rollout_percentage]
      /\ r.rollout_percentage <= s.rollout_percentage
  BY <1>1, <1>2, <1>5 DEF Extends
<1>7. /\ r.rollout_percentage \in Int /\ s.rollout_percentage \in Int
      /\ s.attribute = r.attribute /\ s.op = r.op /\ s.values = r.values
  <2>1. r \in [attribute : STRING, op : STRING, values : Seq(Value),
               rollout_percentage : Int, value : STRING]
    BY <1>6, EvaluationAssumption
  <2>2. s \in [attribute : STRING, op : STRING, values : Seq(Value),
               rollout_percentage : Int, value : STRING]
    BY <1>6, EvaluationAssumption
  <2> HIDE DEF r, s
  <2>3. QED
    BY <1>6, <2>1, <2>2
<1>8. r.attribute \in DOMAIN c /\ PercentageHash(c[r.attribute]) \in 0..99
  BY PercentageInRange, EvaluationAssumption DEF RuleMatches
<1> HIDE DEF r, s
<1> DEFINE v == c[r.attribute]
<1>9. RuleMatches(r, c) => RuleMatches(s, c)
  <2>1. PercentageHash(v) < r.rollout_percentage => PercentageHash(v) < s.rollout_percentage
    BY <1>6, <1>7, <1>8
  <2>2. s.attribute \in DOMAIN c /\ c[s.attribute] = v
    BY <1>7, <1>8
  <2> HIDE DEF v
  <2>3. QED
    BY <1>7, <2>1, <2>2, Zenon DEF RuleMatches, v
<1>10. QED
  BY <1>5, <1>9 DEF r, s

LEMMA ContextKeepsHits ==
  ASSUME NEW rs \in RuleLists, NEW c \in Contexts, NEW d \in Contexts, Tells(c, d)
  PROVE  Hits(rs, d) \subseteq Hits(rs, c)
BY DEF Hits, RuleMatches, Tells
-----------------------------------------------------------------------------
EvalInv ==
  /\ user \in Contexts
  /\ rules \in RuleLists
  /\ best \in Nat
  /\ best # 0 => FirstMatch(rules, user) \in 1..best

LEMMA EvalInvInit == Init => EvalInv
<1> SUFFICES ASSUME Init PROVE EvalInv
  OBVIOUS
<1>1. <<>> \in [1..0 -> TargetingRule] /\ 0 \in 0..MaxRules
  BY EvaluationAssumption
<1>2. QED
  BY <1>1 DEF Init, EvalInv, RuleLists

LEMMA EvalInvNext == EvalInv /\ [Next]_vars => EvalInv'
<1> SUFFICES ASSUME EvalInv, [Next]_vars PROVE EvalInv'
  OBVIOUS
<1>1. FirstMatch(rules, user) \in Nat
  BY FirstMatchIsFirst DEF EvalInv
<1>2. CASE UNCHANGED vars
  BY <1>2 DEF vars, EvalInv
<1>3. CASE ToggleFlag
  BY <1>3 DEF ToggleFlag, EvalInv
<1>4. CASE Evaluate
  <2>1. user' = user /\ rules' = rules /\ best' \in {best, FirstMatch(rules, user)}
    BY <1>4 DEF Evaluate
  <2>2. best' # 0 => FirstMatch(rules, user) \in 1..best'
    BY <1>1, <2>1 DEF EvalInv
  <2>3. QED
    BY <1>1, <2>1, <2>2 DEF EvalInv
<1>5. CASE UpdateFlag
  <2>1. user' = user /\ rules' \in RuleLists
        /\ best' = IF Extends(rules, rules') THEN best ELSE 0
    BY <1>5 DEF UpdateFlag
  <2>2. CASE Extends(rules, rules') /\ best # 0
    <3>1. Hits(rules, user) \subseteq Hits(rules', user)
      BY <2>1, <2>2, GrowthKeepsHits DEF EvalInv
    <3>2. FirstMatch(rules, user) # 0 /\ FirstMatch(rules, user) \in 1..best
      BY <2>2 DEF EvalInv
    <3>3. FirstMatch(rules', user) \in 1..FirstMatch(rules, user)
      BY <2>1, <3>1, <3>2, MoreHits DEF EvalInv
    <3>4. FirstMatch(rules', user) \in 1..best
      BY <1>1, <3>2, <3>3 DEF EvalInv
    <3>5. QED
      BY <2>1, <2>2, <3>4 DEF EvalInv
  <2>3. CASE ~Extends(rules, rules') \/ best = 0
    BY <2>1, <2>3 DEF EvalInv
  <2>4. QED
    BY <2>2, <2>3
<1>6. QED
  BY <1>2, <1>3, <1>4, <1>5 DEF Next

THEOREM EvalInvariant == Spec => []EvalInv
BY EvalInvInit, EvalInvNext, PTL DEF Spec

(* Users stay in a roll-out that only grows, whatever the hash function.    *)
THEOREM UsersStayIn == Spec => StaysIn
<1>1. EvalInv /\ [Next]_vars =>
        [Evaluate /\ enabled /\ best # 0 =>
           answer'.reason = "rule_match" /\ best' \in 1..best]_vars
  BY DEF EvalInv, Evaluate, EvaluateFlag
<1>2. QED
  BY <1>1, EvalInvariant, PTL DEF Spec, StaysIn

(* 0 percent reaches nobody, 100 percent everybody with the attribute.      *)
THEOREM RolloutsAreBounded == Spec => []RolloutBounds
<1>1. EvalInv => RolloutBounds
  <2> SUFFICES ASSUME EvalInv PROVE RolloutBounds
    OBVIOUS
  <2>1. PICK n \in 0..MaxRules : rules \in [1..n -> TargetingRule]
    BY DEF EvalInv, RuleLists
  <2>2. ASSUME NEW j \in DOMAIN rules,
               rules[j].op = "percentage", rules[j].attribute \in DOMAIN user
        PROVE  /\ rules[j].rollout_percentage \in Int
               /\ RuleMatches(rules[j], user) => rules[j].rollout_percentage > 0
               /\ rules[j].rollout_percentage >= 100 => RuleMatches(rules[j], user)
    <3> DEFINE p == rules[j].rollout_percentage
               h == PercentageHash(user[rules[j].attribute])
    <3>1. p \in Int
      BY <2>1, EvaluationAssumption
    <3>2. h \in 0..99
      BY <2>2, PercentageInRange, EvaluationAssumption DEF EvalInv
    <3>3. RuleMatches(rules[j], user) <=> h < p
      BY <2>2 DEF RuleMatches
    <3> HIDE DEF h, p
    <3>4. (h < p => p > 0) /\ (p >= 100 => h < p)
      BY <3>1, <3>2
    <3>5. QED
      BY <3>1, <3>3, <3>4 DEF p
  <2>3. /\ FirstMatch(rules, user) # 0 => FirstMatch(rules, user) \in Hits(rules, user)
        /\ \A j \in Hits(rules, user) : FirstMatch(rules, user) \in 1..j
    BY FirstMatchIsFirst DEF EvalInv
  <2>4. \A j \in DOMAIN rules : RuleMatches(rules[j], user) => rules[j].attribute \in DOMAIN user
    BY DEF RuleMatches
  <2>5. QED
    BY <2>2, <2>3, <2>4 DEF RolloutBounds, Hits
<1>2. QED
  BY <1>1, EvalInvariant, PTL

(* What a client adds to a context does not cost it its rule.               *)
THEOREM MoreContextIsSafe == Spec => []MoreContextKeepsMatch
<1>1. EvalInv => MoreContextKeepsMatch
  BY ContextKeepsHits, MoreHits DEF EvalInv, MoreContextKeepsMatch
<1>2. QED
  BY <1>1, EvalInvariant, PTL
-----------------------------------------------------------------------------
(* Type correctness *)

LEMMA EvaluationTyped ==
  ASSUME NEW rs \in RuleLists, NEW on \in BOOLEAN, NEW c
  PROVE  FirstMatch(rs, c) \in 0..MaxRules /\ EvaluateFlag(rs, on, c) \in Result
<1>1. PICK n \in 0..MaxRules : rs \in [1..n -> TargetingRule]
  BY DEF RuleLists
<1>2. Hits(rs, c) \subseteq 1..n
  BY <1>1 DEF Hits
<1>3. FirstMatch(rs, c) \in Nat /\ (FirstMatch(rs, c) # 0 => FirstMatch(rs, c) \in 1..n)
  BY <1>2, FirstMatchIsFirst
<1>4. FirstMatch(rs, c) \in 0..MaxRules
  BY <1>3, EvaluationAssumption
<1>5. \A i \in 1..n : rs[i].value \in {r.value : r \in TargetingRule}
  BY <1>1
<1>6. FirstMatch(rs, c) # 0 =>
        rs[FirstMatch(rs, c)].value \in {r.value : r \in TargetingRule}
  BY <1>3, <1>5
<1>7. EvaluateFlag(rs, on, c) \in Result
  BY <1>6 DEF EvaluateFlag, Result
<1>8. QED
  BY <1>4, <1>7

(* Every evaluation answers with a value and a reason, and names a rule of  *)
(* the flag, whatever the rules are.                                        *)
THEOREM EvaluationTypeCorrect == Spec => []TypeOK
<1>1. Init => TypeOK
  <2> SUFFICES ASSUME Init PROVE TypeOK
    OBVIOUS
  <2>1. rules \in RuleLists /\ 0 \in 0..MaxRules
    BY EvalInvInit, EvaluationAssumption DEF EvalInv
  <2>2. QED
    BY <2>1 DEF Init, TypeOK, Result
<1>2. TypeOK /\ [Next]_vars => TypeOK'
  <2> SUFFICES ASSUME TypeOK, [Next]_vars PROVE TypeOK'
    OBVIOUS
  <2>1. CASE UNCHANGED vars
    BY <2>1 DEF vars, TypeOK
  <2>2. CASE Evaluate
    <3>1. /\ FirstMatch(rules, user) \in 0..MaxRules
          /\ EvaluateFlag(rules, enabled, user) \in Result
      BY EvaluationTyped DEF TypeOK
    <3>2. QED
      BY <2>2, <3>1 DEF Evaluate, TypeOK
  <2>3. CASE UpdateFlag
    <3>1. 0 \in 0..MaxRules
      BY EvaluationAssumption
    <3>2. QED
      BY <2>3, <3>1 DEF UpdateFlag, TypeOK
  <2>4. CASE ToggleFlag
    BY <2>4 DEF ToggleFlag, TypeOK
  <2>5. QED
    BY <2>1, <2>2, <2>3, <2>4 DEF Next
<1>3. QED
  BY <1>1, <1>2, PTL DEF Spec
=============================================================================
