------------------------------- MODULE Policy -------------------------------
(***************************************************************************)
(* Evaluation of the cluster-wide PodDebuggerApprovalPolicy resources      *)
(* (controller/policy.go).  Constant-level: Operator consults it once per  *)
(* automatic remediation.                                                  *)
(*                                                                         *)
(* A selector and the labels of a namespace are sets of key=value pairs;   *)
(* an expiry is where it lies from today.  The policies come in the order  *)
(* of the listing and their rules in the order they are written, but the   *)
(* loops of the code return as soon as they meet a deny and remember the   *)
(* rest: only which decisions were met matters to it, not their order.     *)
(***************************************************************************)
EXTENDS Catalog, Sequences

Decisions == {"deny", "requires-approval", "allow"}

Expiries == {"never", "future", "today", "past", "malformed"}

\* A rule is ignored after the day it names; a typo disables it at once.
RuleExpired(expires) == expires \in {"past", "malformed"}

\* An empty kind or action is a wildcard.
RuleApplies(rule, action) ==
  /\ rule.kind \in {"", "remediation"}
  /\ rule.action \in {"", action}
  /\ ~RuleExpired(rule.expires)

\* Every pair of the selector is among the labels of the namespace.
ScopeMatches(scope, labels) == scope \subseteq labels

\* The decisions of the rules that apply.
Voted(policies, labels, action) ==
  {d \in Decisions : \E i \in DOMAIN policies :
     /\ ScopeMatches(policies[i].scope, labels)
     /\ \E j \in DOMAIN policies[i].rules :
          /\ RuleApplies(policies[i].rules[j], action)
          /\ policies[i].rules[j].decision = d}

\* Mutant of EvaluatePolicies: an allow beats the demand for an approval.
EvaluateLoosely(policies, labels, action) ==
  LET voted == Voted(policies, labels, action)
  IN  IF "deny" \in voted THEN "deny"
      ELSE IF "allow" \in voted THEN "allow"
      ELSE IF "requires-approval" \in voted THEN "requires-approval"
      ELSE "none"

\* The strictest decision wins; "none" when no rule applies.
EvaluatePolicies(policies, labels, action) ==
  LET voted == Voted(policies, labels, action)
  IN  IF "deny" \in voted THEN "deny"
      ELSE IF "requires-approval" \in voted THEN "requires-approval"
      ELSE IF "allow" \in voted THEN "allow"
      ELSE "none"
=============================================================================
