----------------------------- MODULE MCOperator -----------------------------
(***************************************************************************)
(* Operator on a small instance: one spec per way through reconcile, one   *)
(* set of policies per answer they can give, and proposals on both sides   *)
(* of the default ceiling.                                                 *)
(***************************************************************************)
EXTENDS Operator

Request == [mode |-> "SuggestOnly", pinned |-> None, ceiling |-> "low",
            allowed |-> {}, approved |-> FALSE]

Suggest   == Request
Ask       == [Request EXCEPT !.mode = "ApproveRequired"]
AskYes    == [Ask EXCEPT !.approved = TRUE]
Auto      == [Request EXCEPT !.mode = "AutoRemediate"]
AutoWhite == [Auto EXCEPT !.allowed = {"restart"}]
AutoPin   == [Auto EXCEPT !.pinned = "set-resources"]

SpecsChecked == {Suggest, Ask, AskYes, Auto, AutoWhite, AutoPin}
SpecsServed  == {Ask, AskYes, Auto}

ProposalsChecked == {"restart", "set-resources"}

Rule(action, decision) ==
  [kind |-> "remediation", action |-> action, decision |-> decision,
   expires |-> "never"]

Everywhere(rules) == [scope |-> {}, rules |-> rules]
InProd(rules)     == [scope |-> {"tier=prod"}, rules |-> rules]

Expired(rule) == [rule EXCEPT !.expires = "past"]

\* No policies; an allow, a deny where the namespace is labelled and an allow that
\* has expired; a demand for an approval that another policy would waive.
PoliciesChecked ==
  { <<>>,
    << Everywhere(<<Rule("set-resources", "allow"), Expired(Rule("restart", "allow"))>>),
       InProd(<<Rule("restart", "deny")>>) >>,
    << InProd(<<Rule("", "allow")>>),
       Everywhere(<<Rule("set-resources", "requires-approval")>>) >> }

NoPolicies == { <<>> }
=============================================================================
