---------------------------- MODULE MCApprovals ----------------------------
(* Two CLI runs on pods of one namespace, and one user with three rules.    *)
EXTENDS Approvals, TLC

Pod(name) == [platform |-> "kubernetes", namespace |-> "ns", name |-> name]

Web == Pod("web")

Started(mode, tty, target) ==
  [yes |-> FALSE, mode |-> mode, tty |-> tty, target |-> target]

\* A prompt in persistent mode offers all that one in session mode does.
MCFlags ==
  { Started("persistent", TRUE, Web), Started("persistent", TRUE, Pod("db")),
    Started("session", FALSE, Web), Started("off", TRUE, Web),
    [Started("session", FALSE, Web) EXCEPT !.yes = TRUE] }

Restart == [kind |-> "remediation", action |-> "restart"]
Logs == [kind |-> "probe", action |-> "logs"]

MCAsks == {Restart}

HandWritten(ask, name, decision, expires) ==
  [kind |-> ask.kind, action |-> ask.action, platform |-> "", namespace |-> "ns",
   name |-> name, decision |-> decision, expires |-> expires]

\* No restart of anything in the namespace; restarts of web until tonight; and a
\* rule about something nobody asks for, with a typo in its date.
MCAdminRules ==
  { HandWritten(Restart, "", "deny", "never"), HandWritten(Restart, "web", "allow", "today"),
    HandWritten(Logs, "", "deny", "malformed") }

MCSymmetry == Permutations(Runs)

\* README.md: `deny` always wins over `allow` on the same descriptor, so a deny
\* that was added and not taken back binds every later run.
DenyAlwaysBinds == \A r \in Runs : Binds(r)
=============================================================================
