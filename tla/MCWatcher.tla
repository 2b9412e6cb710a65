----------------------------- MODULE MCWatcher -----------------------------
(* Two pods of one name in two namespaces, and two containers.              *)
EXTENDS Watcher

MCTargets ==
  [namespace : {"ns1", "ns2"}, name : {"web"}] \cup
  [namespace : {None}, name : {"web", "db"}]
=============================================================================
