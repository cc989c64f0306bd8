----------------------------- MODULE MCDispatch -----------------------------
(* Instances of Dispatch for TLC. *)
EXTENDS Dispatch, TLC

Everything == {"config_read", "config_write", "config_remove", "config_entries", "config_query",
               "mold_read", "mold_write", "mold_entries", "mold_query"}

\* plugins/json, plugins/test and plugins/test_config_toml
MCKinds == {"json", "test", "test_toml"}
MCImplements(kind) ==
  CASE kind = "json" -> Everything
    [] kind = "test" -> Everything \ {"config_write", "config_remove", "mold_write"}
    [] kind = "test_toml" -> Everything \ {"config_remove", "mold_write"}
MCBuiltIn(kind) ==
  IF kind = "json" THEN {} ELSE {[dir |-> "d", name |-> "a"]}

E(name) == [dir |-> "d", name |-> name]
MCConfigIds == {E("a"), E("b")}
MCMoldIds == {E("b"), E(NamespaceName)}
MCMoldFiles ==
  {{Exact(E("a"))}, {Exact(E("a")), Override(E("a"))},
   {Exact(E(NamespaceName)), Override(E("b"))}, {Override(E("a")), Exact(E("b"))}}

P(g, kind, flaw, rooted) == [group |-> g, kind |-> kind, flaw |-> flaw, rooted |-> rooted]
MCLibconfs ==
  {<<P("g", "json", "none", TRUE), P("g", "json", "none", TRUE)>>,
   <<P("g", "json", "none", FALSE), P("g", "test", "none", TRUE)>>,
   <<P("g", "test_toml", "none", TRUE), P("h", "json", "none", TRUE)>>,
   <<P("g", "json", "none", TRUE), P("h", "json", "dlopen", TRUE)>>}
=============================================================================
