------------------------------ MODULE MCDiagnostics ------------------------------
(* Small workspaces for the runs of DiagnosticManager: who imports whom. *)
EXTENDS DiagnosticClaims

NoImports == {}
BImportsA == {<<"b", "a">>}
TwoCycle  == {<<"a", "b">>, <<"b", "a">>}
Triangle  == {<<"a", "b">>, <<"b", "a">>, <<"b", "c">>, <<"c", "b">>, <<"c", "a">>, <<"a", "c">>}
BesideARing == {<<"b", "a">>, <<"b", "c">>, <<"c", "b">>}
(* Only a is edited. *)
OthersRest == \A u \in Docs \ {"a"}, k \in Sessions : version[u][k] <= 1
(* The importer is opened once, with one text, and typed in too fast to be diagnosed. *)
QuietImporter ==
  /\ session["b"] <= 1 /\ text["b"] # "t2"
  /\ \A k \in DOMAIN runs : runs[k].uri = "a"
===============================================================================
