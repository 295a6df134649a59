----------------------------- MODULE MCEfforts -----------------------------
(* An area and a task in it, which would take the area's scopes if promoted. *)
EXTENDS Efforts, TLC

MCTargets == {"web", "web--fix"}
MCAreaOf == [t \in MCTargets |-> "web"]
MCAreaScopes == "web" :> ("frontend" :> {"pages"} @@ "fullstack" :> {"pages", "db"})
MCNarrowed == "web--fix" :> {"shared"}
=============================================================================
