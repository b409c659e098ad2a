----------------------------- MODULE MCCatalogue -----------------------------
(* Catalogue on small instances. *)
EXTENDS Catalogue

TwoToolsets == <<"git", "ops">>
TwoGrants == {[toolset |-> t, grant |-> "prod", secret |-> "secret", path |-> None] : t \in {"git", "ops"}}
SelectProd == [t \in {"git", "ops"} |-> "prod"]
Arg(env) == [name |-> "ref", type |-> "string", required |-> TRUE, env |-> env]
Holds(name, env, warm) ==
    [image |-> env, keepalive |-> warm, tools |-> {[name |-> name, args |-> {Arg(env)}]}]
SomeData == {Holds("Deploy", "REF", TRUE), Holds("Deploy", "TARGET", FALSE), Holds("Ask", "REF", FALSE),
             Holds("Deploy", "HOME", FALSE), Holds("Deploy", "", FALSE)}
SomeInputs == {{}, {[name |-> "ref", type |-> "string"]}, {[name |-> "ref", type |-> "integer"]}}
==============================================================================
