------------------------------ MODULE MCProcess ------------------------------
(***************************************************************************)
(* Small instances of Process: registries, what they ask for and where     *)
(* they redirect to.                                                       *)
(***************************************************************************)
EXTENDS ProcessCalls, OCIClaims, TLC

\* A registry's repository that asks for a token, one that does not, and the
\* server blobs are redirected to, which redirects in a circle.
Guarded == [host |-> "registry", repo |-> "guarded"]
Open    == [host |-> "registry", repo |-> "open"]
Blobs   == [host |-> "cdn", repo |-> None]

Targets == {Guarded, Open, Blobs}
Circle  == [t \in Target |-> IF t \in {Guarded, Blobs} THEN {Blobs} \cap Target ELSE {}]

\* A registry that asks for one scope, whatever the repository.
OneScope     == {"pull"}
Decided      == [t \in Target |-> IF t = Guarded THEN OneScope ELSE {}]
OneTarget    == {Guarded}

Nobody == {}
=============================================================================
