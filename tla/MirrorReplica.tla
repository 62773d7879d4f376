--------------------------- MODULE MirrorReplica ---------------------------
(***************************************************************************)
(* MirrorCache with one instance implements Replica.  The copy is the      *)
(* version of the stored object, work is a flight, and a redirected client *)
(* is owed what its answer vouched for.                                    *)
(***************************************************************************)
EXTENDS MirrorCache

Checked == {"revalidated", "refreshed", "cached"}

\* The version an answer vouches for: the body's, and when the origin was
\* asked, no less than what it published when the flight began.
Owed(answer) ==
    IF answer.action \in Checked /\ answer.floor > answer.body.version
    THEN answer.floor
    ELSE answer.body.version

Promise == INSTANCE Replica WITH
    Key       <- Variant,
    published <- version,
    copy      <- [k \in Variant |-> IF store[k] = None THEN 0 ELSE store[k].body.version],
    begun     <- [k \in Variant |-> flight[CHOOSE i \in Instance : TRUE][k].floor],
    owed      <- [c \in Client |-> IF Redirected(c)
                                   THEN {[key |-> client[c].key, least |-> Owed(client[c].answer)]}
                                   ELSE {}]

\* Singleflight's serialization is enough: whatever fails, retries or crashes,
\* one instance keeps what Replica promises (fetchAndCache and Do).
ImplementsReplica == Promise!Spec

=============================================================================
