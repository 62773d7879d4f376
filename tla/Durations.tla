------------------------------ MODULE Durations ------------------------------
(***************************************************************************)
(* The arithmetic of time.Duration where it could wrap around: delta-      *)
(* seconds that become an age (internal/freshness) and the life of a       *)
(* bearer token (oci_auth.go).  A Duration is a signed integer of Width    *)
(* bits, of which Second make a second; the program's are 64 and 10^9.     *)
(***************************************************************************)
EXTENDS Freshness

CONSTANTS Width, Second

ASSUME WidthAssumption ==
    /\ {Width, Second} \subseteq Nat \ {0}
    /\ 60 * Second < 2^(Width - 1)

\* What the prover, which does not know exponentiation, is told of it.
ASSUME PowerAssumption ==
    /\ 2^(Width - 1) \in Nat
    /\ 2^Width = 2 * 2^(Width - 1)

MaxInt == 2^(Width - 1) - 1
MinInt == -2^(Width - 1)

\* What is left of an integer in a Duration.
Wrapped(x) == ((x - MinInt) % 2^Width) + MinInt

\* Mutant: any number of seconds a Duration can hold.
ParseDeltaSecondsFull(seconds) ==
    IF seconds > MaxInt \div Second THEN Invalid ELSE Wrapped(seconds * Second)

\* parseDeltaSeconds on a number: at most half of what a Duration can hold.
ParseDeltaSeconds(seconds) ==
    IF seconds > (MaxInt \div Second) \div 2 THEN Invalid ELSE Wrapped(seconds * Second)

\* The age Evaluate compares with the lifetime.
CurrentAge(resident, storedAge) == Wrapped(resident + storedAge)

\* Mutant: the default is taken before the buffer, the floor is not.
TokenLifeUnfloored(expiresIn) ==
    Wrapped(Wrapped((IF expiresIn = 0 THEN 60 ELSE expiresIn) * Second) - 30 * Second)

\* How long fetchToken lets a token live that has expires_in seconds: 30 less,
\* but 5 if that leaves nothing; no expires_in, or 0, stands for 60.
TokenLife(expiresIn) ==
    LET seconds  == IF expiresIn = 0 THEN 60 ELSE expiresIn
        buffered == Wrapped(Wrapped(seconds * Second) - 30 * Second)
    IN  IF buffered <= 0 THEN 5 * Second ELSE buffered

=============================================================================
