---------------------------- MODULE MirrorClaims ----------------------------
(***************************************************************************)
(* What the repository says of the request path, in a document or comment, *)
(* and the code does not do.  Each property is a sentence of the source    *)
(* made precise; the configurations named after them show TLC's            *)
(* counterexample.                                                         *)
(***************************************************************************)
EXTENDS MirrorCache

\* A racing client gets what the decision vouched for, possibly a moment newer
\* (docs/known-issues/2026-08-18-vary-races-on-url-only-keys.md:11-13), and
\* never something older.  Another instance's slow Put breaks it.
NeverOlderThanDecision ==
    \A c \in Client :
      Redirected(c) /\ store[client[c].key] # None
      => AtLeast(store[client[c].key].body, client[c].answer.body.version)

\* A touch after a response with no ETag is safe, the stored validators being
\* retained (server.go:318-319): no object is labelled with the validators of
\* other bytes.  Last-Modified is a validator, and is replaced.
ValidatorsBelong ==
    \A k \in Variant :
      store[k] # None
      => \E b \in Body : /\ BytesOf[b] = BytesOf[store[k].body]
                         /\ store[k].hdr.etag = ETagOf[b]
                         /\ store[k].hdr.lastModified = LastModifiedOf[b]

\* The errors of client.Do that come of not reaching the origin.
Unreachable == {"timeout", "no such host", "connection refused"}

\* OnConnectionError covers timeouts, DNS failures, connection refused
\* (fallback.go:11), and nothing else.
StaleOnlyWhenUnreachable ==
    \A c \in Client :
      /\ ~OnAnyError
      /\ Redirected(c)
      /\ client[c].answer.action = "stale"
      /\ client[c].answer.cause \in FetchErrors
      => client[c].answer.cause \in Unreachable

=============================================================================
