---------------------------- MODULE InputsProofs ----------------------------
(***************************************************************************)
(* What Inputs promises for every alphabet, length, encoder and width.     *)
(* The keys are injective: whatever a host, a path, a query and an Accept  *)
(* value are made of, different resources have different S3 objects and    *)
(* different flights.  The repository of a path is found, a copy names its *)
(* source, ages and lives of tokens do not wrap around, what Cache-Control *)
(* declares is not weakened, and a challenge is read as it was meant.      *)
(***************************************************************************)
EXTENDS Inputs, SequenceTheorems, WellFoundedInduction, TLAPS

\* A part of a key without the byte c, and one that begins with c if with
\* anything.
Lacks(x, c)  == x \in Seq(Byte) /\ \A i \in 1..Len(x) : x[i] # c
Begins(u, c) == u \in Seq(Byte) /\ (u # <<>> => u[1] = c)

\* Where a part that lacks a byte is followed by one that begins with it, both
\* can be told.
LEMMA JoinUnique ==
  \A c, x, y, u, v :
    /\ Lacks(x, c) /\ Lacks(y, c)
    /\ Begins(u, c) /\ Begins(v, c)
    /\ x \o u = y \o v
    => x = y /\ u = v
  <1>0. SUFFICES ASSUME NEW c, NEW x, NEW y, NEW u, NEW v,
                        Lacks(x, c), Lacks(y, c), Begins(u, c), Begins(v, c),
                        x \o u = y \o v
                 PROVE  x = y /\ u = v
    OBVIOUS
  <1> USE DEF Lacks, Begins
  <1>1. /\ Len(x) \in Nat /\ Len(y) \in Nat /\ Len(u) \in Nat /\ Len(v) \in Nat
        /\ Len(x) + Len(u) = Len(y) + Len(v)
    BY <1>0, ConcatProperties, LenProperties
  <1>2. /\ \A i \in 1..(Len(x) + Len(u)) :
             (x \o u)[i] = IF i <= Len(x) THEN x[i] ELSE u[i - Len(x)]
        /\ \A i \in 1..(Len(y) + Len(v)) :
             (x \o u)[i] = IF i <= Len(y) THEN y[i] ELSE v[i - Len(y)]
    BY <1>0, ConcatProperties
  <1>3. ASSUME Len(x) < Len(y)
        PROVE  FALSE
    <2>1. Len(x) + 1 \in 1..Len(y) /\ Len(u) > 0 /\ Len(x) + 1 \in 1..(Len(x) + Len(u))
      BY <1>1, <1>3
    <2>2. u # <<>>
      BY <2>1
    <2>3. (x \o u)[Len(x) + 1] = u[1]
      BY <1>1, <1>2, <2>1
    <2>4. (x \o u)[Len(x) + 1] = y[Len(x) + 1]
      BY <1>1, <1>2, <2>1
    <2> QED
      BY <1>0, <2>1, <2>2, <2>3, <2>4
  <1>4. ASSUME Len(y) < Len(x)
        PROVE  FALSE
    <2>1. Len(y) + 1 \in 1..Len(x) /\ Len(v) > 0 /\ Len(y) + 1 \in 1..(Len(x) + Len(u))
      BY <1>1, <1>4
    <2>2. v # <<>>
      BY <2>1
    <2>3. (x \o u)[Len(y) + 1] = v[1]
      BY <1>1, <1>2, <2>1
    <2>4. (x \o u)[Len(y) + 1] = x[Len(y) + 1]
      BY <1>1, <1>2, <2>1
    <2> QED
      BY <1>0, <2>1, <2>2, <2>3, <2>4
  <1>5. Len(x) = Len(y)
    BY <1>1, <1>3, <1>4
  <1>6. x = y
    <2>1. \A i \in 1..Len(x) : x[i] = y[i]
      BY <1>1, <1>2, <1>5
    <2> QED
      BY <1>0, <1>5, <2>1, SeqEqual
  <1> QED
    BY <1>0, <1>6, ConcatSimplifications

LEMMA JoinLacks ==
  \A c, x, y : Lacks(x, c) /\ Lacks(y, c) => Lacks(x \o y, c)
  <1>0. SUFFICES ASSUME NEW c, NEW x, NEW y, Lacks(x, c), Lacks(y, c)
                 PROVE  Lacks(x \o y, c)
    OBVIOUS
  <1>1. /\ x \o y \in Seq(Byte) /\ Len(x \o y) = Len(x) + Len(y)
        /\ Len(x) \in Nat /\ Len(y) \in Nat
        /\ \A i \in 1..(Len(x) + Len(y)) :
             (x \o y)[i] = IF i <= Len(x) THEN x[i] ELSE y[i - Len(x)]
    BY <1>0, ConcatProperties, LenProperties DEF Lacks
  <1>2. ASSUME NEW i \in 1..(Len(x) + Len(y))
        PROVE  (x \o y)[i] # c
    <2>1. CASE i <= Len(x)
      BY <1>0, <1>1, <2>1 DEF Lacks
    <2>2. CASE ~(i <= Len(x))
      <3>1. i - Len(x) \in 1..Len(y)
        BY <1>1, <2>2
      <3> QED
        BY <1>0, <1>1, <2>2, <3>1 DEF Lacks
    <2> QED
      BY <2>1, <2>2
  <1> QED
    BY <1>1, <1>2 DEF Lacks

LEMMA JoinBegins ==
  \A c, u, v : Begins(u, c) /\ Begins(v, c) => Begins(u \o v, c)
  <1>0. SUFFICES ASSUME NEW c, NEW u, NEW v, Begins(u, c), Begins(v, c)
                 PROVE  Begins(u \o v, c)
    OBVIOUS
  <1>1. u \in Seq(Byte) /\ v \in Seq(Byte) /\ u \o v \in Seq(Byte)
    BY <1>0, ConcatProperties DEF Begins
  <1>2. CASE u = <<>>
    BY <1>0, <1>1, <1>2, ConcatEmptySeq
  <1>3. CASE u # <<>>
    <2>1. Len(u) \in Nat \ {0} /\ Len(v) \in Nat
      BY <1>1, <1>3, EmptySeq, LenProperties
    <2>2. 1 \in 1..(Len(u) + Len(v)) /\ 1 <= Len(u)
      BY <2>1
    <2>3. (u \o v)[1] = u[1]
      BY <1>1, <2>2, ConcatProperties
    <2> QED
      BY <1>0, <1>1, <1>3, <2>3 DEF Begins
  <1> QED
    BY <1>2, <1>3

\* A part set off by a joiner begins with it, and says what it holds.
LEMMA SetOff ==
  \A c \in Byte : \A s \in Seq(Byte) :
    /\ Begins(<<c>> \o s, c)
    /\ <<c>> \in Seq(Byte) /\ <<c>> \o s \in Seq(Byte) /\ <<c>> \o s # <<>>
    /\ s # <<>> => (<<c>> \o s)[2] = s[1] /\ Len(<<c>> \o s) >= 2
    /\ \A t \in Seq(Byte) : <<c>> \o s = <<c>> \o t => s = t
  <1>0. SUFFICES ASSUME NEW c \in Byte, NEW s \in Seq(Byte)
                 PROVE  /\ Begins(<<c>> \o s, c)
                        /\ <<c>> \in Seq(Byte) /\ <<c>> \o s \in Seq(Byte) /\ <<c>> \o s # <<>>
                        /\ s # <<>> => (<<c>> \o s)[2] = s[1] /\ Len(<<c>> \o s) >= 2
                        /\ \A t \in Seq(Byte) : <<c>> \o s = <<c>> \o t => s = t
    OBVIOUS
  <1>1. <<c>> \in Seq(Byte) /\ Len(<<c>>) = 1 /\ <<c>>[1] = c
    OBVIOUS
  <1>2. /\ <<c>> \o s \in Seq(Byte) /\ Len(<<c>> \o s) = 1 + Len(s) /\ Len(s) \in Nat
        /\ \A i \in 1..(1 + Len(s)) :
             (<<c>> \o s)[i] = IF i <= 1 THEN <<c>>[i] ELSE s[i - 1]
    BY <1>1, ConcatProperties, LenProperties
  <1>3. (<<c>> \o s)[1] = c /\ <<c>> \o s # <<>>
    <2>1. 1 \in 1..(1 + Len(s))
      BY <1>2
    <2> QED
      BY <1>1, <1>2, <2>1
  <1>4. s # <<>> => (<<c>> \o s)[2] = s[1] /\ Len(<<c>> \o s) >= 2
    <2>1. s # <<>> => 2 \in 1..(1 + Len(s))
      BY EmptySeq
    <2> QED
      BY <1>2, <2>1
  <1>5. \A t \in Seq(Byte) : <<c>> \o s = <<c>> \o t => s = t
    BY <1>1, ConcatSimplifications
  <1> QED
    BY <1>1, <1>2, <1>3, <1>4, <1>5 DEF Begins

\* What the encoders make of the parts of a key.
LEMMA Encoded ==
  ASSUME NEW k \in CacheKey
  PROVE  /\ \A c \in {"?", "/", Nul} : Lacks(PathEscape(k.host), c) /\ Lacks(HostEscape(k.host), c)
         /\ \A c \in {"?", Nul} : Lacks(EscapedPath(k.path), c) /\ Lacks(QueryEscape(k.query), c)
         /\ Begins(EscapedPath(k.path), "/")
         /\ k.query # <<>> => QueryEscape(k.query) # <<>>
         /\ PathEscape(k.variant) \in Seq(Byte)
         /\ Lacks(k.query, Nul)
         /\ k.query \in Seq(Byte) /\ k.variant \in Seq(Byte)
  <1>1. \A T, s, c : s \in Seq(Byte \ T) /\ c \in T => Lacks(s, c)
    BY SeqMonotonic, ElementOfSeq DEF Lacks
  <1>2. \A T, s : s \in Seq(Byte \ T) => s \in Seq(Byte)
    BY SeqMonotonic
  <1>3. /\ k.host \in Text /\ k.path \in Text /\ k.query \in Text /\ k.variant \in Text
        /\ k.path # <<>> /\ k.path[1] = "/"
        /\ k.query \in Seq(Byte \ {Nul}) /\ k.variant \in Seq(Byte \ {Nul})
    BY DEF CacheKey, Bytes
  <1>4. /\ PathEscape(k.host) \in Seq(Byte \ {"?", "/", Nul})
        /\ PathEscape(k.variant) \in Seq(Byte \ {"?", "/", Nul})
        /\ HostEscape(k.host) \in Seq(Byte \ {"?", "/", Nul})
        /\ EscapedPath(k.path) \in Seq(Byte \ {"?", Nul})
        /\ QueryEscape(k.query) \in Seq(Byte \ {"?", Nul})
    BY <1>3, EncoderAssumption DEF Bytes
  <1>5. /\ EscapedPath(k.path)[1] = "/"
        /\ k.query # <<>> => QueryEscape(k.query) # <<>>
    BY <1>3, EncoderAssumption
  <1>6. /\ \A c \in {"?", "/", Nul} : Lacks(PathEscape(k.host), c) /\ Lacks(HostEscape(k.host), c)
        /\ \A c \in {"?", Nul} : Lacks(EscapedPath(k.path), c) /\ Lacks(QueryEscape(k.query), c)
        /\ Lacks(k.query, Nul)
    BY <1>1, <1>3, <1>4
  <1>7. /\ EscapedPath(k.path) \in Seq(Byte) /\ PathEscape(k.variant) \in Seq(Byte)
        /\ k.query \in Seq(Byte) /\ k.variant \in Seq(Byte)
    BY <1>2, <1>3, <1>4
  <1> QED
    BY <1>5, <1>6, <1>7 DEF Begins

\* Encoded or not, the slash ends a host.
LEMMA ResourceUnique ==
  ASSUME NEW k \in CacheKey, NEW l \in CacheKey, NEW g, NEW h,
         Lacks(g, "/"), Lacks(h, "/"),
         g \o EscapedPath(k.path) = h \o EscapedPath(l.path)
  PROVE  g = h /\ k.path = l.path
  <1>1. Begins(EscapedPath(k.path), "/") /\ Begins(EscapedPath(l.path), "/")
    BY Encoded
  <1>2. g = h /\ EscapedPath(k.path) = EscapedPath(l.path)
    BY <1>1, JoinUnique
  <1> QED
    BY <1>2, EncoderAssumption DEF CacheKey

-----------------------------------------------------------------------------
(* The keys                                                                *)

\* Two objects are never one: the S3 key of a resource and a variant names no
\* other (s3PathFor).
THEOREM ObjectsSeparate ==
  \A k, l \in CacheKey : S3PathFor(k) = S3PathFor(l) => k = l
  <1>0. SUFFICES ASSUME NEW k \in CacheKey, NEW l \in CacheKey, S3PathFor(k) = S3PathFor(l)
                 PROVE  k = l
    OBVIOUS
  <1> DEFINE Name(m)    == PathEscape(m.host) \o EscapedPath(m.path)
             QueryPart(m)   == IF m.query = <<>> THEN <<>> ELSE <<"?">> \o QueryEscape(m.query)
             VariantPart(m) == IF m.variant = <<>> THEN <<>>
                           ELSE <<"?">> \o (<<"?">> \o PathEscape(m.variant))
             Start      == Prefix \o <<"/">>
  <1>1. "?" \in Byte /\ Start \in Seq(Byte)
    <2>1. "?" \in Byte /\ Prefix \in Seq(Byte) /\ <<"/">> \in Seq(Byte)
      BY EncoderAssumption
    <2> QED
      BY <2>1, ConcatProperties
  <1>2. \A m \in CacheKey : /\ Lacks(Name(m), "?")
                            /\ Begins(QueryPart(m), "?")
                            /\ Begins(VariantPart(m), "?")
    <2>1. SUFFICES ASSUME NEW m \in CacheKey
                   PROVE  /\ Lacks(Name(m), "?")
                          /\ Begins(QueryPart(m), "?") /\ Begins(VariantPart(m), "?")
      OBVIOUS
    <2>2. /\ Lacks(PathEscape(m.host), "?") /\ Lacks(EscapedPath(m.path), "?")
          /\ QueryEscape(m.query) \in Seq(Byte) /\ PathEscape(m.variant) \in Seq(Byte)
      BY Encoded DEF Lacks
    <2>3. Lacks(Name(m), "?")
      BY <2>2, JoinLacks
    <2>4. Begins(<<>>, "?")
      BY EmptySeq DEF Begins
    <2>5. Begins(QueryPart(m), "?")
      BY <1>1, <2>2, <2>4, SetOff
    <2>6. Begins(VariantPart(m), "?")
      BY <1>1, <2>2, <2>4, SetOff
    <2> QED
      BY <2>3, <2>5, <2>6
  <1>3. \A m \in CacheKey : S3PathFor(m) = Start \o (Name(m) \o (QueryPart(m) \o VariantPart(m)))
    BY DEF S3PathFor
  <1>4. Name(k) = Name(l) /\ QueryPart(k) \o VariantPart(k) = QueryPart(l) \o VariantPart(l)
    <2> HIDE DEF Name, QueryPart, VariantPart, Start
    <2>1. \A m \in CacheKey : /\ Begins(QueryPart(m) \o VariantPart(m), "?")
                              /\ Name(m) \o (QueryPart(m) \o VariantPart(m)) \in Seq(Byte)
      BY <1>2, JoinBegins, ConcatProperties DEF Lacks, Begins
    <2>2. Name(k) \o (QueryPart(k) \o VariantPart(k)) = Name(l) \o (QueryPart(l) \o VariantPart(l))
      BY <1>0, <1>1, <1>3, <2>1, ConcatSimplifications
    <2> QED
      BY <1>2, <2>1, <2>2, JoinUnique
  <1>5. k.host = l.host /\ k.path = l.path
    <2>1. Lacks(PathEscape(k.host), "/") /\ Lacks(PathEscape(l.host), "/")
      BY Encoded
    <2>2. PathEscape(k.host) \o EscapedPath(k.path) = PathEscape(l.host) \o EscapedPath(l.path)
      BY <1>4
    <2> DEFINE g == PathEscape(k.host)
               h == PathEscape(l.host)
    <2>3. g = h => k.host = l.host
      BY EncoderAssumption DEF CacheKey
    <2> HIDE DEF g, h
    <2>4. g = h /\ k.path = l.path
      BY <2>1, <2>2, ResourceUnique DEF g, h
    <2> QED
      BY <2>3, <2>4
  \* A query never looks like a variant: its second byte is no joiner.
  <1>6. ASSUME NEW m \in CacheKey, NEW n \in CacheKey,
               m.query = <<>>, n.query # <<>>,
               QueryPart(m) \o VariantPart(m) = QueryPart(n) \o VariantPart(n)
        PROVE  FALSE
    <2> DEFINE q == QueryEscape(n.query)
               v == PathEscape(m.variant)
               w == <<"?">> \o v
    <2>1. Lacks(q, "?") /\ q \in Seq(Byte) /\ q # <<>> /\ v \in Seq(Byte)
      BY <1>6, Encoded DEF Lacks
    <2>2. q[1] # "?"
      <3>1. 1 \in 1..Len(q)
        BY <2>1, EmptySeq
      <3> QED
        BY <2>1, <3>1 DEF Lacks
    <2>3. QueryPart(n) \in Seq(Byte) /\ QueryPart(n)[2] = q[1] /\ Len(QueryPart(n)) >= 2
      BY <1>1, <1>6, <2>1, SetOff
    <2>4. QueryPart(m) = <<>>
      BY <1>6
    <2>5. VariantPart(m) = <<>> \/ VariantPart(m) = <<"?">> \o w
      OBVIOUS
    <2>6. w \in Seq(Byte) /\ w # <<>> /\ w[1] = "?"
      BY <1>1, <2>1, SetOff DEF Begins
    <2> HIDE DEF Name, QueryPart, VariantPart, q, v, w
    <2>7. VariantPart(m) = QueryPart(n) \o VariantPart(n)
      BY <1>2, <1>6, <2>4, ConcatEmptySeq DEF Begins
    <2>8. /\ (QueryPart(n) \o VariantPart(n))[2] = QueryPart(n)[2]
          /\ Len(QueryPart(n) \o VariantPart(n)) >= 2
      <3>1. VariantPart(n) \in Seq(Byte) /\ Len(VariantPart(n)) \in Nat /\ Len(QueryPart(n)) \in Nat
        BY <1>2, <2>3, LenProperties DEF Begins
      <3>2. 2 \in 1..(Len(QueryPart(n)) + Len(VariantPart(n))) /\ 2 <= Len(QueryPart(n))
        BY <2>3, <3>1
      <3> QED
        BY <2>3, <3>1, <3>2, ConcatProperties
    <2>9. VariantPart(m) # <<>>
      BY <2>7, <2>8
    <2>10. VariantPart(m)[2] = "?"
      BY <1>1, <2>5, <2>6, <2>9, SetOff
    <2> QED
      BY <2>2, <2>3, <2>7, <2>8, <2>10
  <1>7. k.query = l.query /\ VariantPart(k) = VariantPart(l)
    <2>1. CASE k.query = <<>> /\ l.query = <<>>
      <3>1. QueryPart(k) = <<>> /\ QueryPart(l) = <<>>
        BY <2>1
      <3> HIDE DEF VariantPart, QueryPart
      <3> QED
        BY <1>2, <1>4, <2>1, <3>1, ConcatEmptySeq DEF Begins
    <2>2. CASE k.query # <<>> /\ l.query # <<>>
      <3> DEFINE q == QueryEscape(k.query)
                 p == QueryEscape(l.query)
      <3>1. QueryPart(k) = <<"?">> \o q /\ QueryPart(l) = <<"?">> \o p
        BY <2>2
      <3>2. Lacks(q, "?") /\ Lacks(p, "?") /\ q \in Seq(Byte) /\ p \in Seq(Byte)
        BY Encoded DEF Lacks
      <3>3. q = p => k.query = l.query
        BY EncoderAssumption DEF CacheKey
      <3> HIDE DEF q, p, VariantPart, QueryPart
      <3>4. VariantPart(k) \in Seq(Byte) /\ VariantPart(l) \in Seq(Byte) /\ <<"?">> \in Seq(Byte)
        BY <1>1, <1>2 DEF Begins
      <3>5. <<"?">> \o (q \o VariantPart(k)) = <<"?">> \o (p \o VariantPart(l))
        <4>1. /\ (<<"?">> \o q) \o VariantPart(k) = <<"?">> \o (q \o VariantPart(k))
              /\ (<<"?">> \o p) \o VariantPart(l) = <<"?">> \o (p \o VariantPart(l))
          BY <3>2, <3>4, ConcatAssociative
        <4> QED
          BY <1>4, <3>1, <4>1
      <3>6. q \o VariantPart(k) = p \o VariantPart(l)
        BY <3>2, <3>4, <3>5, ConcatProperties, ConcatSimplifications
      <3>7. q = p /\ VariantPart(k) = VariantPart(l)
        BY <1>2, <3>2, <3>6, JoinUnique
      <3> QED
        BY <3>3, <3>7
    <2> QED
      BY <1>4, <1>6, <2>1, <2>2
  <1>8. k.variant = l.variant
    <2> DEFINE v == PathEscape(k.variant)
               w == PathEscape(l.variant)
    <2>1. v \in Seq(Byte) /\ w \in Seq(Byte)
      BY Encoded
    <2>2. \A s \in Seq(Byte) : /\ <<"?">> \o s \in Seq(Byte) /\ <<"?">> \o s # <<>>
                               /\ \A t \in Seq(Byte) : <<"?">> \o s = <<"?">> \o t => s = t
      BY <1>1, SetOff
    <2>3. v = w => k.variant = l.variant
      BY EncoderAssumption DEF CacheKey
    <2>4. /\ VariantPart(k) = IF k.variant = <<>> THEN <<>> ELSE <<"?">> \o (<<"?">> \o v)
          /\ VariantPart(l) = IF l.variant = <<>> THEN <<>> ELSE <<"?">> \o (<<"?">> \o w)
      OBVIOUS
    <2> HIDE DEF v, w, VariantPart
    <2> QED
      BY <1>7, <2>1, <2>2, <2>3, <2>4
  <1> QED
    BY <1>5, <1>7, <1>8 DEF CacheKey

\* Two flights are never one: the singleflight key of a resource and a variant
\* is nobody else's (CacheKey.String).
THEOREM FlightsSeparate ==
  \A k, l \in CacheKey : FlightKey(k) = FlightKey(l) => k = l
  <1>0. SUFFICES ASSUME NEW k \in CacheKey, NEW l \in CacheKey, FlightKey(k) = FlightKey(l)
                 PROVE  k = l
    OBVIOUS
  <1> DEFINE Name(m)    == HostEscape(m.host) \o EscapedPath(m.path)
             QueryPart(m)   == IF m.query = <<>> THEN <<>> ELSE <<"?">> \o m.query
             VariantPart(m) == IF m.variant = <<>> THEN <<>> ELSE <<Nul>> \o m.variant
  <1>1. "?" \in Byte /\ Nul \in Byte /\ Nul # "?" /\ Scheme \in Seq(Byte)
    BY EncoderAssumption
  <1>2. \A m \in CacheKey : /\ Lacks(Name(m), "?") /\ Lacks(Name(m), Nul)
                            /\ Begins(QueryPart(m), "?") /\ Lacks(QueryPart(m), Nul)
                            /\ Begins(VariantPart(m), Nul)
    <2>1. SUFFICES ASSUME NEW m \in CacheKey
                   PROVE  /\ Lacks(Name(m), "?") /\ Lacks(Name(m), Nul)
                          /\ Begins(QueryPart(m), "?") /\ Lacks(QueryPart(m), Nul)
                          /\ Begins(VariantPart(m), Nul)
      OBVIOUS
    <2>2. /\ \A c \in {"?", Nul} : Lacks(HostEscape(m.host), c) /\ Lacks(EscapedPath(m.path), c)
          /\ m.query \in Seq(Byte) /\ m.variant \in Seq(Byte) /\ Lacks(m.query, Nul)
      BY Encoded
    <2>3. Lacks(Name(m), "?") /\ Lacks(Name(m), Nul)
      BY <2>2, JoinLacks
    <2>4. Begins(<<>>, "?") /\ Begins(<<>>, Nul) /\ Lacks(<<>>, Nul)
      BY EmptySeq DEF Begins, Lacks
    <2>5. Begins(QueryPart(m), "?")
      BY <1>1, <2>2, <2>4, SetOff
    <2>6. Lacks(QueryPart(m), Nul)
      <3>1. Lacks(<<"?">>, Nul)
        BY <1>1 DEF Lacks
      <3> QED
        BY <2>2, <2>4, <3>1, JoinLacks
    <2>7. Begins(VariantPart(m), Nul)
      BY <1>1, <2>2, <2>4, SetOff
    <2> QED
      BY <2>3, <2>5, <2>6, <2>7
  <1>3. \A m \in CacheKey : FlightKey(m) = Scheme \o ((Name(m) \o QueryPart(m)) \o VariantPart(m))
    BY DEF FlightKey
  <1>4. Name(k) = Name(l) /\ QueryPart(k) = QueryPart(l) /\ VariantPart(k) = VariantPart(l)
    <2> HIDE DEF Name, QueryPart, VariantPart
    <2>1. \A m \in CacheKey : /\ Lacks(Name(m) \o QueryPart(m), Nul)
                              /\ (Name(m) \o QueryPart(m)) \o VariantPart(m) \in Seq(Byte)
      BY <1>2, JoinLacks, ConcatProperties DEF Lacks, Begins
    <2>2. (Name(k) \o QueryPart(k)) \o VariantPart(k) = (Name(l) \o QueryPart(l)) \o VariantPart(l)
      BY <1>0, <1>1, <1>3, <2>1, ConcatSimplifications
    <2> DEFINE a == Name(k) \o QueryPart(k)
               b == Name(l) \o QueryPart(l)
    <2>3. Lacks(a, Nul) /\ Lacks(b, Nul) /\ a \o VariantPart(k) = b \o VariantPart(l)
      BY <2>1, <2>2
    <2> HIDE DEF a, b
    <2>4. Begins(VariantPart(k), Nul) /\ Begins(VariantPart(l), Nul)
      BY <1>2
    <2>5. a = b /\ VariantPart(k) = VariantPart(l)
      BY <2>3, <2>4, JoinUnique
    <2>6. Name(k) \o QueryPart(k) = Name(l) \o QueryPart(l)
      BY <2>5 DEF a, b
    <2> QED
      BY <1>2, <2>5, <2>6, JoinUnique
  <1>5. k.host = l.host /\ k.path = l.path
    <2>1. Lacks(HostEscape(k.host), "/") /\ Lacks(HostEscape(l.host), "/")
      BY Encoded
    <2>2. HostEscape(k.host) = HostEscape(l.host) /\ k.path = l.path
      BY <1>4, <2>1, ResourceUnique
    <2> QED
      BY <2>2, EncoderAssumption DEF CacheKey
  <1>6. k.query = l.query /\ k.variant = l.variant
    <2>1. /\ k.query \in Seq(Byte) /\ l.query \in Seq(Byte)
          /\ k.variant \in Seq(Byte) /\ l.variant \in Seq(Byte)
      BY Encoded
    <2>2. \A c \in {"?", Nul} : \A s \in Seq(Byte) :
            /\ <<c>> \o s # <<>>
            /\ \A t \in Seq(Byte) : <<c>> \o s = <<c>> \o t => s = t
      BY <1>1, SetOff
    <2> QED
      BY <1>4, <2>1, <2>2
  <1> QED
    BY <1>5, <1>6 DEF CacheKey

-----------------------------------------------------------------------------
(* Durations                                                               *)

LEMMA ModuloBelow ==
  ASSUME NEW m \in Nat \ {0}, NEW y \in 0..(m - 1)
  PROVE  y % m = y
  OBVIOUS

LEMMA ModuloLess ==
  ASSUME NEW m \in Nat \ {0}, NEW y \in Nat
  PROVE  y % m \in 0..(m - 1) /\ y % m <= y /\ (y % m < y => y % m <= y - m)
  OBVIOUS

LEMMA Powers ==
  \E h \in Nat : /\ MaxInt = h - 1 /\ MinInt = -h /\ 60 * Second < h
                 /\ Second \in Nat \ {0}
                 /\ \A x : Wrapped(x) = ((x - (-h)) % (2 * h)) + (-h)
  <1>1. PICK h \in Nat : h = 2^(Width - 1)
    BY PowerAssumption
  <1>2. MaxInt = h - 1 /\ MinInt = -h
    BY <1>1, Zenon DEF MaxInt, MinInt
  <1>3. 60 * Second < h /\ Second \in Nat \ {0}
    BY <1>1, WidthAssumption, Zenon
  <1>4. 2^Width = 2 * h
    BY <1>1, PowerAssumption, Zenon
  <1>5. \A x : Wrapped(x) = ((x - (-h)) % (2 * h)) + (-h)
    BY <1>2, <1>4, Zenon DEF Wrapped
  <1> QED
    BY <1>2, <1>3, <1>5, Zenon

-----------------------------------------------------------------------------
(* Texts and numbers                                                       *)

\* A text is over the alphabet of its kind and no longer than its bound; a
\* number fits in a Duration.
InputsInv ==
    /\ kind \in Kind
    /\ text \in Seq(Alphabet[kind])
    /\ Len(text) <= MaxLength[kind]
    /\ number \in MinInt..MaxInt

LEMMA InputsTyped == InputsSpec => []InputsInv
  <1>0. PICK h \in Nat : MaxInt = h - 1 /\ MinInt = -h /\ h > 0
    BY Powers
  <1>1. InputsInit => InputsInv
    <2>1. ASSUME NEW S
          PROVE  <<>> \in Seq(S) /\ Len(<<>>) = 0
      OBVIOUS
    <2>2. MinInt \in MinInt..MaxInt
      BY <1>0
    <2> QED
      BY <2>1, <2>2, LengthAssumption DEF InputsInit, InputsInv
  <1>2. InputsInv /\ [InputsNext]_inputVars => InputsInv'
    <2> SUFFICES ASSUME InputsInv, [InputsNext]_inputVars
                 PROVE  InputsInv'
      OBVIOUS
    <2>1. CASE Lengthen
      <3>1. PICK token \in Alphabet[kind] : text' = Append(text, token)
        BY <2>1 DEF Lengthen
      <3>2. text' \in Seq(Alphabet[kind]) /\ Len(text') = Len(text) + 1 /\ Len(text) \in Nat
        BY <3>1, AppendProperties, LenProperties DEF InputsInv
      <3>3. MaxLength[kind] \in Nat /\ Len(text) < MaxLength[kind]
        BY <2>1, LengthAssumption DEF Lengthen, InputsInv
      <3>4. kind' = kind /\ number' = number
        BY <2>1 DEF Lengthen
      <3> QED
        BY <3>2, <3>3, <3>4 DEF InputsInv
    <2>2. CASE Count
      <3>1. number' \in MinInt..MaxInt
        BY <1>0, <2>2 DEF Count, InputsInv
      <3> QED
        BY <2>2, <3>1 DEF Count, InputsInv
    <2>3. CASE UNCHANGED inputVars
      BY <2>3 DEF inputVars, InputsInv
    <2> QED
      BY <2>1, <2>2, <2>3 DEF InputsNext
  <1> QED
    BY <1>1, <1>2, PTL DEF InputsSpec

-----------------------------------------------------------------------------
(* Ages and lives                                                          *)

LEMMA NumberTyped ==
  ASSUME InputsInv
  PROVE  number \in Int
  <1>1. PICK h \in Nat : MaxInt = h - 1 /\ MinInt = -h
    BY Powers
  <1> QED
    BY <1>1 DEF InputsInv

\* Division rounds down.
LEMMA DivisionBelow ==
  ASSUME NEW a \in Nat, NEW b \in Nat \ {0}
  PROVE  a \div b \in Nat /\ b * (a \div b) <= a
  OBVIOUS

\* A product grows with its factor.
LEMMA ProductBelow ==
  ASSUME NEW a \in Nat, NEW b \in Nat, NEW c \in Nat, a <= b
  PROVE  a * c <= b * c /\ a * c \in Nat
  OBVIOUS

\* The age parseDeltaSeconds lets through is at most half of a Duration, and
\* so is the time in the cache: their sum is one, for Durations of any width
\* (parseDeltaSeconds, Evaluate).
THEOREM AgesAdd == InputsSpec => []AgeNeverWraps
  <1>1. InputsInv => AgeNeverWraps
    <2> SUFFICES ASSUME InputsInv, number >= 0, ParseDeltaSeconds(number) # Invalid,
                        NEW resident \in 0..(MaxInt \div 2)
                 PROVE  CurrentAge(resident, ParseDeltaSeconds(number))
                          = resident + number * Second
      BY DEF AgeNeverWraps
    <2>1. PICK h \in Nat :
             /\ MaxInt = h - 1 /\ MinInt = -h /\ 60 * Second < h /\ Second \in Nat \ {0}
             /\ \A x : Wrapped(x) = ((x - (-h)) % (2 * h)) + (-h)
      BY Powers
    <2>2. number \in Nat
      BY NumberTyped
    <2> DEFINE most == MaxInt \div Second
               half == MaxInt \div 2
               said == number * Second
    <2>3. /\ MaxInt \in Nat /\ most \in Nat /\ Second * most <= MaxInt
          /\ half \in Nat /\ 2 * half <= MaxInt
      BY <2>1, DivisionBelow
    <2>4. number <= most \div 2 /\ ParseDeltaSeconds(number) = Wrapped(said)
      <3>1. most \div 2 \in Nat
        BY <2>3, DivisionBelow
      <3> QED
        BY <2>2, <3>1 DEF ParseDeltaSeconds
    <2>5. 2 * number <= most
      BY <2>2, <2>3, <2>4, DivisionBelow
    <2>6. (2 * number) * Second <= most * Second /\ said \in Nat
      BY <2>1, <2>2, <2>3, <2>5, ProductBelow
    <2>7. 2 * said <= MaxInt
      BY <2>1, <2>2, <2>3, <2>6
    <2>8. resident \in Nat /\ 2 * resident <= MaxInt
      BY <2>3
    <2> HIDE DEF most, half, said
    <2>9. \A x \in Nat : x <= MaxInt => Wrapped(x) = x
      <3>1. SUFFICES ASSUME NEW x \in Nat, x <= MaxInt
                     PROVE  Wrapped(x) = x
        OBVIOUS
      <3>2. x - (-h) \in 0..(2 * h - 1) /\ 2 * h \in Nat \ {0}
        BY <2>1, <3>1
      <3>3. (x - (-h)) % (2 * h) = x - (-h)
        BY <3>2, ModuloBelow
      <3> QED
        BY <2>1, <3>3
    <2>10. ParseDeltaSeconds(number) = said
      BY <2>3, <2>4, <2>6, <2>7, <2>9
    <2>11. resident + said \in Nat /\ resident + said <= MaxInt
      BY <2>3, <2>6, <2>7, <2>8
    <2>12. CurrentAge(resident, said) = resident + said
      BY <2>9, <2>11 DEF CurrentAge
    <2> QED
      BY <2>10, <2>12 DEF said
  <1> QED
    BY <1>1, InputsTyped, PTL

\* What wraps around upwards of 0 loses a whole turn at least.
LEMMA WrapsDown ==
  \E h \in Nat :
    /\ MaxInt = h - 1 /\ 60 * Second < h /\ Second \in Nat \ {0}
    /\ \A x \in Nat : /\ Wrapped(x) \in (-h)..(h - 1)
                      /\ Wrapped(x) = x \/ Wrapped(x) <= x - 2 * h
    /\ \A x \in Int : /\ x \in (-h)..(h - 1) => Wrapped(x) = x
                      /\ x < -h /\ x >= -(3 * h) => Wrapped(x) = x + 2 * h
  <1>1. PICK h \in Nat :
          /\ MaxInt = h - 1 /\ MinInt = -h /\ 60 * Second < h /\ Second \in Nat \ {0}
          /\ \A x : Wrapped(x) = ((x - (-h)) % (2 * h)) + (-h)
    BY Powers
  <1>2. h > 0 /\ 2 * h \in Nat \ {0}
    BY <1>1
  <1>3. ASSUME NEW x \in Nat
        PROVE  /\ Wrapped(x) \in (-h)..(h - 1)
               /\ Wrapped(x) = x \/ Wrapped(x) <= x - 2 * h
    <2> DEFINE y == x - (-h)
               m == 2 * h
    <2>1. y \in Nat /\ m \in Nat \ {0} /\ y = x + h
      BY <1>2
    <2>2. Wrapped(x) = (y % m) + (-h)
      BY <1>1
    <2> HIDE DEF y
    <2>3. y % m \in 0..(m - 1) /\ y % m <= y /\ (y % m < y => y % m <= y - m)
      BY <2>1, ModuloLess
    <2> QED
      BY <2>1, <2>2, <2>3
  <1>4. ASSUME NEW x \in (-h)..(h - 1)
        PROVE  Wrapped(x) = x
    <2>1. x - (-h) \in 0..(2 * h - 1)
      OBVIOUS
    <2>2. (x - (-h)) % (2 * h) = x - (-h)
      BY <1>2, <2>1, ModuloBelow
    <2> QED
      BY <1>1, <2>2
  <1>5. ASSUME NEW x \in Int, x < -h, x >= -(3 * h)
        PROVE  Wrapped(x) = x + 2 * h
    <2> DEFINE y == x - (-h)
               m == 2 * h
    <2>1. y \in Int /\ y < 0 /\ y >= -m /\ m \in Nat \ {0} /\ y = x + h
      BY <1>2, <1>5
    <2>2. Wrapped(x) = (y % m) + (-h)
      BY <1>1
    <2>3. y % m = y + m
      <3> HIDE DEF y, m
      <3> QED
        BY <2>1
    <2> QED
      BY <2>1, <2>2, <2>3
  <1> QED
    BY <1>1, <1>3, <1>4, <1>5

\* A token lives for a while, and not longer than expires_in says or 5
\* seconds, even where the product with a second wraps around, for Durations
\* of any width that hold a minute (fetchToken).
THEOREM TokenLives == InputsSpec => []TokenLifeHonest
  <1>1. InputsInv => TokenLifeHonest
    <2> SUFFICES ASSUME InputsInv, number >= 0
                 PROVE  /\ TokenLife(number) > 0
                        /\ TokenLife(number)
                             <= Max({5, IF number = 0 THEN 60 ELSE number}) * Second
      BY DEF TokenLifeHonest
    <2> DEFINE said == IF number = 0 THEN 60 ELSE number
               most == Max({5, said})
    <2>1. PICK h \in Nat :
            /\ MaxInt = h - 1 /\ 60 * Second < h /\ Second \in Nat \ {0}
            /\ \A x \in Nat : /\ Wrapped(x) \in (-h)..(h - 1)
                              /\ Wrapped(x) = x \/ Wrapped(x) <= x - 2 * h
            /\ \A x \in Int : /\ x \in (-h)..(h - 1) => Wrapped(x) = x
                              /\ x < -h /\ x >= -(3 * h) => Wrapped(x) = x + 2 * h
      BY WrapsDown
    <2>2. said \in Nat /\ said >= 1
      BY NumberTyped
    <2>3. most \in Nat /\ most >= 5 /\ most >= said
      <3>1. \E x \in {5, said} : \A y \in {5, said} : x >= y
        BY <2>2
      <3>2. most \in {5, said} /\ \A y \in {5, said} : most >= y
        <4> HIDE DEF said
        <4> QED
          BY <3>1 DEF Max
      <3> QED
        BY <2>2, <3>2
    <2> DEFINE product  == said * Second
               first    == Wrapped(product)
               short    == first - 30 * Second
               buffered == Wrapped(short)
    <2>4. TokenLife(number) = IF buffered <= 0 THEN 5 * Second ELSE buffered
      BY DEF TokenLife
    <2> HIDE DEF most, said
    <2>5. product \in Nat /\ product >= Second
      BY <2>1, <2>2, ProductBelow
    <2>6. 5 * Second <= most * Second /\ product <= most * Second /\ most * Second \in Nat
      BY <2>1, <2>2, <2>3, ProductBelow
    <2>7. first \in (-h)..(h - 1) /\ (first = product \/ first <= product - 2 * h)
      BY <2>1, <2>5
    <2> HIDE DEF product, first
    <2>8. short \in Int /\ short >= -(3 * h) /\ short < h
      BY <2>1, <2>7
    <2>9. buffered <= product /\ buffered \in Int
      <3>1. CASE short >= -h
        <4>1. buffered = short
          BY <2>1, <2>8, <3>1
        <4>2. first <= product
          BY <2>1, <2>5, <2>7
        <4> HIDE DEF buffered
        <4> QED
          BY <2>1, <2>5, <2>7, <4>1, <4>2
      <3>2. CASE short < -h
        <4>1. buffered = short + 2 * h
          BY <2>1, <2>8, <3>2
        <4>2. first <= product - 2 * h
          BY <2>1, <2>5, <2>7, <3>2
        <4> HIDE DEF buffered
        <4> QED
          BY <2>1, <2>5, <2>7, <4>1, <4>2
      <3> QED
        BY <2>8, <3>1, <3>2
    <2> HIDE DEF buffered
    <2>10. TokenLife(number) > 0 /\ TokenLife(number) <= most * Second
      BY <2>1, <2>4, <2>5, <2>6, <2>9
    <2> QED
      BY <2>10 DEF most, said
  <1> QED
    BY <1>1, InputsTyped, PTL

-----------------------------------------------------------------------------
(* Copy sources                                                            *)

\* A byte is read back as it was escaped: a plus sign never stands for itself.
LEMMA EscapedByte ==
  ASSUME NEW s, NEW i \in DOMAIN s
  PROVE  /\ i \in DOMAIN EscapeCopySource(s)
         /\ EscapeCopySource(s)[i] # <<"+">>
         /\ EscapeCopySource(s)[i][Len(EscapeCopySource(s)[i])] = s[i]
  <1>1. EscapeCopySource(s)[i] = IF s[i] \in {"a", "/"} THEN <<s[i]>> ELSE <<"%", s[i]>>
    BY DEF EscapeCopySource, Unreserved
  <1>2. i \in DOMAIN EscapeCopySource(s)
    BY DEF EscapeCopySource
  <1> DEFINE b == s[i]
  <1>3. /\ <<b>>[1] = b /\ Len(<<b>>) = 1
        /\ <<"%", b>>[2] = b /\ Len(<<"%", b>>) = 2
    OBVIOUS
  <1>4. CASE b \in {"a", "/"}
    BY <1>1, <1>2, <1>3, <1>4
  <1>5. CASE b \notin {"a", "/"}
    <2>1. <<"%", b>> # <<"+">>
      BY <1>3
    <2> QED
      BY <1>1, <1>2, <1>3, <1>5, <2>1
  <1> QED
    BY <1>4, <1>5

\* The source of a touch's copy names the touched object itself, whatever
\* bytes its key has and however long it is (escapeCopySource).
THEOREM CopiesName == InputsSpec => []CopySourceNames
  <1>1. ASSUME NEW S, NEW s \in Seq(S)
        PROVE  ReadCopySource(EscapeCopySource(s)) = s
    <2>1. DOMAIN EscapeCopySource(s) = DOMAIN s
      BY DEF EscapeCopySource
    <2>2. ReadCopySource(EscapeCopySource(s)) = [i \in DOMAIN s |-> s[i]]
      BY <2>1, EscapedByte DEF ReadCopySource
    <2>3. s = [i \in DOMAIN s |-> s[i]]
      BY IsASeq
    <2> QED
      BY <2>2, <2>3
  <1>2. InputsInv => CopySourceNames
    BY <1>1 DEF InputsInv, CopySourceNames
  <1> QED
    BY <1>2, InputsTyped, PTL

-----------------------------------------------------------------------------
(* Repositories                                                            *)

\* After a repository comes an action, and no other action with something
\* after it.
Word == Actions \cup {"uploads", "list", "x"}

Tailing(rest) ==
    /\ rest \in Seq(Word)
    /\ Len(rest) \in {2, 3}
    /\ rest[1] \in Actions
    /\ Len(rest) = 3 => rest[2] \notin Actions

\* What is behind /v2/, and where an action with something after it is.
Behind(path)  == SubSeq(path, 3, Len(path))
ActionsAt(ss) == {i \in 2..(Len(ss) - 1) : ss[i] \in Actions}

\* Segments joined.
LEMMA JoinAt ==
  ASSUME NEW S, NEW s \in Seq(S), NEW t \in Seq(S)
  PROVE  /\ s \o t \in Seq(S) /\ Len(s \o t) = Len(s) + Len(t)
         /\ \A i \in 1..(Len(s) + Len(t)) :
              (s \o t)[i] = IF i <= Len(s) THEN s[i] ELSE t[i - Len(s)]
  BY ConcatProperties, LenProperties

\* The last of them ends the name; e stands for the empty segment.
LEMMA LastAction ==
  ASSUME NEW S, NEW name \in Seq(S), NEW e, e \notin S, NEW rest, Tailing(rest),
         NEW path, path = (<<e, "v2">> \o name) \o rest
  PROVE  /\ path[1] = e /\ path[2] = "v2" /\ ~(Len(path) < 3)
         /\ name = <<>> => ActionsAt(Behind(path)) = {}
         /\ name # <<>> => /\ ActionsAt(Behind(path)) # {}
                           /\ SubSeq(Behind(path), 1, Max(ActionsAt(Behind(path))) - 1) = name
                           /\ name # <<e>>
  <1> DEFINE head  == <<e, "v2">>
             T     == S \cup Word \cup {e, "v2"}
             n     == Len(name)
             k     == Len(rest)
             front == head \o name
             tail  == Behind(path)
             at    == ActionsAt(tail)
  <1>1. head \in Seq(T) /\ Len(head) = 2 /\ head[1] = e /\ head[2] = "v2"
    OBVIOUS
  <1>2. /\ name \in Seq(T) /\ rest \in Seq(T) /\ n \in Nat /\ k \in {2, 3}
    BY SeqMonotonic, LenProperties DEF Tailing
  <1>3. path = front \o rest
    OBVIOUS
  <1> HIDE DEF head, T
  <1>4. /\ front \in Seq(T) /\ Len(front) = 2 + n
        /\ \A i \in 1..(2 + n) : front[i] = IF i <= 2 THEN head[i] ELSE name[i - 2]
    <2>1. /\ front \in Seq(T) /\ Len(front) = Len(head) + Len(name)
          /\ \A i \in 1..(Len(head) + Len(name)) :
               front[i] = IF i <= Len(head) THEN head[i] ELSE name[i - Len(head)]
      BY <1>1, <1>2, JoinAt
    <2> QED
      BY <1>1, <2>1
  <1> HIDE DEF n, k, front
  <1>5. /\ path \in Seq(T) /\ Len(path) = (2 + n) + k
        /\ \A i \in 1..((2 + n) + k) : path[i] = IF i <= 2 + n THEN front[i]
                                                ELSE rest[i - (2 + n)]
    <2>1. /\ front \o rest \in Seq(T) /\ Len(front \o rest) = Len(front) + Len(rest)
          /\ \A i \in 1..(Len(front) + Len(rest)) :
               (front \o rest)[i] = IF i <= Len(front) THEN front[i] ELSE rest[i - Len(front)]
      BY <1>2, <1>4, JoinAt
    <2> QED
      BY <1>3, <1>4, <2>1 DEF k
  <1>6. path[1] = e /\ path[2] = "v2" /\ Len(path) >= 4
    BY <1>1, <1>2, <1>4, <1>5
  <1>7. /\ tail \in Seq(T) /\ Len(tail) = n + k
        /\ \A i \in 1..(n + k) : tail[i] = path[i + 2]
    <2>1. \A i \in 3..Len(path) : path[i] \in T
      BY <1>2, <1>5, ElementOfSeq
    <2>2. 3 \in Int /\ Len(path) \in Int
      BY <1>2, <1>5
    <2>3. /\ SubSeq(path, 3, Len(path)) \in Seq(T)
          /\ Len(SubSeq(path, 3, Len(path))) = IF 3 <= Len(path) THEN Len(path) - 3 + 1 ELSE 0
          /\ \A i \in 1..(Len(path) - 3 + 1) :
               SubSeq(path, 3, Len(path))[i] = path[3 + i - 1]
      BY <2>1, <2>2, SubSeqProperties
    <2> QED
      BY <1>2, <1>5, <2>3 DEF Behind
  <1> HIDE DEF tail
  <1>8. \A i \in 1..(n + k) : tail[i] = IF i <= n THEN name[i] ELSE rest[i - n]
    <2>1. SUFFICES ASSUME NEW i \in 1..(n + k)
                   PROVE  tail[i] = IF i <= n THEN name[i] ELSE rest[i - n]
      OBVIOUS
    <2>2. /\ tail[i] = path[i + 2]
          /\ i + 2 \in 1..((2 + n) + k) /\ ~(i + 2 <= 2) /\ (i + 2) - 2 = i
          /\ (i + 2) - (2 + n) = i - n /\ (i + 2 <= 2 + n <=> i <= n)
      <3>1. k \in Nat /\ n \in Nat
        BY <1>2
      <3>2. tail[i] = path[i + 2]
        BY <1>7
      <3> HIDE DEF k, n
      <3> QED
        BY <3>1, <3>2
    <2>3. i <= n => i + 2 \in 1..(2 + n)
      BY <1>2
    <2>4. CASE i <= n
      BY <1>4, <1>5, <2>2, <2>3, <2>4
    <2>5. CASE ~(i <= n)
      BY <1>5, <2>2, <2>5
    <2> QED
      BY <2>4, <2>5
  <1>9. n >= 1 => n + 1 \in at
    <2>1. n >= 1 => n + 1 \in 2..(n + k - 1)
      BY <1>2
    <2>2. n + 1 \in 1..(n + k) /\ ~(n + 1 <= n) /\ (n + 1) - n = 1
      BY <1>2
    <2>3. tail[n + 1] \in Actions
      BY <1>8, <2>2 DEF Tailing
    <2>4. n >= 1 => n + 1 \in 2..(Len(tail) - 1)
      BY <1>2, <1>7, <2>1
    <2> QED
      BY <2>3, <2>4, Zenon DEF ActionsAt
  <1>10. \A i \in at : i \in 2..(n + 1)
    <2>1. SUFFICES ASSUME NEW i \in 2..(n + k - 1), tail[i] \in Actions, i > n + 1
                   PROVE  FALSE
      BY <1>2, <1>7 DEF ActionsAt
    <2>2. k = 3 /\ i - n = 2
      <3>1. CASE k = 2
        BY <1>2, <2>1, <3>1
      <3>2. CASE k = 3
        BY <1>2, <2>1, <3>2
      <3> QED
        BY <1>2, <3>1, <3>2
    <2>3. i \in 1..(n + k) /\ ~(i <= n)
      BY <1>2, <2>1
    <2>4. tail[i] = rest[2]
      BY <1>8, <2>2, <2>3
    <2> QED
      BY <2>1, <2>2, <2>4 DEF Tailing, k
  <1> HIDE DEF at
  <1>11. name = <<>> => at = {}
    <2>1. name = <<>> => n = 0
      BY DEF n
    <2> QED
      BY <1>10, <2>1
  <1>12. ASSUME n >= 1
         PROVE  at # {} /\ SubSeq(tail, 1, Max(at) - 1) = name /\ name # <<e>>
    <2>1. Max(at) \in at /\ \A i \in at : Max(at) >= i
      <3>1. \E i \in at : \A j \in at : i >= j
        BY <1>2, <1>9, <1>10, <1>12
      <3> QED
        BY <3>1 DEF Max
    <2>2. Max(at) = n + 1
      BY <1>2, <1>9, <1>10, <1>12, <2>1
    <2>3. Max(at) - 1 = n
      BY <1>2, <2>2
    <2>4. SubSeq(tail, 1, n) = name
      <3>1. \A i \in 1..n : tail[i] = name[i] /\ tail[i] \in T
        BY <1>2, <1>8, ElementOfSeq DEF n
      <3>2. /\ SubSeq(tail, 1, n) \in Seq(T) /\ Len(SubSeq(tail, 1, n)) = n
            /\ \A i \in 1..n : SubSeq(tail, 1, n)[i] = tail[1 + i - 1]
        <4>1. 1 \in Int /\ n \in Int
          BY <1>2
        <4>2. /\ SubSeq(tail, 1, n) \in Seq(T)
              /\ Len(SubSeq(tail, 1, n)) = IF 1 <= n THEN n - 1 + 1 ELSE 0
              /\ \A i \in 1..(n - 1 + 1) : SubSeq(tail, 1, n)[i] = tail[1 + i - 1]
          BY <3>1, <4>1, SubSeqProperties
        <4> QED
          BY <1>2, <1>12, <4>2
      <3>3. \A i \in 1..n : SubSeq(tail, 1, n)[i] = name[i]
        BY <3>1, <3>2
      <3> QED
        BY <1>2, <3>2, <3>3, SeqEqual DEF n
    <2>5. name # <<e>>
      <3>1. name[1] \in S
        BY <1>2, <1>12, ElementOfSeq DEF n
      <3> QED
        BY <3>1
    <2> QED
      BY <1>9, <1>12, <2>3, <2>4, <2>5
  <1>13. name # <<>> => n >= 1
    BY <1>2, EmptySeq DEF n
  <1> QED
    <2>1. ~(Len(path) < 3)
      BY <1>5, <1>6
    <2> QED
      BY <1>6, <1>11, <1>12, <1>13, <2>1, Zenon DEF at, tail

LEMMA Extracted ==
  ASSUME NEW S, NEW name \in Seq(S), "" \notin S, NEW rest, Tailing(rest)
  PROVE  ExtractOCIRepository((<<"", "v2">> \o name) \o rest)
           = IF name = <<>> THEN Absent ELSE name
  <1>1. SUFFICES ASSUME NEW path, path = (<<"", "v2">> \o name) \o rest
                 PROVE  ExtractOCIRepository(path) = IF name = <<>> THEN Absent ELSE name
    BY Zenon
  <1> DEFINE at   == ActionsAt(Behind(path))
             repo == SubSeq(Behind(path), 1, Max(at) - 1)
  <1>4. path = (<<"", "v2">> \o name) \o rest /\ "" \notin S
    BY <1>1, Zenon
  <1>2. /\ path[1] = "" /\ path[2] = "v2" /\ ~(Len(path) < 3)
        /\ name = <<>> => at = {}
        /\ name # <<>> => at # {} /\ repo = name /\ name # <<"">>
    <2>1. \A e, p : e \notin S /\ p = (<<e, "v2">> \o name) \o rest =>
            /\ p[1] = e /\ p[2] = "v2" /\ ~(Len(p) < 3)
            /\ name = <<>> => ActionsAt(Behind(p)) = {}
            /\ name # <<>> => /\ ActionsAt(Behind(p)) # {}
                              /\ SubSeq(Behind(p), 1, Max(ActionsAt(Behind(p))) - 1) = name
                              /\ name # <<e>>
      BY LastAction
    <2> QED
      BY <1>4, <2>1, Zenon
  <1>3. ExtractOCIRepository(path)
          = IF Len(path) < 3 \/ path[1] # "" \/ path[2] # "v2" \/ at = {} \/ repo = <<"">>
            THEN Absent ELSE repo
    BY Zenon DEF ExtractOCIRepository, ActionsAt, Behind
  <1> HIDE DEF at, repo
  <1> QED
    BY <1>2, <1>3, Zenon

\* A path made for a repository is read as that repository's, however many
\* segments its name has and whatever they are (extractOCIRepository).
THEOREM RepositoriesExact == InputsSpec => []RepositoryExact
  <1>1. /\ Tailing(<<"manifests", "x">>) /\ Tailing(<<"manifests", "tags">>)
        /\ Tailing(<<"blobs", "x">>) /\ Tailing(<<"tags", "list">>)
    BY DEF Tailing, Word, Actions
  <1>3. Tailing(<<"blobs", "uploads", "x">>)
    BY DEF Tailing, Word, Actions
  <1>2. InputsInv => RepositoryExact
    BY <1>1, <1>3, Extracted, SegmentAssumption, Zenon DEF InputsInv, RepositoryExact
  <1> QED
    BY <1>2, InputsTyped, PTL

-----------------------------------------------------------------------------
(* Keys of requests                                                        *)

\* A set of natural numbers has a least one.
LEMMA LeastOf ==
  ASSUME NEW T, T \subseteq Nat, T # {}
  PROVE  Min(T) \in T /\ \A i \in T : Min(T) <= i
  <1>1. \E x \in T : \A y \in T : ~ (<<y, x>> \in OpToRel(<, Nat))
    BY WFMin, NatLessThanWellFounded, Zenon
  <1>2. \E x \in T : \A y \in T : ~ (y < x)
    BY <1>1, Zenon DEF OpToRel
  <1>3. \E x \in T : \A y \in T : x <= y
    BY <1>2
  <1> QED
    BY <1>3 DEF Min

\* A part of a text is a text that is no longer than asked for.
LEMMA PartOf ==
  ASSUME NEW S, NEW s \in Seq(S), NEW i \in 1..Len(s), NEW j \in (i - 1)..Len(s),
         NEW n \in Nat, j - i + 1 <= n
  PROVE  /\ SubSeq(s, i, j) \in BoundedSeq(S, n)
         /\ i <= j => SubSeq(s, i, j) # <<>> /\ SubSeq(s, i, j)[1] = s[i]
  <1>1. \A l \in i..j : s[l] \in S
    BY ElementOfSeq, LenProperties
  <1>2. i \in Int /\ j \in Int
    BY LenProperties
  <1>3. /\ SubSeq(s, i, j) \in Seq(S)
        /\ Len(SubSeq(s, i, j)) = IF i <= j THEN j - i + 1 ELSE 0
        /\ \A l \in 1..(j - i + 1) : SubSeq(s, i, j)[l] = s[i + l - 1]
    BY <1>1, <1>2, SubSeqProperties
  <1> DEFINE part == SubSeq(s, i, j)
             k    == Len(part)
  <1>4. k \in 0..n
    BY <1>2, <1>3
  <1>5. part \in [1..k -> S]
    BY <1>3, LenProperties
  <1>6. part \in BoundedSeq(S, n)
    BY <1>4, <1>5, Zenon DEF BoundedSeq, SeqOf
  <1>7. i <= j => part # <<>> /\ part[1] = s[i]
    BY <1>2, <1>3
  <1> QED
    BY <1>6, <1>7

\* The URL of a request is cut at a slash behind its first byte.
LEMMA TargetCut ==
  ASSUME NEW S, NEW s \in Seq(S), ParseTargetURL(<<"/">> \o s) # None
  PROVE  \E m \in 2..Len(s) :
           /\ s[m] = "/"
           /\ ParseTargetURL(<<"/">> \o s)
                = [host |-> SubSeq(s, 1, m - 1), path |-> SubSeq(s, m, Len(s))]
  <1> DEFINE path    == <<"/">> \o s
             slashes == {i \in DOMAIN s : s[i] = "/"}
  <1>1. path # <<>> /\ path[1] = "/" /\ Tail(path) = s
    <2>1. \A e : Tail(<<e>> \o s) = s /\ <<e>> \o s # <<>> /\ (<<e>> \o s)[1] = e
      OBVIOUS
    <2> QED
      BY <2>1, Zenon
  <1> HIDE DEF path
  <1>2. ParseTargetURL(path)
          = IF slashes = {} \/ Min(slashes) = 1 THEN None
            ELSE [host |-> SubSeq(s, 1, Min(slashes) - 1),
                  path |-> SubSeq(s, Min(slashes), Len(s))]
    BY <1>1, Zenon DEF ParseTargetURL
  <1>3. slashes # {} /\ Min(slashes) # 1
    BY <1>2 DEF path
  <1>4. slashes \subseteq 1..Len(s) /\ Len(s) \in Nat
    BY LenProperties
  <1>5. Min(slashes) \in slashes
    <2>1. slashes \subseteq Nat
      BY <1>4
    <2> HIDE DEF slashes
    <2> QED
      BY <1>3, <2>1, LeastOf
  <1>6. Min(slashes) \in 2..Len(s) /\ s[Min(slashes)] = "/"
    BY <1>3, <1>4, <1>5
  <1> QED
    BY <1>2, <1>3, <1>6, Zenon DEF path

\* Requests for different things never share an object or a flight, whatever
\* their bytes (parseTargetURL, s3PathFor, CacheKey.String).
THEOREM RequestsSeparate == InputsSpec => []KeysSeparate
  <1>1. ASSUME InputsInv, kind = "key", NEW url, url = ParseTargetURL(<<"/">> \o text),
               url # None, NEW q \in Query, NEW v \in Variant
        PROVE  [host |-> url.host, path |-> url.path, query |-> q, variant |-> v] \in CacheKey
    <2> DEFINE n == MaxLength["key"] - 1
    <2>1. text \in Seq(Alphabet["key"]) /\ Len(text) <= n + 1 /\ MaxLength["key"] \in Nat
      BY <1>1, LengthAssumption DEF InputsInv
    <2>2. PICK m \in 2..Len(text) :
            /\ text[m] = "/"
            /\ url = [host |-> SubSeq(text, 1, m - 1), path |-> SubSeq(text, m, Len(text))]
      BY <1>1, <2>1, TargetCut, Zenon
    <2>3. Len(text) \in Nat /\ n \in Nat
      BY <2>1, <2>2, LenProperties
    <2> HIDE DEF n
    <2>4. url.host \in BoundedSeq(Alphabet["key"], n)
      <3>1. 1 \in 1..Len(text) /\ m - 1 \in (1 - 1)..Len(text) /\ (m - 1) - 1 + 1 <= n
        BY <2>1, <2>3
      <3>2. SubSeq(text, 1, m - 1) \in BoundedSeq(Alphabet["key"], n)
        BY <2>1, <2>3, <3>1, PartOf
      <3> QED
        BY <2>2, <3>2
    <2>5. url.path \in BoundedSeq(Alphabet["key"], n) /\ url.path # <<>> /\ url.path[1] = "/"
      <3>1. /\ m \in 1..Len(text) /\ Len(text) \in (m - 1)..Len(text)
            /\ Len(text) - m + 1 <= n /\ m <= Len(text)
        BY <2>1, <2>3
      <3>2. /\ SubSeq(text, m, Len(text)) \in BoundedSeq(Alphabet["key"], n)
            /\ SubSeq(text, m, Len(text)) # <<>> /\ SubSeq(text, m, Len(text))[1] = text[m]
        BY <2>1, <2>3, <3>1, PartOf
      <3> QED
        BY <2>2, <3>2
    <2>6. /\ BoundedSeq(Alphabet["key"], n) \subseteq Text
          /\ q \in Text \cap Bytes({Nul}) /\ v \in Text \cap Bytes({Nul})
      BY <1>1, KeyAssumption, Zenon DEF InputsInv, n
    <2> QED
      BY <2>4, <2>5, <2>6 DEF CacheKey
  <1>2. "key" \in Kind => OtherKey \subseteq CacheKey
    BY KeyAssumption
  <1>3. ASSUME InputsInv
        PROVE  KeysSeparate
    <2> DEFINE url     == ParseTargetURL(<<"/">> \o text)
               K(q, v) == [host |-> url.host, path |-> url.path, query |-> q, variant |-> v]
    <2>1. SUFFICES ASSUME kind = "key", url # None, NEW q \in Query, NEW v \in Variant,
                          NEW l \in OtherKey
                   PROVE  /\ S3PathFor(K(q, v)) = S3PathFor(l) => K(q, v) = l
                          /\ FlightKey(K(q, v)) = FlightKey(l) => K(q, v) = l
      BY Zenon DEF KeysSeparate
    <2>2. K(q, v) \in CacheKey
      BY <1>1, <1>3, <2>1, Zenon
    <2>3. l \in CacheKey
      BY <1>2, <1>3, <2>1, Zenon DEF InputsInv
    <2> HIDE DEF K
    <2> QED
      BY <2>2, <2>3, ObjectsSeparate, FlightsSeparate, Zenon
  <1> QED
    BY <1>3, InputsTyped, PTL

-----------------------------------------------------------------------------
(* Induction over data, as statements about sets                           *)

LEMMA Induct ==
  ASSUME NEW T, 0 \in T, \A i \in Nat : i \in T => i + 1 \in T
  PROVE  \A i \in Nat : i \in T
  <1> DEFINE bad == {i \in Nat : i \notin T}
             m   == Min(bad)
  <1>1. SUFFICES ASSUME bad # {}
                 PROVE  FALSE
    OBVIOUS
  <1>2. bad \subseteq Nat
    OBVIOUS
  <1> HIDE DEF bad
  <1>3. m \in bad /\ \A i \in bad : m <= i
    BY <1>1, <1>2, LeastOf
  <1> HIDE DEF m
  <1>4. m \in Nat /\ m # 0 /\ m \notin T
    BY <1>3 DEF bad
  <1>5. m - 1 \in Nat /\ m - 1 \notin bad /\ (m - 1) + 1 = m
    BY <1>3, <1>4
  <1> QED
    BY <1>4, <1>5 DEF bad

\* A sequence that is not empty is another with an element behind it.
LEMMA FrontLast ==
  ASSUME NEW A, NEW s \in Seq(A)
  PROVE  /\ s # <<>> => /\ Front(s) \in Seq(A) /\ Last(s) \in A
                        /\ s = Append(Front(s), Last(s))
                        /\ Len(s) = Len(Front(s)) + 1
         /\ \A a \in A : /\ Append(s, a) \in Seq(A) /\ Append(s, a) # <<>>
                         /\ Front(Append(s, a)) = s /\ Last(Append(s, a)) = a
  <1>1. ASSUME NEW t \in Seq(A), NEW a \in A
        PROVE  /\ Append(t, a) \in Seq(A) /\ Append(t, a) # <<>>
               /\ Front(Append(t, a)) = t /\ Last(Append(t, a)) = a
               /\ Len(Append(t, a)) = Len(t) + 1
    <2> DEFINE u == Append(t, a)
               n == Len(t)
    <2>1. /\ u \in Seq(A) /\ u # <<>> /\ Len(u) = n + 1 /\ n \in Nat
          /\ \A i \in 1..n : u[i] = t[i] /\ u[n + 1] = a
      BY AppendProperties, LenProperties
    <2>2. u[n + 1] = a
      BY AppendProperties
    <2> HIDE DEF u
    <2>3. Last(u) = a /\ Front(u) = SubSeq(u, 1, n)
      BY <2>1, <2>2 DEF Last, Front
    <2>4. \A i \in 1..n : u[i] \in A
      BY <2>1, ElementOfSeq
    <2>5. 1 \in Int /\ n \in Int
      BY <2>1
    <2>6. /\ SubSeq(u, 1, n) \in Seq(A)
          /\ Len(SubSeq(u, 1, n)) = IF 1 <= n THEN n - 1 + 1 ELSE 0
          /\ \A i \in 1..(n - 1 + 1) : SubSeq(u, 1, n)[i] = u[1 + i - 1]
      BY <2>4, <2>5, SubSeqProperties
    <2>7. Len(SubSeq(u, 1, n)) = n /\ \A i \in 1..n : SubSeq(u, 1, n)[i] = t[i]
      BY <2>1, <2>6
    <2>8. SubSeq(u, 1, n) = t
      BY <2>1, <2>6, <2>7, SeqEqual
    <2> QED
      BY <2>1, <2>3, <2>8 DEF u
  <1>2. ASSUME s # <<>>
        PROVE  /\ Front(s) \in Seq(A) /\ Last(s) \in A
               /\ s = Append(Front(s), Last(s))
               /\ Len(s) = Len(Front(s)) + 1
    <2>1. PICK t \in Seq(A), a \in A : s = Append(t, a)
      BY <1>2, SequenceEmptyOrAppend
    <2> QED
      BY <1>1, <2>1
  <1> QED
    BY <1>1, <1>2

LEMMA SeqInduct ==
  ASSUME NEW A, NEW T, <<>> \in T, \A s \in Seq(A), a \in A : s \in T => Append(s, a) \in T
  PROVE  \A s \in Seq(A) : s \in T
  <1> DEFINE N == {n \in Nat : \A s \in Seq(A) : Len(s) = n => s \in T}
  <1>1. 0 \in N
    BY EmptySeq
  <1>2. ASSUME NEW n \in Nat, n \in N
        PROVE  n + 1 \in N
    <2>1. ASSUME NEW s \in Seq(A), Len(s) = n + 1
          PROVE  s \in T
      <3>1. s # <<>>
        BY <2>1, EmptySeq
      <3>2. /\ Front(s) \in Seq(A) /\ Last(s) \in A
            /\ s = Append(Front(s), Last(s))
            /\ Len(s) = Len(Front(s)) + 1
        BY <3>1, FrontLast
      <3>3. Len(Front(s)) = n
        BY <2>1, <3>2, LenProperties
      <3>4. Front(s) \in T
        BY <1>2, <3>2, <3>3
      <3> QED
        BY <3>2, <3>4
    <2> QED
      BY <2>1
  <1> HIDE DEF N
  <1>3. \A n \in Nat : n \in N
    BY <1>1, <1>2, Induct
  <1> QED
    BY <1>3, LenProperties DEF N

\* A function of sequences defined by what it is at the front of each.
Unfolds(f, A, x, G) ==
    f[<<>>] = x /\ \A s \in Seq(A) : s # <<>> => f[s] = G[<<f[Front(s)], Last(s)>>]

LEMMA Folded ==
  ASSUME NEW A, NEW X, NEW x \in X, NEW G \in [X \X A -> X]
  PROVE  \E f \in [Seq(A) -> X] : Unfolds(f, A, x, G)
  <1> DEFINE Upto(m)   == {s \in Seq(A) : Len(s) <= m}
             Body(f, s) == IF s = <<>> THEN x ELSE G[<<f[Front(s)], Last(s)>>]
             Run(f, m) == f \in [Upto(m) -> X] /\ \A s \in Upto(m) : f[s] = Body(f, s)
             Runs      == {m \in Nat : \E f : Run(f, m)}
  <1>1. ASSUME NEW m \in Nat, NEW s \in Upto(m), s # <<>>
        PROVE  Front(s) \in Upto(m) /\ Last(s) \in A /\ s \in Seq(A)
               /\ Len(Front(s)) \in Nat /\ Len(s) = Len(Front(s)) + 1
    BY <1>1, FrontLast, LenProperties
  <1>2. 0 \in Runs
    <2> DEFINE g == [s \in Upto(0) |-> x]
    <2>1. \A s \in Upto(0) : s = <<>>
      BY EmptySeq
    <2>2. Run(g, 0)
      BY <2>1
    <2> HIDE DEF g, Run
    <2> QED
      BY <2>2
  <1>3. ASSUME NEW m \in Nat, m \in Runs
        PROVE  m + 1 \in Runs
    <2>1. PICK f : Run(f, m)
      BY <1>3
    <2> DEFINE g == [s \in Upto(m + 1) |-> Body(f, s)]
    <2>2. ASSUME NEW s \in Upto(m + 1), s # <<>>
          PROVE  Front(s) \in Upto(m) /\ Last(s) \in A /\ f[Front(s)] \in X
      <3>1. Front(s) \in Seq(A) /\ Last(s) \in A /\ Len(s) = Len(Front(s)) + 1
        BY <2>2, FrontLast
      <3>2. Len(Front(s)) \in Nat /\ Len(s) <= m + 1
        BY <3>1, LenProperties
      <3>3. Front(s) \in Upto(m)
        BY <3>1, <3>2
      <3> HIDE DEF Upto
      <3> QED
        BY <2>1, <3>1, <3>3
    <2>3. Upto(m) \subseteq Upto(m + 1)
      BY LenProperties
    <2> HIDE DEF Upto
    <2>4. \A s \in Upto(m + 1) : Body(f, s) \in X
      <3>1. ASSUME NEW s \in Upto(m + 1), s # <<>>
            PROVE  G[<<f[Front(s)], Last(s)>>] \in X
        BY <2>2, <3>1
      <3> QED
        BY <3>1
    <2>5. \A s \in Upto(m) : g[s] = f[s]
      BY <2>1, <2>3
    <2>6. ASSUME NEW s \in Upto(m + 1)
          PROVE  g[s] = Body(g, s)
      <3>1. s # <<>> => g[Front(s)] = f[Front(s)]
        BY <2>2, <2>5
      <3>2. g[s] = Body(f, s)
        OBVIOUS
      <3> HIDE DEF g
      <3> QED
        BY <3>1, <3>2
    <2>7. g \in [Upto(m + 1) -> X]
      BY <2>4
    <2> HIDE DEF g
    <2>8. Run(g, m + 1)
      BY <2>6, <2>7
    <2> HIDE DEF Run
    <2> QED
      BY <2>8
  <1>4. \A m \in Nat : m \in Runs
    <2> HIDE DEF Runs
    <2> QED
      BY <1>2, <1>3, Induct
  <1>5. ASSUME NEW m \in Nat, NEW l \in Nat, NEW f, NEW g, Run(f, m), Run(g, l)
        PROVE  \A s \in Seq(A) : s \in Upto(m) /\ s \in Upto(l) => f[s] = g[s]
    <2> DEFINE T == {s \in Seq(A) : s \in Upto(m) /\ s \in Upto(l) => f[s] = g[s]}
    <2>1. <<>> \in T
      BY <1>5, EmptySeq
    <2>2. ASSUME NEW s \in Seq(A), NEW a \in A, s \in T
          PROVE  Append(s, a) \in T
      <3> DEFINE t == Append(s, a)
      <3>1. t \in Seq(A) /\ t # <<>> /\ Front(t) = s /\ Last(t) = a
        <4>1. \A b \in A : /\ Append(s, b) \in Seq(A) /\ Append(s, b) # <<>>
                           /\ Front(Append(s, b)) = s /\ Last(Append(s, b)) = b
          BY FrontLast
        <4> QED
          BY <4>1
      <3> HIDE DEF t
      <3>2. SUFFICES ASSUME t \in Upto(m), t \in Upto(l)
                     PROVE  f[t] = g[t]
        BY <3>1 DEF t
      <3>3. s \in Upto(m) /\ s \in Upto(l)
        BY <1>1, <3>1, <3>2
      <3>4. f[s] = g[s]
        BY <2>2, <3>3
      <3>5. f[t] = Body(f, t) /\ g[t] = Body(g, t)
        BY <1>5, <3>2
      <3> QED
        BY <3>1, <3>4, <3>5
    <2> HIDE DEF T
    <2>3. \A s \in Seq(A) : s \in T
      BY <2>1, <2>2, SeqInduct
    <2> QED
      BY <2>3 DEF T
  <1> DEFINE At(m) == CHOOSE f : Run(f, m)
             h == [s \in Seq(A) |-> At(Len(s))[s]]
  <1>6. \A m \in Nat : Run(At(m), m)
    <2> HIDE DEF Run
    <2> QED
      BY <1>4
  <1>7. \A s \in Seq(A) : Len(s) \in Nat /\ s \in Upto(Len(s))
    BY LenProperties
  <1>8. h \in [Seq(A) -> X]
    <2> HIDE DEF At, Upto
    <2> QED
      BY <1>6, <1>7
  <1>9. ASSUME NEW s \in Seq(A)
        PROVE  h[s] = Body(h, s)
    <2>1. h[s] = Body(At(Len(s)), s)
      <3> HIDE DEF At, Upto
      <3> QED
        BY <1>6, <1>7
    <2>2. ASSUME s # <<>>
          PROVE  h[Front(s)] = At(Len(s))[Front(s)]
      <3>1. Front(s) \in Upto(Len(s)) /\ Front(s) \in Seq(A)
        BY <1>1, <1>7, <2>2, FrontLast
      <3> HIDE DEF At, Upto, Run
      <3> QED
        BY <1>5, <1>6, <1>7, <3>1
    <2> HIDE DEF h, At
    <2> QED
      BY <2>1, <2>2
  <1> HIDE DEF At
  <1> QED
    <2> HIDE DEF h
    <2>1. <<>> \in Seq(A)
      BY EmptySeq
    <2> QED
      BY <1>8, <1>9, <2>1 DEF Unfolds

-----------------------------------------------------------------------------
(* The loops over texts                                                    *)

LEMMA Marks ==
  /\ Quote \notin {",", "=", Blank, Escape}
  /\ Escape \notin {",", "=", Blank}
  /\ Blank \notin {",", "="}
  BY Zenon DEF Quote, Escape, Blank

QuotedState   == [parts : Seq(Seq(Token)), piece : Seq(Token), inQuotes : BOOLEAN]
ShieldedState == [parts : Seq(Seq(Token)), piece : Seq(Token), inQuotes : BOOLEAN,
                  escape : BOOLEAN]

\* splitQuoted's loop runs.
LEMMA QuotedRuns ==
  /\ QuotedScan \in [Seq(Token) -> QuotedState]
  /\ QuotedScan[<<>>] = [parts |-> <<>>, piece |-> <<>>, inQuotes |-> FALSE]
  /\ \A s \in Seq(Token), ch \in Token :
       QuotedScan[Append(s, ch)] = QuotedStep(QuotedScan[s], ch)
  <1> DEFINE X == QuotedState
             x == [parts |-> <<>>, piece |-> <<>>, inQuotes |-> FALSE]
             G == [p \in X \X Token |-> QuotedStep(p[1], p[2])]
             Body(f) == [s \in Seq(Token) |->
                           IF s = <<>> THEN x ELSE QuotedStep(f[Front(s)], Last(s))]
  <1>1. x \in X
    BY EmptySeq DEF QuotedState
  <1>2. \A y \in X, ch \in Token : QuotedStep(y, ch) \in X
    <2>1. SUFFICES ASSUME NEW y \in QuotedState, NEW ch \in Token
                   PROVE  QuotedStep(y, ch) \in QuotedState
      OBVIOUS
    <2>2. y.parts \in Seq(Seq(Token)) /\ y.piece \in Seq(Token)
      BY DEF QuotedState
    <2>3. Append(y.parts, y.piece) \in Seq(Seq(Token)) /\ Append(y.piece, ch) \in Seq(Token)
      BY <2>2, AppendProperties
    <2> QED
      BY <2>2, <2>3, EmptySeq DEF QuotedStep, QuotedState
  <1>3. QuotedScan = CHOOSE f : f = Body(f)
    BY Zenon DEF QuotedScan
  <1> HIDE DEF X, x
  <1>4. G \in [X \X Token -> X]
    BY <1>2
  <1>5. /\ \A s \in Seq(Token) :
             s # <<>> => Front(s) \in Seq(Token) /\ Last(s) \in Token
        /\ \A s \in Seq(Token), ch \in Token :
             /\ Append(s, ch) \in Seq(Token) /\ Append(s, ch) # <<>>
             /\ Front(Append(s, ch)) = s /\ Last(Append(s, ch)) = ch
    BY FrontLast
  <1>6. \E f : f = Body(f)
    <2> HIDE DEF G
    <2>1. PICK f \in [Seq(Token) -> X] : Unfolds(f, Token, x, G)
      BY <1>1, <1>4, Folded
    <2>2. \A s \in Seq(Token) : s # <<>> => f[s] = QuotedStep(f[Front(s)], Last(s))
      BY <1>5, <2>1 DEF G, Unfolds
    <2>3. f = Body(f)
      BY <2>1, <2>2 DEF Unfolds
    <2> QED
      BY <2>3
  <1>7. QuotedScan = Body(QuotedScan)
    <2> HIDE DEF Body
    <2> QED
      BY <1>3, <1>6
  <1>8. QuotedScan[<<>>] = x
    BY <1>7, EmptySeq
  <1>9. \A s \in Seq(Token), ch \in Token :
          QuotedScan[Append(s, ch)] = QuotedStep(QuotedScan[s], ch)
    BY <1>5, <1>7
  <1>10. \A s \in Seq(Token) : QuotedScan[s] \in X
    <2> DEFINE T == {t \in Seq(Token) : QuotedScan[t] \in X}
    <2>1. <<>> \in T
      BY <1>1, <1>8, EmptySeq
    <2>2. ASSUME NEW s \in Seq(Token), NEW ch \in Token, s \in T
          PROVE  Append(s, ch) \in T
      BY <1>2, <1>5, <1>9, <2>2
    <2> HIDE DEF T
    <2>3. \A s \in Seq(Token) : s \in T
      BY <2>1, <2>2, SeqInduct
    <2> QED
      BY <2>3 DEF T
  <1>11. QuotedScan \in [Seq(Token) -> X]
    <2>1. QuotedScan = [s \in Seq(Token) |-> QuotedScan[s]]
      BY <1>7
    <2> QED
      BY <1>10, <2>1
  <1> QED
    BY <1>8, <1>9, <1>11 DEF X, x

\* splitAuthParams' loop runs.
LEMMA ShieldedRuns ==
  /\ ShieldedScan \in [Seq(Token) -> ShieldedState]
  /\ ShieldedScan[<<>>] = [parts |-> <<>>, piece |-> <<>>, inQuotes |-> FALSE, escape |-> FALSE]
  /\ \A s \in Seq(Token), ch \in Token :
       ShieldedScan[Append(s, ch)] = ShieldedStep(ShieldedScan[s], ch)
  <1> DEFINE X == ShieldedState
             x == [parts |-> <<>>, piece |-> <<>>, inQuotes |-> FALSE, escape |-> FALSE]
             G == [p \in X \X Token |-> ShieldedStep(p[1], p[2])]
             Body(f) == [s \in Seq(Token) |->
                           IF s = <<>> THEN x ELSE ShieldedStep(f[Front(s)], Last(s))]
  <1>1. x \in X
    BY EmptySeq DEF ShieldedState
  <1>2. \A y \in X, ch \in Token : ShieldedStep(y, ch) \in X
    <2>1. SUFFICES ASSUME NEW y \in ShieldedState, NEW ch \in Token
                   PROVE  ShieldedStep(y, ch) \in ShieldedState
      OBVIOUS
    <2>2. y.parts \in Seq(Seq(Token)) /\ y.piece \in Seq(Token)
      BY DEF ShieldedState
    <2>3. Append(y.parts, y.piece) \in Seq(Seq(Token)) /\ Append(y.piece, ch) \in Seq(Token)
      BY <2>2, AppendProperties
    <2> QED
      BY <2>2, <2>3, EmptySeq DEF ShieldedStep, ShieldedState
  <1>3. ShieldedScan = CHOOSE f : f = Body(f)
    BY Zenon DEF ShieldedScan
  <1> HIDE DEF X, x
  <1>4. G \in [X \X Token -> X]
    BY <1>2
  <1>5. /\ \A s \in Seq(Token) :
             s # <<>> => Front(s) \in Seq(Token) /\ Last(s) \in Token
        /\ \A s \in Seq(Token), ch \in Token :
             /\ Append(s, ch) \in Seq(Token) /\ Append(s, ch) # <<>>
             /\ Front(Append(s, ch)) = s /\ Last(Append(s, ch)) = ch
    BY FrontLast
  <1>6. \E f : f = Body(f)
    <2> HIDE DEF G
    <2>1. PICK f \in [Seq(Token) -> X] : Unfolds(f, Token, x, G)
      BY <1>1, <1>4, Folded
    <2>2. \A s \in Seq(Token) : s # <<>> => f[s] = ShieldedStep(f[Front(s)], Last(s))
      BY <1>5, <2>1 DEF G, Unfolds
    <2>3. f = Body(f)
      BY <2>1, <2>2 DEF Unfolds
    <2> QED
      BY <2>3
  <1>7. ShieldedScan = Body(ShieldedScan)
    <2> HIDE DEF Body
    <2> QED
      BY <1>3, <1>6
  <1>8. ShieldedScan[<<>>] = x
    BY <1>7, EmptySeq
  <1>9. \A s \in Seq(Token), ch \in Token :
          ShieldedScan[Append(s, ch)] = ShieldedStep(ShieldedScan[s], ch)
    BY <1>5, <1>7
  <1>10. \A s \in Seq(Token) : ShieldedScan[s] \in X
    <2> DEFINE T == {t \in Seq(Token) : ShieldedScan[t] \in X}
    <2>1. <<>> \in T
      BY <1>1, <1>8, EmptySeq
    <2>2. ASSUME NEW s \in Seq(Token), NEW ch \in Token, s \in T
          PROVE  Append(s, ch) \in T
      BY <1>2, <1>5, <1>9, <2>2
    <2> HIDE DEF T
    <2>3. \A s \in Seq(Token) : s \in T
      BY <2>1, <2>2, SeqInduct
    <2> QED
      BY <2>3 DEF T
  <1>11. ShieldedScan \in [Seq(Token) -> X]
    <2>1. ShieldedScan = [s \in Seq(Token) |-> ShieldedScan[s]]
      BY <1>7
    <2> QED
      BY <1>10, <2>1
  <1> QED
    BY <1>8, <1>9, <1>11 DEF X, x

\* Readers of quoted strings.
LEMMA ReadingRuns ==
  /\ Reading \in [Seq(Token) -> {"inside", "outside", "escaped"}]
  /\ Reading[<<>>] = "outside"
  /\ \A s \in Seq(Token), ch \in Token :
       Reading[Append(s, ch)] = ReadingStep(Reading[s], ch)
  <1> DEFINE X == {"inside", "outside", "escaped"}
             x == "outside"
             G == [p \in X \X Token |-> ReadingStep(p[1], p[2])]
             Body(f) == [s \in Seq(Token) |->
                           IF s = <<>> THEN x ELSE ReadingStep(f[Front(s)], Last(s))]
  <1>1. x \in X
    OBVIOUS
  <1>2. \A y \in X, ch \in Token : ReadingStep(y, ch) \in X
    BY DEF ReadingStep
  <1>3. Reading = CHOOSE f : f = Body(f)
    BY Zenon DEF Reading
  <1> HIDE DEF X, x
  <1>4. G \in [X \X Token -> X]
    BY <1>2
  <1>5. /\ \A s \in Seq(Token) :
             s # <<>> => Front(s) \in Seq(Token) /\ Last(s) \in Token
        /\ \A s \in Seq(Token), ch \in Token :
             /\ Append(s, ch) \in Seq(Token) /\ Append(s, ch) # <<>>
             /\ Front(Append(s, ch)) = s /\ Last(Append(s, ch)) = ch
    BY FrontLast
  <1>6. \E f : f = Body(f)
    <2> HIDE DEF G
    <2>1. PICK f \in [Seq(Token) -> X] : Unfolds(f, Token, x, G)
      BY <1>1, <1>4, Folded
    <2>2. \A s \in Seq(Token) : s # <<>> => f[s] = ReadingStep(f[Front(s)], Last(s))
      BY <1>5, <2>1 DEF G, Unfolds
    <2>3. f = Body(f)
      BY <2>1, <2>2 DEF Unfolds
    <2> QED
      BY <2>3
  <1>7. Reading = Body(Reading)
    <2> HIDE DEF Body
    <2> QED
      BY <1>3, <1>6
  <1>8. Reading[<<>>] = x
    BY <1>7, EmptySeq
  <1>9. \A s \in Seq(Token), ch \in Token :
          Reading[Append(s, ch)] = ReadingStep(Reading[s], ch)
    BY <1>5, <1>7
  <1>10. \A s \in Seq(Token) : Reading[s] \in X
    <2> DEFINE T == {t \in Seq(Token) : Reading[t] \in X}
    <2>1. <<>> \in T
      BY <1>1, <1>8, EmptySeq
    <2>2. ASSUME NEW s \in Seq(Token), NEW ch \in Token, s \in T
          PROVE  Append(s, ch) \in T
      BY <1>2, <1>5, <1>9, <2>2
    <2> HIDE DEF T
    <2>3. \A s \in Seq(Token) : s \in T
      BY <2>1, <2>2, SeqInduct
    <2> QED
      BY <2>3 DEF T
  <1>11. Reading \in [Seq(Token) -> X]
    <2>1. Reading = [s \in Seq(Token) |-> Reading[s]]
      BY <1>7
    <2> QED
      BY <1>10, <2>1
  <1> QED
    BY <1>8, <1>9, <1>11 DEF X, x

\* Unescaping.
LEMMA UnescapeRuns ==
  /\ UnescapeQuotes \in [Seq(Token) -> Seq(Token)]
  /\ UnescapeQuotes[<<>>] = <<>>
  /\ \A s \in Seq(Token), ch \in Token :
       UnescapeQuotes[Append(s, ch)] = UnescapeStep(UnescapeQuotes[s], ch)
  <1> DEFINE X == Seq(Token)
             x == <<>>
             G == [p \in X \X Token |-> UnescapeStep(p[1], p[2])]
             Body(f) == [s \in Seq(Token) |->
                           IF s = <<>> THEN x ELSE UnescapeStep(f[Front(s)], Last(s))]
  <1>1. x \in X
    OBVIOUS
  <1>2. \A y \in X, ch \in Token : UnescapeStep(y, ch) \in X
    <2>1. SUFFICES ASSUME NEW y \in Seq(Token), NEW ch \in Token
                   PROVE  UnescapeStep(y, ch) \in Seq(Token)
      OBVIOUS
    <2>2. Append(y, ch) \in Seq(Token)
      BY AppendProperties
    <2>3. y # <<>> => Append(Front(y), ch) \in Seq(Token)
      BY FrontLast, AppendProperties
    <2> QED
      BY <2>2, <2>3 DEF UnescapeStep
  <1>3. UnescapeQuotes = CHOOSE f : f = Body(f)
    BY Zenon DEF UnescapeQuotes
  <1> HIDE DEF X, x
  <1>4. G \in [X \X Token -> X]
    BY <1>2
  <1>5. /\ \A s \in Seq(Token) :
             s # <<>> => Front(s) \in Seq(Token) /\ Last(s) \in Token
        /\ \A s \in Seq(Token), ch \in Token :
             /\ Append(s, ch) \in Seq(Token) /\ Append(s, ch) # <<>>
             /\ Front(Append(s, ch)) = s /\ Last(Append(s, ch)) = ch
    BY FrontLast
  <1>6. \E f : f = Body(f)
    <2> HIDE DEF G
    <2>1. PICK f \in [Seq(Token) -> X] : Unfolds(f, Token, x, G)
      BY <1>1, <1>4, Folded
    <2>2. \A s \in Seq(Token) : s # <<>> => f[s] = UnescapeStep(f[Front(s)], Last(s))
      BY <1>5, <2>1 DEF G, Unfolds
    <2>3. f = Body(f)
      BY <2>1, <2>2 DEF Unfolds
    <2> QED
      BY <2>3
  <1>7. UnescapeQuotes = Body(UnescapeQuotes)
    <2> HIDE DEF Body
    <2> QED
      BY <1>3, <1>6
  <1>8. UnescapeQuotes[<<>>] = x
    BY <1>7, EmptySeq
  <1>9. \A s \in Seq(Token), ch \in Token :
          UnescapeQuotes[Append(s, ch)] = UnescapeStep(UnescapeQuotes[s], ch)
    BY <1>5, <1>7
  <1>10. \A s \in Seq(Token) : UnescapeQuotes[s] \in X
    <2> DEFINE T == {t \in Seq(Token) : UnescapeQuotes[t] \in X}
    <2>1. <<>> \in T
      BY <1>1, <1>8, EmptySeq
    <2>2. ASSUME NEW s \in Seq(Token), NEW ch \in Token, s \in T
          PROVE  Append(s, ch) \in T
      BY <1>2, <1>5, <1>9, <2>2
    <2> HIDE DEF T
    <2>3. \A s \in Seq(Token) : s \in T
      BY <2>1, <2>2, SeqInduct
    <2> QED
      BY <2>3 DEF T
  <1>11. UnescapeQuotes \in [Seq(Token) -> X]
    <2>1. UnescapeQuotes = [s \in Seq(Token) |-> UnescapeQuotes[s]]
      BY <1>7
    <2> QED
      BY <1>10, <2>1
  <1> QED
    BY <1>8, <1>9, <1>11 DEF X, x

\* Escaping.
LEMMA EscapedRuns ==
  /\ Escaped \in [Seq(Token) -> Seq(Token)]
  /\ Escaped[<<>>] = <<>>
  /\ \A s \in Seq(Token), ch \in Token :
       Escaped[Append(s, ch)] = EscapedStep(Escaped[s], ch)
  <1> DEFINE X == Seq(Token)
             x == <<>>
             G == [p \in X \X Token |-> EscapedStep(p[1], p[2])]
             Body(f) == [s \in Seq(Token) |->
                           IF s = <<>> THEN x ELSE EscapedStep(f[Front(s)], Last(s))]
  <1>1. x \in X
    OBVIOUS
  <1>2. \A y \in X, ch \in Token : EscapedStep(y, ch) \in X
    <2>1. SUFFICES ASSUME NEW y \in Seq(Token), NEW ch \in Token
                   PROVE  EscapedStep(y, ch) \in Seq(Token)
      OBVIOUS
    <2>2. \A a \in Token, b \in Token : <<a, b>> \in Seq(Token) /\ <<b>> \in Seq(Token)
      OBVIOUS
    <2>3. <<Escape, Quote>> \in Seq(Token) /\ <<ch>> \in Seq(Token)
      BY <2>2, MarkAssumption
    <2> QED
      BY <2>3, ConcatProperties DEF EscapedStep
  <1>3. Escaped = CHOOSE f : f = Body(f)
    BY Zenon DEF Escaped
  <1> HIDE DEF X, x
  <1>4. G \in [X \X Token -> X]
    BY <1>2
  <1>5. /\ \A s \in Seq(Token) :
             s # <<>> => Front(s) \in Seq(Token) /\ Last(s) \in Token
        /\ \A s \in Seq(Token), ch \in Token :
             /\ Append(s, ch) \in Seq(Token) /\ Append(s, ch) # <<>>
             /\ Front(Append(s, ch)) = s /\ Last(Append(s, ch)) = ch
    BY FrontLast
  <1>6. \E f : f = Body(f)
    <2> HIDE DEF G
    <2>1. PICK f \in [Seq(Token) -> X] : Unfolds(f, Token, x, G)
      BY <1>1, <1>4, Folded
    <2>2. \A s \in Seq(Token) : s # <<>> => f[s] = EscapedStep(f[Front(s)], Last(s))
      BY <1>5, <2>1 DEF G, Unfolds
    <2>3. f = Body(f)
      BY <2>1, <2>2 DEF Unfolds
    <2> QED
      BY <2>3
  <1>7. Escaped = Body(Escaped)
    <2> HIDE DEF Body
    <2> QED
      BY <1>3, <1>6
  <1>8. Escaped[<<>>] = x
    BY <1>7, EmptySeq
  <1>9. \A s \in Seq(Token), ch \in Token :
          Escaped[Append(s, ch)] = EscapedStep(Escaped[s], ch)
    BY <1>5, <1>7
  <1>10. \A s \in Seq(Token) : Escaped[s] \in X
    <2> DEFINE T == {t \in Seq(Token) : Escaped[t] \in X}
    <2>1. <<>> \in T
      BY <1>1, <1>8, EmptySeq
    <2>2. ASSUME NEW s \in Seq(Token), NEW ch \in Token, s \in T
          PROVE  Append(s, ch) \in T
      BY <1>2, <1>5, <1>9, <2>2
    <2> HIDE DEF T
    <2>3. \A s \in Seq(Token) : s \in T
      BY <2>1, <2>2, SeqInduct
    <2> QED
      BY <2>3 DEF T
  <1>11. Escaped \in [Seq(Token) -> X]
    <2>1. Escaped = [s \in Seq(Token) |-> Escaped[s]]
      BY <1>7
    <2> QED
      BY <1>10, <2>1
  <1> QED
    BY <1>8, <1>9, <1>11 DEF X, x

-----------------------------------------------------------------------------
(* Cache-Control                                                           *)

\* A part of a sequence and the element behind it.
LEMMA PartGrows ==
  ASSUME NEW S, NEW s \in Seq(S), NEW a \in Nat, NEW i \in 1..Len(s), a < i
  PROVE  /\ SubSeq(s, a + 1, i - 1) \in Seq(S)
         /\ SubSeq(s, a + 1, i) = Append(SubSeq(s, a + 1, i - 1), s[i])
  <1> DEFINE u == SubSeq(s, a + 1, i - 1)
             v == SubSeq(s, a + 1, i)
  <1>1. /\ \A j \in (a + 1)..(i - 1) : s[j] \in S
        /\ \A j \in (a + 1)..i : s[j] \in S
        /\ s[i] \in S /\ i \in Nat
    BY ElementOfSeq, LenProperties
  <1>2. a + 1 \in Int /\ i - 1 \in Int /\ i \in Int
    BY <1>1
  <1>3. /\ u \in Seq(S)
        /\ Len(u) = IF a + 1 <= i - 1 THEN (i - 1) - (a + 1) + 1 ELSE 0
        /\ \A j \in 1..((i - 1) - (a + 1) + 1) : u[j] = s[a + 1 + j - 1]
    BY <1>1, <1>2, SubSeqProperties
  <1>4. /\ v \in Seq(S)
        /\ Len(v) = IF a + 1 <= i THEN i - (a + 1) + 1 ELSE 0
        /\ \A j \in 1..(i - (a + 1) + 1) : v[j] = s[a + 1 + j - 1]
    BY <1>1, <1>2, SubSeqProperties
  <1> HIDE DEF u, v
  <1> DEFINE w == Append(u, s[i])
             k == Len(u)
  <1>5. k = i - 1 - a /\ Len(v) = k + 1 /\ k \in Nat
    BY <1>1, <1>3, <1>4
  <1>6. /\ w \in Seq(S) /\ Len(w) = k + 1 /\ w[k + 1] = s[i]
        /\ \A j \in 1..k : w[j] = u[j]
    BY <1>1, <1>3, AppendProperties
  <1> HIDE DEF w, k
  <1>7. ASSUME NEW j \in 1..(k + 1)
        PROVE  v[j] = w[j]
    <2>1. v[j] = s[a + j]
      BY <1>1, <1>4, <1>5
    <2>2. CASE j = k + 1
      BY <1>1, <1>5, <1>6, <2>1, <2>2
    <2>3. CASE j # k + 1
      <3>1. j \in 1..k
        BY <1>5, <2>3
      <3>2. u[j] = s[a + j]
        BY <1>1, <1>3, <1>5, <3>1
      <3> QED
        BY <1>6, <2>1, <3>1, <3>2
    <2> QED
      BY <2>2, <2>3
  <1>8. v = w
    BY <1>4, <1>5, <1>6, <1>7, SeqEqual
  <1> QED
    BY <1>3, <1>8 DEF u, v, w

LEMMA WholePart ==
  ASSUME NEW S, NEW s \in Seq(S)
  PROVE  SubSeq(s, 1, Len(s)) = s /\ \A i \in Nat : SubSeq(s, i + 1, i) = <<>>
  <1>1. SubSeq(s, 1, Len(s)) = s
    <2> DEFINE n == Len(s)
               u == SubSeq(s, 1, n)
    <2>1. (\A j \in 1..n : s[j] \in S) /\ n \in Nat /\ 1 \in Int /\ n \in Int
      BY ElementOfSeq, LenProperties
    <2>2. /\ u \in Seq(S)
          /\ Len(u) = IF 1 <= n THEN n - 1 + 1 ELSE 0
          /\ \A j \in 1..(n - 1 + 1) : u[j] = s[1 + j - 1]
      BY <2>1, SubSeqProperties
    <2> HIDE DEF u
    <2>3. Len(u) = n /\ \A j \in 1..n : u[j] = s[j]
      BY <2>1, <2>2
    <2>4. u = s
      BY <2>2, <2>3, SeqEqual
    <2> QED
      BY <2>4 DEF u
  <1>2. ASSUME NEW i \in Nat
        PROVE  SubSeq(s, i + 1, i) = <<>>
    <2>1. (\A j \in (i + 1)..i : s[j] \in S) /\ i + 1 \in Int /\ i \in Int
      OBVIOUS
    <2>2. /\ SubSeq(s, i + 1, i) \in Seq(S)
          /\ Len(SubSeq(s, i + 1, i)) = IF i + 1 <= i THEN i - (i + 1) + 1 ELSE 0
      BY <2>1, SubSeqProperties
    <2>3. Len(SubSeq(s, i + 1, i)) = 0
      BY <2>2
    <2> QED
      BY <2>2, <2>3, EmptySeq
  <1> QED
    BY <1>1, <1>2

LEMMA RangeGrows ==
  ASSUME NEW S, NEW q \in Seq(S), NEW e \in S
  PROVE  Range(Append(q, e)) = Range(q) \cup {e}
  <1>1. /\ Len(q) \in Nat /\ DOMAIN q = 1..Len(q)
    BY LenProperties
  <1>2. /\ Append(q, e) \in Seq(S) /\ Len(Append(q, e)) = Len(q) + 1
        /\ \A i \in 1..Len(q) : Append(q, e)[i] = q[i]
        /\ Append(q, e)[Len(q) + 1] = e
    BY AppendProperties
  <1>3. DOMAIN Append(q, e) = 1..(Len(q) + 1)
    BY <1>2, LenProperties
  <1> DEFINE u == Append(q, e)
             n == Len(q)
  <1> HIDE DEF u, n
  <1>4. ASSUME NEW i \in 1..(n + 1)
        PROVE  u[i] \in Range(q) \cup {e}
    BY <1>1, <1>2, <1>4 DEF Range, u, n
  <1>5. ASSUME NEW i \in 1..n
        PROVE  q[i] \in Range(u)
    <2>1. i \in 1..(n + 1) /\ u[i] = q[i]
      BY <1>1, <1>2 DEF u, n
    <2> QED
      BY <1>3, <2>1 DEF Range, u, n
  <1>6. e \in Range(u)
    <2>1. n + 1 \in 1..(n + 1) /\ u[n + 1] = e
      BY <1>1, <1>2 DEF u, n
    <2> QED
      BY <1>3, <2>1 DEF Range, u, n
  <1>7. Range(u) \subseteq Range(q) \cup {e}
    BY <1>3, <1>4 DEF Range, u, n
  <1>8. Range(q) \subseteq Range(u)
    BY <1>1, <1>5 DEF Range, n
  <1> QED
    BY <1>6, <1>7, <1>8 DEF u

\* Without backslashes splitQuoted's flag is right.
LEMMA FlagRight ==
  \A s \in Seq(Token \ {Escape}) :
    /\ s \in Seq(Token)
    /\ Reading[s] = IF QuotedScan[s].inQuotes THEN "inside" ELSE "outside"
  <1> DEFINE A == Token \ {Escape}
             T == {s \in Seq(Token) :
                     Reading[s] = IF QuotedScan[s].inQuotes THEN "inside" ELSE "outside"}
  <1>1. <<>> \in T
    BY QuotedRuns, ReadingRuns, EmptySeq
  <1>2. ASSUME NEW s \in Seq(A), NEW ch \in A, s \in T
        PROVE  Append(s, ch) \in T
    <2>1. s \in Seq(Token) /\ ch \in Token /\ ch # Escape
      BY <1>2
    <2>2. /\ Reading[Append(s, ch)] = ReadingStep(Reading[s], ch)
          /\ QuotedScan[Append(s, ch)] = QuotedStep(QuotedScan[s], ch)
          /\ Append(s, ch) \in Seq(Token)
      BY <2>1, QuotedRuns, ReadingRuns, AppendProperties
    <2>3. QuotedScan[s] \in QuotedState
      BY <2>1, QuotedRuns
    <2>4. ASSUME NEW z \in QuotedState, NEW b, b = IF z.inQuotes THEN "inside" ELSE "outside"
          PROVE  ReadingStep(b, ch)
                   = IF QuotedStep(z, ch).inQuotes THEN "inside" ELSE "outside"
      BY <2>1, <2>4, Marks DEF QuotedState, QuotedStep, ReadingStep
    <2> QED
      BY <1>2, <2>2, <2>3, <2>4
  <1> HIDE DEF T, A
  <1>3. \A s \in Seq(A) : s \in T
    BY <1>1, <1>2, SeqInduct
  <1> QED
    BY <1>3 DEF T, A

\* Without backslashes splitQuoted's pieces are those between the commas
\* outside quoted strings.
LEMMA PiecesSplit ==
  ASSUME NEW s \in Seq(Token \ {Escape})
  PROVE  SplitQuoted(s) \in Seq(Seq(Token)) /\ Range(SplitQuoted(s)) = Pieces(s)
  <1> DEFINE A    == Token \ {Escape}
             n    == Len(s)
             P(i) == SubSeq(s, 1, i)
             Z(i) == QuotedScan[P(i)]
             cuts == {i \in DOMAIN s : s[i] = "," /\ Reading[SubSeq(s, 1, i - 1)] = "outside"}
             starts == {0} \cup cuts
             To(i) == Min({j \in cuts : j > i} \cup {n + 1}) - 1
             Before(a) == {SubSeq(s, b + 1, To(b)) : b \in {c \in starts : c < a}}
             At(i, a) == /\ a \in starts
                         /\ a <= i
                         /\ \A j \in cuts : j <= i => j <= a
                         /\ Z(i).piece = SubSeq(s, a + 1, i)
                         /\ Range(Z(i).parts) = Before(a)
  <1>1. /\ n \in Nat /\ DOMAIN s = 1..n /\ s \in Seq(Token)
        /\ \A i \in 1..n : s[i] \in A
    BY LenProperties, ElementOfSeq
  <1>2. \A i \in 0..n : P(i) \in Seq(A)
    <2>1. ASSUME NEW i \in 0..n
          PROVE  P(i) \in Seq(A)
      <3>1. (\A j \in 1..i : s[j] \in A) /\ 1 \in Int /\ i \in Int
        BY <1>1
      <3> QED
        BY <3>1, SubSeqProperties
    <2> QED
      BY <2>1
  <1>3. P(0) = <<>> /\ P(n) = s
    <2>1. P(n) = s /\ SubSeq(s, 0 + 1, 0) = <<>>
      BY WholePart
    <2>2. 0 + 1 = 1
      OBVIOUS
    <2> QED
      BY <2>1, <2>2
  <1>4. \A i \in 1..n : P(i) = Append(P(i - 1), s[i]) /\ i - 1 \in 0..n
    <2>1. ASSUME NEW i \in 1..n
          PROVE  P(i) = Append(P(i - 1), s[i]) /\ i - 1 \in 0..n
      <3>1. 0 \in Nat /\ 0 < i /\ i \in 1..Len(s) /\ 0 + 1 = 1 /\ i - 1 \in 0..n
        BY <1>1
      <3>2. SubSeq(s, 0 + 1, i) = Append(SubSeq(s, 0 + 1, i - 1), s[i])
        BY <3>1, PartGrows
      <3> QED
        BY <3>1, <3>2
    <2> QED
      BY <2>1
  <1>5. \A i \in 0..n : /\ Z(i) \in QuotedState
                        /\ Reading[P(i)] = IF Z(i).inQuotes THEN "inside" ELSE "outside"
    BY <1>2, FlagRight, QuotedRuns
  <1>6. cuts \subseteq 1..n
    BY <1>1
  <1>7. \A i \in 1..n : i \in cuts <=> s[i] = "," /\ ~Z(i - 1).inQuotes
    BY <1>1, <1>4, <1>5
  <1>8. \A i \in 1..n : Z(i) = QuotedStep(Z(i - 1), s[i])
    <2>1. ASSUME NEW i \in 1..n
          PROVE  Z(i) = QuotedStep(Z(i - 1), s[i])
      <3>1. P(i) = Append(P(i - 1), s[i]) /\ P(i - 1) \in Seq(Token) /\ s[i] \in Token
        BY <1>1, <1>2, <1>4, FlagRight
      <3> QED
        BY <3>1, QuotedRuns
    <2> QED
      BY <2>1
  <1>9. Z(0) = [parts |-> <<>>, piece |-> <<>>, inQuotes |-> FALSE]
    BY <1>3, QuotedRuns
  <1>22. n \in Nat
    BY <1>1
  <1> HIDE DEF n, A, Z, P, cuts, To, Before
  <1>23. cuts \subseteq starts /\ 0 \in starts /\ starts \subseteq cuts \cup {0}
    OBVIOUS
  <1> HIDE DEF starts
  <1>24. \A c \in cuts : c \in Nat /\ 0 < c /\ c <= n
    BY <1>6, <1>22
  <1>21. \A c \in starts : c \in Nat /\ 0 <= c /\ c <= n
    BY <1>22, <1>23, <1>24
  <1>10. At(0, 0)
    <2>1. Z(0).piece = SubSeq(s, 0 + 1, 0)
      <3>1. Z(0).piece = <<>> /\ 0 \in Nat
        BY <1>9
      <3> QED
        BY <3>1, WholePart
    <2>2. Range(Z(0).parts) = {}
      BY <1>9 DEF Range
    <2>3. Before(0) = {}
      <3>1. {c \in starts : c < 0} = {}
        BY <1>6, <1>21
      <3> QED
        BY <3>1, Zenon DEF Before
    <2> QED
      <3>1. 0 <= 0 /\ \A j \in cuts : j <= 0 => j <= 0
        OBVIOUS
      <3> QED
        BY <1>23, <2>1, <2>2, <2>3, <3>1
  <1>11. ASSUME NEW i \in 1..n, NEW a, At(i - 1, a)
         PROVE  \E b : At(i, b)
    <2>2. /\ a \in starts /\ a <= i - 1
          /\ \A j \in cuts : j <= i - 1 => j <= a
          /\ Z(i - 1).piece = SubSeq(s, a + 1, i - 1)
          /\ Range(Z(i - 1).parts) = Before(a)
      BY <1>11
    <2> HIDE DEF At
    <2>5. i \in Nat /\ 0 < i /\ i <= n /\ i - 1 \in 0..n
      BY <1>22
    <2>6. Z(i - 1) \in QuotedState
      BY <1>5, <2>5
    <2>7. a \in Nat
      BY <1>21, <2>2
    <2>8. a < i
      BY <2>2, <2>5, <2>7
    <2>1. a \in Nat /\ a < i /\ Z(i - 1) \in QuotedState
      BY <2>6, <2>7, <2>8
    <2>3. CASE i \in cuts
      <3>1. /\ Z(i).parts = Append(Z(i - 1).parts, Z(i - 1).piece)
            /\ Z(i).piece = <<>>
        BY <1>7, <1>8, <2>1, <2>3 DEF QuotedState, QuotedStep
      <3>2. Range(Z(i).parts) = Range(Z(i - 1).parts) \cup {Z(i - 1).piece}
        <4>1. Z(i - 1).parts \in Seq(Seq(Token)) /\ Z(i - 1).piece \in Seq(Token)
          BY <2>1 DEF QuotedState
        <4> QED
          BY <3>1, <4>1, RangeGrows
      <3>3. To(a) = i - 1
        <4> DEFINE later == {j \in cuts : j > a} \cup {n + 1}
        <4>5. \A j \in cuts : j > a => i <= j
          <5>1. ASSUME NEW j \in cuts, j > a
                PROVE  i <= j
            <6>1. j \in Nat /\ (j <= i - 1 => j <= a)
              BY <1>24, <2>2
            <6> QED
              BY <2>5, <2>7, <5>1, <6>1
          <5> QED
            BY <5>1
        <4>6. n + 1 \in Nat /\ i <= n + 1
          BY <1>22, <2>5
        <4>1. i \in later /\ later \subseteq Nat /\ \A j \in later : i <= j
          BY <1>24, <2>3, <2>8, <4>5, <4>6
        <4> HIDE DEF later
        <4>2. Min(later) \in later /\ \A j \in later : Min(later) <= j
          BY <4>1, LeastOf
        <4>3. Min(later) = i
          <5>1. Min(later) \in Nat /\ Min(later) <= i /\ i <= Min(later)
            BY <4>1, <4>2
          <5> QED
            BY <2>5, <5>1
        <4>4. To(a) = Min(later) - 1
          BY Zenon DEF To, later
        <4> QED
          BY <4>3, <4>4
      <3>4. {c \in starts : c < i} = {c \in starts : c < a} \cup {a}
        <4>1. ASSUME NEW c \in starts
              PROVE  c < i <=> c < a \/ c = a
          <5>1. c \in Nat /\ (c = 0 \/ c \in cuts)
            BY <1>21, <1>23
          <5>2. c <= i - 1 => c <= a
            BY <2>2, <2>7, <5>1
          <5> QED
            BY <2>5, <2>7, <2>8, <5>1, <5>2
        <4> QED
          BY <2>2, <4>1
      <3>5. Before(i) = Before(a) \cup {SubSeq(s, a + 1, To(a))}
        BY <3>4 DEF Before
      <3>6. Z(i).piece = SubSeq(s, i + 1, i)
        BY <3>1, WholePart
      <3>7. Range(Z(i).parts) = Before(i)
        BY <2>2, <3>2, <3>3, <3>5
      <3>9. At(i, i)
        <4>1. i \in starts /\ i <= i /\ \A j \in cuts : j <= i => j <= i
          BY <1>23, <2>3, <2>5
        <4> QED
          BY <3>6, <3>7, <4>1 DEF At
      <3> QED
        BY <3>9
    <2>4. CASE i \notin cuts
      <3>1. /\ Z(i).parts = Z(i - 1).parts
            /\ Z(i).piece = Append(Z(i - 1).piece, s[i])
        BY <1>7, <1>8, <2>1, <2>4 DEF QuotedState, QuotedStep
      <3>2. Z(i).piece = SubSeq(s, a + 1, i)
        BY <1>1, <2>1, <2>2, <3>1, PartGrows DEF n
      <3>3. \A j \in cuts : j <= i => j <= a
        BY <1>24, <2>2, <2>4, <2>5
      <3>4. At(i, a)
        <4>1. a <= i
          BY <2>5, <2>7, <2>8
        <4>2. Range(Z(i).parts) = Before(a)
          BY <2>2, <3>1
        <4> QED
          BY <2>2, <3>2, <3>3, <4>1, <4>2 DEF At
      <3> QED
        BY <3>4
    <2> QED
      BY <2>3, <2>4
  <1>12. \E a : At(n, a)
    <2> HIDE DEF At
    <2> DEFINE T == {i \in Nat : i <= n => \E a : At(i, a)}
    <2>1. 0 \in T
      BY <1>10
    <2>2. ASSUME NEW i \in Nat, i \in T
          PROVE  i + 1 \in T
      <3>1. SUFFICES ASSUME i + 1 <= n
                     PROVE  \E a : At(i + 1, a)
        OBVIOUS
      <3>2. PICK a : At(i, a)
        BY <1>1, <2>2, <3>1
      <3>3. i + 1 \in 1..n /\ (i + 1) - 1 = i
        BY <1>1, <3>1
      <3> QED
        BY <1>11, <3>2, <3>3
    <2> HIDE DEF T
    <2>3. \A i \in Nat : i \in T
      BY <2>1, <2>2, Induct
    <2> QED
      BY <1>1, <2>3 DEF T
  <1>13. PICK a : At(n, a)
    BY <1>12
  <1>20. /\ a \in starts /\ a <= n
         /\ \A j \in cuts : j <= n => j <= a
         /\ Z(n).piece = SubSeq(s, a + 1, n)
         /\ Range(Z(n).parts) = Before(a)
    BY <1>13
  <1>14. Z(n) \in QuotedState /\ SplitQuoted(s) = Append(Z(n).parts, Z(n).piece)
    BY <1>1, <1>3, <1>5 DEF SplitQuoted, Z, n
  <1>15. /\ SplitQuoted(s) \in Seq(Seq(Token))
         /\ Range(SplitQuoted(s)) = Range(Z(n).parts) \cup {Z(n).piece}
    <2>1. Z(n).parts \in Seq(Seq(Token)) /\ Z(n).piece \in Seq(Token)
      BY <1>14 DEF QuotedState
    <2> QED
      BY <1>14, <2>1, RangeGrows, AppendProperties
  <1>16. To(a) = n
    <2> DEFINE later == {j \in cuts : j > a} \cup {n + 1}
    <2>1. later = {n + 1}
      <3>1. \A j \in cuts : ~(j > a)
        <4>1. ASSUME NEW j \in cuts
              PROVE  ~(j > a)
          BY <1>20, <1>21, <1>22, <1>24
        <4> QED
          BY <4>1
      <3> QED
        BY <3>1
    <2>2. Min({n + 1}) = n + 1
      <3>1. {n + 1} \subseteq Nat /\ {n + 1} # {}
        BY <1>1
      <3>2. Min({n + 1}) \in {n + 1}
        BY <3>1, LeastOf
      <3> QED
        BY <3>2
    <2>3. To(a) = Min(later) - 1
      BY Zenon DEF To
    <2> HIDE DEF later
    <2> QED
      BY <1>1, <2>1, <2>2, <2>3
  <1>17. starts = {c \in starts : c < a} \cup {a}
    <2>1. ASSUME NEW c \in starts
          PROVE  c < a \/ c = a
      <3>1. c \in Nat /\ c <= n /\ (c = 0 \/ c \in cuts) /\ a \in Nat
        BY <1>20, <1>21, <1>23
      <3>2. c <= a
        BY <1>20, <3>1
      <3> QED
        BY <3>1, <3>2
    <2> QED
      BY <1>20, <2>1
  <1>18. Pieces(s) = {SubSeq(s, b + 1, To(b)) : b \in starts}
    BY Zenon DEF Pieces, cuts, To, starts, n
  <1>19. {SubSeq(s, b + 1, To(b)) : b \in starts}
           = Before(a) \cup {SubSeq(s, a + 1, To(a))}
    BY <1>17 DEF Before
  <1> QED
    BY <1>20, <1>15, <1>16, <1>18, <1>19

\* What parseOnce makes of a directive in two values, and the arguments they
\* give it.
LEMMA OnceRight ==
  ASSUME NEW x \in Seq(Token \ {Escape}), NEW y \in Seq(Token \ {Escape}), NEW name
  PROVE  LET args == ArgumentsOf(name, x) \cup ArgumentsOf(name, y)
             once == ParseOnce(name, <<x, y>>)
         IN  /\ args # {} <=> Occurrences(name, <<x, y>>) # {}
             /\ once \in DeltaSeconds
             /\ once = Absent <=> args = {}
             /\ once \notin {Absent, Invalid} => args = {once}
  <1> DEFINE values  == <<x, y>>
             mine    == Occurrences(name, values)
             args    == ArgumentsOf(name, x) \cup ArgumentsOf(name, y)
             once    == ParseOnce(name, values)
             S(v)    == SplitQuoted(values[v])
             Here(v) == {p \in DOMAIN S(v) : NameOf(S(v)[p]) = <<name>>}
  <1>1. DOMAIN values = {1, 2} /\ values[1] = x /\ values[2] = y
    OBVIOUS
  <1>2. mine = UNION {{v} \X Here(v) : v \in {1, 2}}
    BY <1>1, Zenon DEF Occurrences
  <1>3. \A v \in {1, 2} : \A a :
          a \in ArgumentsOf(name, values[v])
            <=> \E p \in Here(v) : a = SecondsIn(ArgumentOf(S(v)[p]))
    <2>1. SUFFICES ASSUME NEW v \in {1, 2}, NEW a
                   PROVE  a \in ArgumentsOf(name, values[v])
                            <=> \E p \in Here(v) : a = SecondsIn(ArgumentOf(S(v)[p]))
      BY Zenon
    <2>2. Range(S(v)) = Pieces(values[v])
      BY <1>1, PiecesSplit
    <2> HIDE DEF S, values
    <2>3. \A q : q \in Pieces(values[v]) <=> \E p \in DOMAIN S(v) : q = S(v)[p]
      BY <2>2, Zenon DEF Range
    <2>4. a \in ArgumentsOf(name, values[v])
            <=> \E q \in Pieces(values[v]) : NameOf(q) = <<name>> /\ a = SecondsIn(ArgumentOf(q))
      BY DEF ArgumentsOf
    <2> QED
      BY <2>3, <2>4, Zenon
  <1>4. \A o : SecondsAt(o, values) = SecondsIn(ArgumentOf(S(o[1])[o[2]]))
    BY Zenon DEF SecondsAt
  <1>5. \A a : SecondsIn(a) \in DeltaSeconds /\ SecondsIn(a) # Absent
    BY SentinelAssumption DEF SecondsIn, DeltaSeconds
  <1> HIDE DEF S, values, Here
  <1>6. \A a : a \in args <=> \E o \in mine : a = SecondsAt(o, values)
    <2>1. \A a : a \in args <=> \E v \in {1, 2} : a \in ArgumentsOf(name, values[v])
      BY <1>1
    <2>2. \A v \in {1, 2} : \A p \in Here(v) :
            <<v, p>> \in mine /\ SecondsAt(<<v, p>>, values) = SecondsIn(ArgumentOf(S(v)[p]))
      BY <1>2, <1>4
    <2>3. \A o \in mine : \E v \in {1, 2} : \E p \in Here(v) : o = <<v, p>>
      BY <1>2
    <2> HIDE DEF mine, args
    <2> QED
      <3>1. ASSUME NEW a, NEW v \in {1, 2}, NEW p \in Here(v), a = SecondsIn(ArgumentOf(S(v)[p]))
            PROVE  \E o \in mine : a = SecondsAt(o, values)
        BY <2>2, <3>1
      <3>2. ASSUME NEW o \in mine
            PROVE  \E v \in {1, 2} : \E p \in Here(v) :
                     SecondsAt(o, values) = SecondsIn(ArgumentOf(S(v)[p]))
        BY <2>2, <2>3
      <3> QED
        BY <1>3, <2>1, <3>1, <3>2, Zenon
  <1>7. /\ mine = {} => once = Absent
        /\ \A o : mine = {o} => once = SecondsAt(o, values)
        /\ mine # {} => once = Invalid \/ \E o : mine = {o}
    <2>1. CASE mine = {}
      BY <2>1, Zenon DEF ParseOnce
    <2>2. CASE \E o : mine = {o}
      <3>1. PICK o : mine = {o}
        BY <2>2
      <3>2. (\E e \in mine : mine = {e}) /\ mine # {}
        BY <3>1
      <3>3. once = SecondsAt(CHOOSE e \in mine : TRUE, values)
        BY <3>2, Zenon DEF ParseOnce
      <3> HIDE DEF mine, once
      <3>4. (CHOOSE e \in mine : TRUE) = o
        BY <3>1
      <3> QED
        BY <3>1, <3>3, <3>4
    <2>3. CASE mine # {} /\ ~\E o : mine = {o}
      BY <2>3, Zenon DEF ParseOnce
    <2> QED
      BY <2>1, <2>2, <2>3
  <1>8. \A o : SecondsAt(o, values) \in DeltaSeconds /\ SecondsAt(o, values) # Absent
    BY <1>4, <1>5
  <1> HIDE DEF mine, args, once
  <1>9. args # {} <=> mine # {}
    BY <1>6
  <1>10. once \in DeltaSeconds /\ (once = Absent <=> args = {})
    BY <1>6, <1>7, <1>8, <1>9, SentinelAssumption DEF DeltaSeconds
  <1>11. once \notin {Absent, Invalid} => args = {once}
    BY <1>6, <1>7
  <1> QED
    BY <1>9, <1>10, <1>11, Zenon DEF mine, args, once, values

\* Where no backslash stands in the Cache-Control values, whatever else is
\* repeated, garbled or in quotes in them, and however they are spread over
\* headers: what is declared outside quotes is never overridden by something
\* weaker (splitQuoted, parseCacheControl, declaredLifetime).
THEOREM LimitsHeard ==
  ASSUME "cache-control" \in Kind => Escape \notin Alphabet["cache-control"]
  PROVE  InputsSpec => []AmbiguityDenies
  <1>1. ASSUME InputsInv
        PROVE  AmbiguityDenies
    <2>1. SUFFICES ASSUME kind = "cache-control", NEW i \in 0..Len(text)
                   PROVE  LET values == <<SubSeq(text, 1, i), SubSeq(text, i + 1, Len(text))>>
                              cc     == ParseCacheControl(values)
                              Args(name) == ArgumentsOf(name, values[1])
                                              \cup ArgumentsOf(name, values[2])
                              grant  == DeclaredLifetime([cacheControl |-> cc, expires |-> 9,
                                                          date |-> 0], 0)
                          IN  /\ Args("no-cache") # {} => cc.noCache
                              /\ grant # Invalid =>
                                   IF Args("s-maxage") # {} THEN Args("s-maxage") = {grant}
                                   ELSE IF Args("max-age") # {} THEN Args("max-age") = {grant}
                                   ELSE grant = 9
      BY Zenon DEF AmbiguityDenies
    <2> DEFINE x == SubSeq(text, 1, i)
               y == SubSeq(text, i + 1, Len(text))
               A == Token \ {Escape}
    <2>2. text \in Seq(A)
      BY <1>1, <2>1, TokenAssumption DEF InputsInv
    <2>3. x \in Seq(A) /\ y \in Seq(A)
      <3>1. \A j \in 1..Len(text) : text[j] \in A
        BY <2>2, ElementOfSeq
      <3>2. i \in Nat /\ i <= Len(text) /\ Len(text) \in Nat
        BY <2>2, LenProperties
      <3>3. /\ \A j \in 1..i : text[j] \in A
            /\ \A j \in (i + 1)..Len(text) : text[j] \in A
            /\ 1 \in Int /\ i \in Int /\ i + 1 \in Int /\ Len(text) \in Int
        BY <3>1, <3>2
      <3> QED
        BY <3>3, SubSeqProperties
    <2> DEFINE values == <<x, y>>
               cc     == ParseCacheControl(values)
               Args(name) == ArgumentsOf(name, x) \cup ArgumentsOf(name, y)
               h      == [cacheControl |-> cc, expires |-> 9, date |-> 0]
               grant  == DeclaredLifetime(h, 0)
    <2> HIDE DEF x, y
    <2>4. \A name : /\ Args(name) # {} <=> Occurrences(name, values) # {}
                    /\ ParseOnce(name, values) \in DeltaSeconds
                    /\ ParseOnce(name, values) = Absent <=> Args(name) = {}
                    /\ ParseOnce(name, values) \notin {Absent, Invalid}
                         => Args(name) = {ParseOnce(name, values)}
      BY <2>3, OnceRight
    <2>5. cc = [noCache |-> Occurrences("no-cache", values) # {},
                sMaxAge |-> ParseOnce("s-maxage", values),
                maxAge  |-> ParseOnce("max-age", values)]
      BY Zenon DEF ParseCacheControl
    <2> HIDE DEF values, Args, cc
    <2>6. cc \in CacheControl
      BY <2>4, <2>5 DEF CacheControl
    <2>7. /\ cc.noCache <=> Occurrences("no-cache", values) # {}
          /\ cc.sMaxAge = ParseOnce("s-maxage", values)
          /\ cc.maxAge = ParseOnce("max-age", values)
      BY <2>5
    <2>8. Directives(h) = cc
      BY <2>6, DirectiveAssumption DEF Directives
    <2>9. h.expires = 9 /\ h.date = 0 /\ Given(9) /\ Given(0)
      BY SentinelAssumption DEF Given
    <2>10. grant = IF cc.sMaxAge # Absent THEN cc.sMaxAge
                   ELSE IF cc.maxAge # Absent THEN cc.maxAge ELSE 9 - 0
      <3> HIDE DEF h
      <3> QED
        BY <2>8, <2>9 DEF DeclaredLifetime
    <2> HIDE DEF h, grant
    <2>11. Args("no-cache") # {} => cc.noCache
      BY <2>4, <2>7
    <2>12. grant # Invalid =>
             IF Args("s-maxage") # {} THEN Args("s-maxage") = {grant}
             ELSE IF Args("max-age") # {} THEN Args("max-age") = {grant}
             ELSE grant = 9
      BY <2>4, <2>7, <2>10
    <2>13. values[1] = x /\ values[2] = y /\ values = <<x, y>>
      BY DEF values
    <2> QED
      BY <2>11, <2>12, <2>13, Zenon DEF values, cc, Args, h, grant, x, y
  <1> QED
    BY <1>1, InputsTyped, PTL

-----------------------------------------------------------------------------
(* OCI challenges                                                          *)

LEMMA LeastIs ==
  \A S, m : S \subseteq Nat /\ m \in S /\ (\A y \in S : m <= y) => Min(S) = m
  <1>1. SUFFICES ASSUME NEW S, NEW m, S \subseteq Nat, m \in S, \A y \in S : m <= y
                 PROVE  Min(S) = m
    BY Zenon
  <1>2. Min(S) \in S /\ \A y \in S : Min(S) <= y
    BY <1>1, LeastOf
  <1>3. Min(S) \in Nat /\ m \in Nat /\ Min(S) <= m /\ m <= Min(S)
    BY <1>1, <1>2
  <1> QED
    BY <1>3

LEMMA GreatestIs ==
  \A S, m : S \subseteq Nat /\ m \in S /\ (\A y \in S : y <= m) => Max(S) = m
  <1>1. SUFFICES ASSUME NEW S, NEW m, S \subseteq Nat, m \in S, \A y \in S : y <= m
                 PROVE  Max(S) = m
    BY Zenon
  <1>2. \A y \in S : m >= y
    BY <1>1
  <1>3. Max(S) \in S /\ \A y \in S : Max(S) >= y
    BY <1>1, <1>2 DEF Max
  <1>4. Max(S) \in Nat /\ m \in Nat /\ Max(S) >= m /\ Max(S) <= m
    BY <1>1, <1>3
  <1> QED
    BY <1>4

LEMMA Grown ==
  \A s \in Seq(Token), ch \in Token :
    /\ Append(s, ch) \in Seq(Token) /\ Append(s, ch) # <<>>
    /\ Front(Append(s, ch)) = s /\ Last(Append(s, ch)) = ch
  BY FrontLast

\* Undoing the escapes of a text without backslashes gives it back.
LEMMA Unescaped ==
  \A v \in Seq(Token \ {Escape}) : v \in Seq(Token) /\ UnescapeQuotes[Escaped[v]] = v
  <1> DEFINE A == Token \ {Escape}
             T == {v \in Seq(Token) : UnescapeQuotes[Escaped[v]] = v}
  <1>1. <<>> \in T
    BY EscapedRuns, UnescapeRuns, EmptySeq
  <1>2. ASSUME NEW v \in Seq(A), NEW ch \in A, v \in T
        PROVE  Append(v, ch) \in T
    <2>1. v \in Seq(Token) /\ ch \in Token /\ ch # Escape /\ Append(v, ch) \in Seq(Token)
      BY <1>2, AppendProperties
    <2>2. Escaped[v] \in Seq(Token) /\ UnescapeQuotes[Escaped[v]] = v
      BY <1>2, <2>1, EscapedRuns
    <2>3. Escaped[Append(v, ch)] = EscapedStep(Escaped[v], ch)
      BY <2>1, EscapedRuns
    <2>4. CASE ch = Quote
      <3> DEFINE w == Append(Escaped[v], Escape)
      <3>1. Escaped[Append(v, ch)] = Append(w, Quote) /\ w \in Seq(Token)
        <4>1. Escape \in Token /\ Quote \in Token
          BY MarkAssumption
        <4>2. EscapedStep(Escaped[v], ch) = Escaped[v] \o <<Escape, Quote>>
          BY <2>4 DEF EscapedStep
        <4> QED
          BY <2>2, <2>3, <4>1, <4>2
      <3>2. UnescapeQuotes[w] = Append(v, Escape)
        <4>1. Escape \in Token /\ Escape # Quote
          BY MarkAssumption, Marks
        <4> QED
          BY <2>2, <4>1, UnescapeRuns DEF UnescapeStep
      <3>3. UnescapeQuotes[Append(w, Quote)] = UnescapeStep(Append(v, Escape), Quote)
        BY <3>1, <3>2, MarkAssumption, UnescapeRuns
      <3>4. /\ Append(v, Escape) # <<>> /\ Last(Append(v, Escape)) = Escape
            /\ Front(Append(v, Escape)) = v
        BY <2>1, MarkAssumption, Grown
      <3>5. UnescapeStep(Append(v, Escape), Quote) = Append(v, Quote)
        BY <3>4 DEF UnescapeStep
      <3> QED
        BY <2>1, <2>4, <3>1, <3>3, <3>5
    <2>5. CASE ch # Quote
      <3>1. Escaped[Append(v, ch)] = Append(Escaped[v], ch)
        <4>1. EscapedStep(Escaped[v], ch) = Escaped[v] \o <<ch>>
          BY <2>5 DEF EscapedStep
        <4> QED
          BY <2>1, <2>2, <2>3, <4>1
      <3>2. UnescapeQuotes[Append(Escaped[v], ch)] = UnescapeStep(v, ch)
        BY <2>1, <2>2, UnescapeRuns
      <3>3. UnescapeStep(v, ch) = Append(v, ch)
        BY <2>5 DEF UnescapeStep
      <3> QED
        BY <2>1, <3>1, <3>2, <3>3
    <2> QED
      BY <2>4, <2>5
  <1> HIDE DEF T, A
  <1>3. \A v \in Seq(A) : v \in T
    BY <1>1, <1>2, SeqInduct
  <1> QED
    BY <1>3 DEF T, A

\* A quoted string is one piece: it begins and ends with a quote, and Unquote
\* gives back what was quoted.
LEMMA QuotedWhole ==
  ASSUME NEW v \in Seq(Token \ {Escape})
  PROVE  LET u == Quoted(v)
         IN  /\ u \in Seq(Token) /\ Len(u) \in Nat /\ Len(u) >= 2
             /\ u[1] = Quote /\ u[Len(u)] = Quote
             /\ Unquote(u) = v
  <1> DEFINE e == Escaped[v]
             n == Len(e)
             u == Quoted(v)
  <1>1. e \in Seq(Token) /\ n \in Nat /\ UnescapeQuotes[e] = v /\ Quote \in Token
    BY EscapedRuns, Unescaped, MarkAssumption, LenProperties
  <1>2. /\ u \in Seq(Token) /\ Len(u) = n + 2
        /\ u[1] = Quote /\ u[n + 2] = Quote
        /\ \A i \in 1..n : u[i + 1] = e[i]
    <2> HIDE DEF e
    <2>1. u = <<Quote>> \o e \o <<Quote>>
      BY Zenon DEF Quoted, e
    <2> DEFINE w == <<Quote>> \o e
    <2>2. /\ <<Quote>> \in Seq(Token) /\ Len(<<Quote>>) = 1 /\ <<Quote>>[1] = Quote
      BY <1>1
    <2>3. /\ w \in Seq(Token) /\ Len(w) = 1 + n
          /\ \A i \in 1..(1 + n) : w[i] = IF i <= 1 THEN <<Quote>>[i] ELSE e[i - 1]
      BY <1>1, <2>2, ConcatProperties
    <2> HIDE DEF w, u, n
    <2>4. /\ u \in Seq(Token) /\ Len(u) = Len(w) + 1
          /\ \A i \in 1..(Len(w) + 1) :
               u[i] = IF i <= Len(w) THEN w[i] ELSE <<Quote>>[i - Len(w)]
      BY <2>1, <2>2, <2>3, ConcatProperties DEF w
    <2>5. Len(u) = n + 2
      BY <1>1, <2>3, <2>4
    <2>6. u[1] = Quote
      BY <1>1, <2>2, <2>3, <2>4
    <2>7. u[n + 2] = Quote
      BY <1>1, <2>2, <2>3, <2>4
    <2>8. ASSUME NEW i \in 1..n
          PROVE  u[i + 1] = e[i]
      <3>1. i + 1 \in 1..(1 + n) /\ ~(i + 1 <= 1) /\ (i + 1) - 1 = i
        BY <1>1
      <3>2. u[i + 1] = w[i + 1]
        BY <1>1, <2>3, <2>4, <3>1
      <3> QED
        BY <2>3, <3>1, <3>2
    <2> QED
      BY <2>4, <2>5, <2>6, <2>7, <2>8
  <1> HIDE DEF u, e, n
  <1>3. SubSeq(u, 2, Len(u) - 1) = e
    <2> DEFINE x == SubSeq(u, 2, n + 1)
    <2>1. Len(u) - 1 = n + 1 /\ 2 \in Int /\ n + 1 \in Int
      BY <1>1, <1>2
    <2>2. \A j \in 2..(n + 1) : u[j] \in Token
      <3>1. \A j \in 1..Len(u) : u[j] \in Token
        BY <1>2, ElementOfSeq
      <3> QED
        BY <1>1, <1>2, <3>1
    <2>3. /\ x \in Seq(Token)
          /\ Len(x) = IF 2 <= n + 1 THEN (n + 1) - 2 + 1 ELSE 0
          /\ \A i \in 1..((n + 1) - 2 + 1) : x[i] = u[2 + i - 1]
      BY <2>1, <2>2, SubSeqProperties
    <2> HIDE DEF x
    <2>4. Len(x) = n
      BY <1>1, <2>3
    <2>5. ASSUME NEW i \in 1..n
          PROVE  x[i] = e[i]
      <3>1. i \in 1..((n + 1) - 2 + 1) /\ 2 + i - 1 = i + 1
        BY <1>1
      <3> QED
        BY <1>2, <2>3, <3>1
    <2>6. x = e
      BY <1>1, <2>3, <2>4, <2>5, SeqEqual DEF n
    <2> QED
      BY <2>1, <2>6 DEF x
  <1>4. Head(u) = Quote /\ Last(u) = Quote /\ Len(u) >= 2
    <2>1. Len(u) >= 2 /\ u # <<>> /\ Last(u) = u[Len(u)]
      BY <1>1, <1>2 DEF Last
    <2>2. Head(u) = u[1]
      BY <1>2, <2>1, HeadTailProperties
    <2> QED
      BY <1>2, <2>1, <2>2
  <1>5. Unquote(u) = v
    BY <1>1, <1>3, <1>4 DEF Unquote, e
  <1>6. Len(u) \in Nat /\ u[Len(u)] = Quote
    BY <1>1, <1>2
  <1> QED
    BY <1>2, <1>4, <1>5, <1>6, Zenon DEF u

\* Texts joined from parts.
LEMMA Associates ==
  \A x \in Seq(Token) : \A y \in Seq(Token) : \A z \in Seq(Token) :
    (x \o y) \o z = x \o (y \o z)
  BY ConcatAssociative

LEMMA Joins ==
  /\ \A x, y \in Seq(Token) : x \o y \in Seq(Token)
  /\ \A x \in Seq(Token) : x \o <<>> = x
  /\ \A x, y, z \in Seq(Token) : (x \o y) \o z = x \o (y \o z)
  /\ \A a \in Token : <<a>> \in Seq(Token) /\ <<>> \o <<a>> = <<a>>
  /\ \A x \in Seq(Token), a \in Token : x \o <<a>> = Append(x, a)
  <1>1. \A x, y \in Seq(Token) : x \o y \in Seq(Token)
    BY ConcatProperties
  <1>2. \A x \in Seq(Token) : x \o <<>> = x /\ <<>> \o x = x
    BY ConcatEmptySeq
  <1>3. \A x, y, z \in Seq(Token) : (x \o y) \o z = x \o (y \o z)
    BY ConcatAssociative
  <1>4. \A a \in Token : <<a>> \in Seq(Token)
    OBVIOUS
  <1>5. \A x \in Seq(Token), a \in Token : x \o <<a>> = Append(x, a)
    BY AppendIsConcat
  <1> QED
    BY <1>1, <1>2, <1>3, <1>4, <1>5

\* What splitAuthParams takes for part of one piece wherever it stands.
Calm(q, p) == [parts |-> q, piece |-> p, inQuotes |-> FALSE, escape |-> FALSE]

Inert(x) ==
    /\ x \in Seq(Token)
    /\ \A u \in Seq(Token), q \in Seq(Seq(Token)), p \in Seq(Token) :
         ShieldedScan[u] = Calm(q, p) => ShieldedScan[u \o x] = Calm(q, p \o x)

LEMMA InertWords ==
  \A w \in Token \ {",", Quote, Escape} : Inert(<<w>>)
  <1>1. SUFFICES ASSUME NEW w \in Token, w \notin {",", Quote, Escape},
                        NEW u \in Seq(Token), NEW q \in Seq(Seq(Token)), NEW p \in Seq(Token),
                        ShieldedScan[u] = Calm(q, p)
                 PROVE  ShieldedScan[u \o <<w>>] = Calm(q, p \o <<w>>)
    BY Joins, Zenon DEF Inert
  <1>2. ShieldedScan[Append(u, w)] = ShieldedStep(Calm(q, p), w)
    BY <1>1, ShieldedRuns
  <1>3. ShieldedStep(Calm(q, p), w) = Calm(q, Append(p, w))
    BY <1>1 DEF ShieldedStep, Calm
  <1>4. u \o <<w>> = Append(u, w) /\ p \o <<w>> = Append(p, w)
    BY <1>1, Joins
  <1> QED
    BY <1>2, <1>3, <1>4

LEMMA InertJoined ==
  \A x, y : Inert(x) /\ Inert(y) => Inert(x \o y)
  <1>1. SUFFICES ASSUME NEW x, NEW y, Inert(x), Inert(y)
                 PROVE  Inert(x \o y)
    OBVIOUS
  <1>2. x \in Seq(Token) /\ y \in Seq(Token)
    BY <1>1 DEF Inert
  <1>3. x \o y \in Seq(Token)
    BY <1>2, ConcatProperties
  <1>4. ASSUME NEW u \in Seq(Token), NEW q \in Seq(Seq(Token)), NEW p \in Seq(Token),
               ShieldedScan[u] = Calm(q, p)
        PROVE  ShieldedScan[u \o (x \o y)] = Calm(q, p \o (x \o y))
    <2>1. /\ u \o x \in Seq(Token) /\ p \o x \in Seq(Token)
          /\ u \o (x \o y) = (u \o x) \o y /\ p \o (x \o y) = (p \o x) \o y
      BY <1>2, Joins
    <2>2. ShieldedScan[u \o x] = Calm(q, p \o x)
      BY <1>1, <1>4, Zenon DEF Inert
    <2>3. ShieldedScan[(u \o x) \o y] = Calm(q, (p \o x) \o y)
      BY <1>1, <2>1, <2>2, Zenon DEF Inert
    <2> QED
      BY <2>1, <2>3, Zenon
  <1> QED
    BY <1>3, <1>4 DEF Inert

\* So is a quoted string.
LEMMA InertQuoted ==
  ASSUME NEW v \in Seq(Token \ {Escape})
  PROVE  Inert(Quoted(v))
  <1> DEFINE A == Token \ {Escape}
             In(q, p) == [parts |-> q, piece |-> p, inQuotes |-> TRUE, escape |-> FALSE]
             Op(t) == <<Quote>> \o Escaped[t]
  <1>0. Quote \in Token /\ Escape \in Token /\ Quote # Escape /\ Quote # "," /\ Escape # ","
    BY MarkAssumption, Marks
  <1>1. SUFFICES ASSUME NEW u \in Seq(Token), NEW q \in Seq(Seq(Token)), NEW p \in Seq(Token),
                        ShieldedScan[u] = Calm(q, p)
                 PROVE  ShieldedScan[u \o Quoted(v)] = Calm(q, p \o Quoted(v))
    <2>1. Quoted(v) \in Seq(Token)
      BY QuotedWhole
    <2> QED
      BY <2>1, Zenon DEF Inert
  <1> DEFINE T == {t \in Seq(Token) : ShieldedScan[u \o Op(t)] = In(q, p \o Op(t))}
  <1>2. <<>> \in T
    <2>1. Op(<<>>) = <<Quote>>
      BY <1>0, EscapedRuns, Joins
    <2>2. u \o <<Quote>> = Append(u, Quote) /\ p \o <<Quote>> = Append(p, Quote)
      BY <1>0, Joins
    <2>3. ShieldedScan[Append(u, Quote)] = ShieldedStep(Calm(q, p), Quote)
      BY <1>0, <1>1, ShieldedRuns
    <2>4. ShieldedStep(Calm(q, p), Quote) = In(q, Append(p, Quote))
      BY <1>0 DEF ShieldedStep, Calm
    <2> QED
      BY <2>1, <2>2, <2>3, <2>4, EmptySeq
  <1>3. ASSUME NEW t \in Seq(A), NEW ch \in A, t \in T
        PROVE  Append(t, ch) \in T
    <2> DEFINE U == u \o Op(t)
               P == p \o Op(t)
    <2>1. t \in Seq(Token) /\ ch \in Token /\ ch # Escape /\ Append(t, ch) \in Seq(Token)
      BY <1>3, AppendProperties
    <2>2. Escaped[t] \in Seq(Token) /\ Escaped[Append(t, ch)] = EscapedStep(Escaped[t], ch)
      BY <2>1, EscapedRuns
    <2>3. <<Quote>> \in Seq(Token)
      BY <1>0, Joins
    <2>4. Op(t) \in Seq(Token)
      BY <2>2, <2>3, Joins
    <2>5. U \in Seq(Token) /\ P \in Seq(Token)
      BY <2>4, Joins
    <2>6. ShieldedScan[U] = In(q, P)
      BY <1>3
    <2>7. \A x \in Seq(Token) : EscapedStep(Escaped[t], ch) = Escaped[t] \o x =>
            /\ u \o Op(Append(t, ch)) = U \o x
            /\ p \o Op(Append(t, ch)) = P \o x
      <3>1. SUFFICES ASSUME NEW x \in Seq(Token), EscapedStep(Escaped[t], ch) = Escaped[t] \o x
                     PROVE  /\ u \o Op(Append(t, ch)) = U \o x
                            /\ p \o Op(Append(t, ch)) = P \o x
        OBVIOUS
      <3>2. Op(Append(t, ch)) = Op(t) \o x
        <4>1. (<<Quote>> \o Escaped[t]) \o x = <<Quote>> \o (Escaped[t] \o x)
          BY <2>2, <2>3, Associates, Zenon
        <4> QED
          BY <2>2, <3>1, <4>1, Zenon
      <3> HIDE DEF Op
      <3>3. (u \o Op(t)) \o x = u \o (Op(t) \o x) /\ (p \o Op(t)) \o x = p \o (Op(t) \o x)
        BY <2>4, Associates, Zenon
      <3> QED
        BY <3>2, <3>3, Zenon
    <2> HIDE DEF U, P
    <2>8. CASE ch = Quote
      <3> DEFINE x == <<Escape, Quote>>
      <3>1. x \in Seq(Token) /\ EscapedStep(Escaped[t], ch) = Escaped[t] \o x
        <4>1. <<Escape, Quote>> = Append(<<Escape>>, Quote)
          OBVIOUS
        <4>2. <<Escape>> \in Seq(Token)
          BY <1>0, Joins
        <4>3. Append(<<Escape>>, Quote) \in Seq(Token)
          BY <1>0, <4>2, AppendProperties
        <4> QED
          BY <2>8, <4>1, <4>3, Zenon DEF EscapedStep
      <3>2. /\ U \o x = Append(Append(U, Escape), Quote)
            /\ P \o x = Append(Append(P, Escape), Quote)
        <4>1. \A z \in Seq(Token) : z \o x = Append(Append(z, Escape), Quote)
          <5>1. x = Append(<<Escape>>, Quote)
            OBVIOUS
          <5>2. <<Escape>> \o <<Quote>> = x
            BY <1>0, <5>1, Joins
          <5> HIDE DEF x
          <5>3. ASSUME NEW z \in Seq(Token)
                PROVE  z \o x = Append(Append(z, Escape), Quote)
            <6>1. /\ <<Escape>> \in Seq(Token) /\ <<Quote>> \in Seq(Token)
                  /\ z \o <<Escape>> = Append(z, Escape) /\ Append(z, Escape) \in Seq(Token)
              BY <1>0, Joins, AppendProperties
            <6>2. (z \o <<Escape>>) \o <<Quote>> = z \o x
              BY <5>2, <6>1, Associates, Zenon
            <6> QED
              BY <1>0, <6>1, <6>2, AppendIsConcat
          <5> QED
            BY <5>3
        <4> QED
          BY <2>5, <4>1, Zenon
      <3>3. ShieldedScan[Append(U, Escape)] = ShieldedStep(In(q, P), Escape)
        BY <1>0, <2>5, <2>6, ShieldedRuns
      <3>4. ShieldedStep(In(q, P), Escape)
              = [parts |-> q, piece |-> Append(P, Escape), inQuotes |-> TRUE, escape |-> TRUE]
        BY <1>0 DEF ShieldedStep
      <3>5. Append(U, Escape) \in Seq(Token)
        BY <1>0, <2>5, AppendProperties
      <3>6. ShieldedScan[Append(Append(U, Escape), Quote)]
              = ShieldedStep(ShieldedScan[Append(U, Escape)], Quote)
        BY <1>0, <3>5, ShieldedRuns
      <3>7. ShieldedStep([parts |-> q, piece |-> Append(P, Escape), inQuotes |-> TRUE,
                          escape |-> TRUE], Quote)
              = In(q, Append(Append(P, Escape), Quote))
        BY DEF ShieldedStep
      <3>8. ShieldedScan[U \o x] = In(q, P \o x)
        BY <3>2, <3>3, <3>4, <3>6, <3>7
      <3> HIDE DEF x, Op
      <3> QED
        BY <2>1, <2>7, <3>1, <3>8
    <2>9. CASE ch # Quote
      <3> DEFINE x == <<ch>>
      <3>1. x \in Seq(Token) /\ EscapedStep(Escaped[t], ch) = Escaped[t] \o x
        BY <2>1, <2>9, Joins DEF EscapedStep
      <3>2. U \o x = Append(U, ch) /\ P \o x = Append(P, ch)
        BY <2>1, <2>5, Joins
      <3>3. ShieldedScan[Append(U, ch)] = ShieldedStep(In(q, P), ch)
        BY <2>1, <2>5, <2>6, ShieldedRuns
      <3>4. ShieldedStep(In(q, P), ch) = In(q, Append(P, ch))
        BY <2>1, <2>9 DEF ShieldedStep
      <3>5. ShieldedScan[U \o x] = In(q, P \o x)
        BY <3>2, <3>3, <3>4
      <3> HIDE DEF x, Op
      <3> QED
        BY <2>1, <2>7, <3>1, <3>5
    <2> QED
      BY <2>8, <2>9
  <1> HIDE DEF T, A
  <1>4. \A t \in Seq(A) : t \in T
    BY <1>2, <1>3, SeqInduct
  <1>5. v \in Seq(Token) /\ ShieldedScan[u \o Op(v)] = In(q, p \o Op(v))
    BY <1>4 DEF T, A
  <1>6. Op(v) \in Seq(Token) /\ Quoted(v) = Op(v) \o <<Quote>>
    <2>1. Escaped[v] \in Seq(Token) /\ <<Quote>> \in Seq(Token)
      BY <1>0, <1>5, EscapedRuns, Joins
    <2> QED
      BY <2>1, Joins DEF Quoted
  <1> HIDE DEF Op
  <1>7. u \o Op(v) \in Seq(Token) /\ p \o Op(v) \in Seq(Token) /\ <<Quote>> \in Seq(Token)
    BY <1>0, <1>6, Joins
  <1>8. /\ u \o Quoted(v) = (u \o Op(v)) \o <<Quote>>
        /\ p \o Quoted(v) = (p \o Op(v)) \o <<Quote>>
    BY <1>6, <1>7, Joins
  <1> DEFINE U == u \o Op(v)
             P == p \o Op(v)
  <1> HIDE DEF U, P
  <1>9. U \in Seq(Token) /\ P \in Seq(Token) /\ ShieldedScan[U] = In(q, P)
    BY <1>5, <1>7 DEF U, P
  <1>10. U \o <<Quote>> = Append(U, Quote) /\ P \o <<Quote>> = Append(P, Quote)
    BY <1>0, <1>9, Joins
  <1>11. ShieldedScan[Append(U, Quote)] = ShieldedStep(In(q, P), Quote)
    BY <1>0, <1>9, ShieldedRuns
  <1>12. ShieldedStep(In(q, P), Quote) = Calm(q, Append(P, Quote))
    BY <1>0 DEF ShieldedStep, Calm
  <1> QED
    BY <1>8, <1>10, <1>11, <1>12 DEF U, P

\* What is left of a text without the blanks around it.
LEMMA Trimmed ==
  ASSUME NEW u \in Seq(Token), NEW i \in 1..Len(u), NEW j \in 1..Len(u), i <= j,
         u[i] # Blank, u[j] # Blank,
         \A k \in 1..Len(u) : u[k] # Blank => i <= k /\ k <= j
  PROVE  TrimSpace(u) = SubSeq(u, i, j)
  <1> DEFINE kept == {k \in DOMAIN u : u[k] # Blank}
  <1>1. DOMAIN u = 1..Len(u) /\ Len(u) \in Nat
    BY LenProperties
  <1>2. kept \subseteq Nat /\ i \in kept /\ j \in kept /\ \A k \in kept : i <= k /\ k <= j
    BY <1>1
  <1>3. TrimSpace(u) = IF kept = {} THEN <<>> ELSE SubSeq(u, Min(kept), Max(kept))
    BY Zenon DEF TrimSpace
  <1> HIDE DEF kept
  <1>4. Min(kept) = i
    BY <1>2, LeastIs
  <1>5. Max(kept) = j
    BY <1>2, GreatestIs
  <1>6. kept # {}
    BY <1>2
  <1> QED
    BY <1>3, <1>4, <1>5, <1>6

LEMMA Appended ==
  ASSUME NEW S
  PROVE  /\ \A a \in S : Append(<<>>, a) = <<a>> /\ <<a>> \in Seq(S)
         /\ \A a, b \in S : Append(<<a>>, b) = <<a, b>> /\ <<a, b>> \in Seq(S)
         /\ \A a, b, c \in S : Append(<<a, b>>, c) = <<a, b, c>> /\ <<a, b, c>> \in Seq(S)
  <1>1. ASSUME NEW a \in S
        PROVE  Append(<<>>, a) = <<a>> /\ <<a>> \in Seq(S)
    OBVIOUS
  <1>2. ASSUME NEW a \in S, NEW b \in S
        PROVE  Append(<<a>>, b) = <<a, b>> /\ <<a, b>> \in Seq(S)
    <2>1. /\ <<a>> \in Seq(S) /\ Len(<<a>>) = 1 /\ <<a>>[1] = a
          /\ <<a, b>> \in Seq(S) /\ Len(<<a, b>>) = 2 /\ <<a, b>>[1] = a /\ <<a, b>>[2] = b
      OBVIOUS
    <2> DEFINE x == <<a>>
               y == <<a, b>>
               z == Append(x, b)
    <2> HIDE DEF x, y
    <2>2. /\ z \in Seq(S) /\ Len(z) = 2 /\ z[2] = b /\ z[1] = a
      BY <2>1, AppendProperties DEF x
    <2> HIDE DEF z
    <2>3. z = y
      BY <2>1, <2>2, SeqEqual DEF y
    <2> QED
      BY <2>1, <2>3 DEF x, y, z
  <1>3. ASSUME NEW a \in S, NEW b \in S, NEW c \in S
        PROVE  Append(<<a, b>>, c) = <<a, b, c>> /\ <<a, b, c>> \in Seq(S)
    <2>1. /\ <<a, b>> \in Seq(S) /\ Len(<<a, b>>) = 2 /\ <<a, b>>[1] = a /\ <<a, b>>[2] = b
          /\ <<a, b, c>> \in Seq(S) /\ Len(<<a, b, c>>) = 3
          /\ <<a, b, c>>[1] = a /\ <<a, b, c>>[2] = b /\ <<a, b, c>>[3] = c
      OBVIOUS
    <2> DEFINE x == <<a, b>>
               y == <<a, b, c>>
               z == Append(x, c)
    <2> HIDE DEF x, y
    <2>2. /\ z \in Seq(S) /\ Len(z) = 3 /\ z[3] = c /\ z[1] = a /\ z[2] = b
      BY <2>1, AppendProperties DEF x
    <2> HIDE DEF z
    <2>3. z = y
      BY <2>1, <2>2, SeqEqual DEF y
    <2> QED
      BY <2>1, <2>3 DEF x, y, z
  <1> QED
    BY <1>1, <1>2, <1>3

LEMMA OneOf ==
  ASSUME NEW x \in Seq(Token), NEW k \in 1..Len(x)
  PROVE  SubSeq(x, k, k) = <<x[k]>>
  <1> DEFINE y == SubSeq(x, k, k)
             z == <<x[k]>>
  <1>1. k \in Int /\ x[k] \in Token /\ \A j \in k..k : x[j] \in Token
    BY ElementOfSeq, LenProperties
  <1>2. /\ y \in Seq(Token)
        /\ Len(y) = IF k <= k THEN k - k + 1 ELSE 0
        /\ \A i \in 1..(k - k + 1) : y[i] = x[k + i - 1]
    BY <1>1, SubSeqProperties
  <1>3. z \in Seq(Token) /\ Len(z) = 1 /\ z[1] = x[k]
    BY <1>1
  <1> HIDE DEF y, z
  <1>4. Len(y) = 1 /\ y[1] = x[k]
    BY <1>1, <1>2
  <1>5. y = z
    BY <1>2, <1>3, <1>4, SeqEqual
  <1> QED
    BY <1>5 DEF y, z

\* A parameter's text, with a blank in front or without: its name is at k.
IsParameter(p, k, w, u) ==
    /\ p \in Seq(Token) /\ k \in {1, 2} /\ w \in Token \ {Blank, "="} /\ u \in Seq(Token)
    /\ Len(u) >= 1 /\ u[1] # Blank /\ u[Len(u)] # Blank
    /\ Len(p) = k + 1 + Len(u)
    /\ k = 2 => p[1] = Blank
    /\ p[k] = w /\ p[k + 1] = "="
    /\ \A i \in 1..Len(u) : p[k + 1 + i] = u[i]

\* It is taken apart into its name and its value.
LEMMA Parameter ==
  \A p, k, w, u :
    IsParameter(p, k, w, u)
      => Equals(p) = k + 1 /\ ParamName(p) = <<w>> /\ ParamValue(p) = Unquote(u)
  <1>0. SUFFICES ASSUME NEW p, NEW k, NEW w, NEW u, IsParameter(p, k, w, u)
                 PROVE  Equals(p) = k + 1 /\ ParamName(p) = <<w>> /\ ParamValue(p) = Unquote(u)
    OBVIOUS
  <1> DEFINE n == Len(u)
             m == Len(p)
  <1>a. p \in Seq(Token) /\ u \in Seq(Token) /\ w \in Token /\ w # Blank /\ w # "="
    BY <1>0 DEF IsParameter
  <1>b. n \in Nat /\ m \in Nat /\ DOMAIN p = 1..m /\ \A i \in 1..m : p[i] \in Token
    BY <1>a, LenProperties, ElementOfSeq
  <1>c. /\ k \in {1, 2} /\ n >= 1 /\ m = k + 1 + n
        /\ k = 2 => p[1] = Blank
        /\ p[k] = w /\ p[k + 1] = "=" /\ u[1] # Blank /\ u[n] # Blank
    BY <1>0, Zenon DEF IsParameter
  <1>d. \A i \in 1..n : p[k + 1 + i] = u[i]
    BY <1>0, Zenon DEF IsParameter
  <1>e. Len(p) = m /\ Len(u) = n
    OBVIOUS
  <1> HIDE DEF n, m
  <1>f. k \in {1, 2} /\ n >= 1 /\ m = k + 1 + n
    BY <1>c, Zenon
  <1>g. (k = 2 => p[1] = Blank) /\ p[k] = w /\ p[k + 1] = "="
    BY <1>c, Zenon
  <1>1. k \in Nat /\ 1 <= k /\ k + 1 <= m /\ k + 2 <= m
    BY <1>b, <1>f
  <1>2. Blank # "="
    BY Marks
  <1>3. Equals(p) = k + 1
    <2> DEFINE I == {i \in 1..m : p[i] = "="}
    <2>1. Equals(p) = IF I # {} THEN Min(I) ELSE 0
      BY <1>e DEF Equals, SelectInSeq
    <2>2. k + 1 \in I /\ I \subseteq Nat
      <3>1. k + 1 \in 1..m
        BY <1>b, <1>1
      <3> QED
        BY <1>b, <1>g, <3>1
    <2>3. ASSUME NEW i \in I
          PROVE  k + 1 <= i
      <3>1. i \in Nat /\ 1 <= i /\ p[i] = "="
        BY <1>b
      <3>2. i # k /\ (k = 2 => i # 1)
        BY <1>2, <1>a, <1>g, <3>1
      <3> QED
        BY <1>f, <3>1, <3>2
    <2> HIDE DEF I
    <2>4. Min(I) = k + 1
      BY <2>2, <2>3, LeastIs
    <2> QED
      BY <2>1, <2>2, <2>4
  <1>4. ParamName(p) = <<w>>
    <2> DEFINE x == SubSeq(p, 1, k)
    <2>1. (k + 1) - 1 = k /\ 1 \in Int /\ k \in Int
      BY <1>1
    <2>2. \A j \in 1..k : p[j] \in Token
      BY <1>b, <1>1
    <2>3. /\ x \in Seq(Token)
          /\ Len(x) = IF 1 <= k THEN k - 1 + 1 ELSE 0
          /\ \A i \in 1..(k - 1 + 1) : x[i] = p[1 + i - 1]
      BY <2>1, <2>2, SubSeqProperties
    <2> HIDE DEF x
    <2>4. Len(x) = k /\ x[k] = w /\ (k = 2 => x[1] = Blank)
      <3>1. Len(x) = k
        BY <1>1, <2>3
      <3>2. \A i \in 1..k : x[i] = p[i]
        BY <1>1, <2>3
      <3> QED
        BY <1>1, <1>f, <1>g, <3>1, <3>2
    <2>5. TrimSpace(x) = SubSeq(x, k, k)
      <3>1. k \in 1..Len(x) /\ k <= k /\ x[k] # Blank
        BY <1>1, <1>a, <2>4
      <3>2. \A i \in 1..Len(x) : x[i] # Blank => k <= i /\ i <= k
        BY <1>f, <2>4
      <3> QED
        BY <2>3, <3>1, <3>2, Trimmed
    <2>6. SubSeq(x, k, k) = <<w>>
      <3>1. SubSeq(x, k, k) = <<x[k]>>
        BY <1>1, <2>3, <2>4, OneOf
      <3> QED
        BY <2>4, <3>1
    <2> QED
      BY <1>3, <2>1, <2>5, <2>6 DEF ParamName, x
  <1>5. ParamValue(p) = Unquote(u)
    <2> DEFINE x == SubSeq(p, k + 2, m)
    <2>1. (k + 1) + 1 = k + 2 /\ k + 2 \in Int /\ m \in Int
      BY <1>b, <1>1
    <2>2. \A j \in (k + 2)..m : p[j] \in Token
      BY <1>b, <1>1
    <2>3. /\ x \in Seq(Token)
          /\ Len(x) = IF k + 2 <= m THEN m - (k + 2) + 1 ELSE 0
          /\ \A i \in 1..(m - (k + 2) + 1) : x[i] = p[(k + 2) + i - 1]
      BY <2>1, <2>2, SubSeqProperties
    <2> HIDE DEF x
    <2>4. Len(x) = n /\ m - (k + 2) + 1 = n
      BY <1>b, <1>f, <1>1, <2>3
    <2>5. ASSUME NEW i \in 1..n
          PROVE  x[i] = u[i]
      <3>1. (k + 2) + i - 1 = k + 1 + i
        BY <1>1
      <3>2. x[i] = p[(k + 2) + i - 1]
        BY <2>3, <2>4
      <3>3. p[k + 1 + i] = u[i]
        BY <1>d
      <3> QED
        BY <3>1, <3>2, <3>3
    <2>6. x = u
      BY <1>a, <1>e, <2>3, <2>4, <2>5, SeqEqual
    <2>7. TrimSpace(u) = SubSeq(u, 1, n)
      <3>1. 1 \in 1..Len(u) /\ n \in 1..Len(u) /\ 1 <= n
        BY <1>b, <1>f, <1>e
      <3>2. \A i \in 1..Len(u) : u[i] # Blank => 1 <= i /\ i <= n
        BY <1>b, <1>e
      <3>3. u[1] # Blank /\ u[n] # Blank
        BY <1>c, Zenon
      <3> QED
        BY <1>a, <3>1, <3>2, <3>3, Trimmed
    <2>8. SubSeq(u, 1, n) = u
      BY <1>a, <1>e, WholePart
    <2>9. ParamValue(p) = Unquote(TrimSpace(SubSeq(p, k + 2, Len(p))))
      BY <1>3, <2>1, Zenon DEF ParamValue
    <2> QED
      BY <1>e, <2>6, <2>7, <2>8, <2>9 DEF x
  <1> QED
    BY <1>3, <1>4, <1>5

\* A comma outside quotes ends a piece.
LEMMA PieceEnds ==
  \A u \in Seq(Token), q \in Seq(Seq(Token)), p \in Seq(Token) :
    ShieldedScan[u] = Calm(q, p) => ShieldedScan[u \o <<",">>] = Calm(Append(q, p), <<>>)
  <1>1. SUFFICES ASSUME NEW u \in Seq(Token), NEW q \in Seq(Seq(Token)), NEW p \in Seq(Token),
                        ShieldedScan[u] = Calm(q, p)
                 PROVE  ShieldedScan[u \o <<",">>] = Calm(Append(q, p), <<>>)
    OBVIOUS
  <1>2. "," \in Token
    BY MarkAssumption
  <1>3. ShieldedScan[Append(u, ",")] = ShieldedStep(Calm(q, p), ",")
    BY <1>1, <1>2, ShieldedRuns
  <1>4. ShieldedStep(Calm(q, p), ",") = Calm(Append(q, p), <<>>)
    BY DEF ShieldedStep, Calm
  <1>5. u \o <<",">> = Append(u, ",")
    BY <1>2, Joins
  <1> QED
    BY <1>3, <1>4, <1>5

\* splitAuthParams on two parameters, and on three.
LEMMA PartsTwo ==
  ASSUME NEW x, NEW y, Inert(x), Inert(y), y # <<>>
  PROVE  SplitAuthParams(x \o <<",">> \o y) = <<x, y>>
  <1>1. x \in Seq(Token) /\ y \in Seq(Token) /\ <<>> \in Seq(Token) /\ <<>> \in Seq(Seq(Token))
    BY EmptySeq DEF Inert
  <1>2. <<>> \o x = x /\ <<>> \o y = y /\ <<",">> \in Seq(Token)
    BY <1>1, MarkAssumption, Joins, ConcatEmptySeq
  <1>3. ShieldedScan[<<>>] = Calm(<<>>, <<>>)
    BY ShieldedRuns DEF Calm
  <1>4. ShieldedScan[x] = Calm(<<>>, x)
    <2>1. ShieldedScan[<<>> \o x] = Calm(<<>>, <<>> \o x)
      BY <1>1, <1>3, Zenon DEF Inert
    <2> QED
      BY <1>2, <2>1
  <1>6. Append(<<>>, x) = <<x>> /\ <<x>> \in Seq(Seq(Token)) /\ x \o <<",">> \in Seq(Token)
    <2>1. Append(<<>>, x) = <<x>> /\ <<x>> \in Seq(Seq(Token))
      BY <1>1, Appended
    <2>2. x \o <<",">> \in Seq(Token)
      BY <1>1, <1>2, Joins
    <2> QED
      BY <2>1, <2>2
  <1>5. ShieldedScan[x \o <<",">>] = Calm(<<x>>, <<>>)
    <2>1. ShieldedScan[x \o <<",">>] = Calm(Append(<<>>, x), <<>>)
      BY <1>1, <1>4, PieceEnds
    <2> QED
      BY <1>6, <2>1
  <1>7. ShieldedScan[(x \o <<",">>) \o y] = Calm(<<x>>, y)
    <2>1. ShieldedScan[(x \o <<",">>) \o y] = Calm(<<x>>, <<>> \o y)
      BY <1>1, <1>5, <1>6, Zenon DEF Inert
    <2> QED
      BY <1>2, <2>1
  <1>8. Append(<<x>>, y) = <<x, y>>
    BY <1>1, Appended
  <1> QED
    <2> DEFINE end == ShieldedScan[(x \o <<",">>) \o y]
    <2>3. end = Calm(<<x>>, y)
      BY <1>7
    <2> HIDE DEF end
    <2>1. end.piece = y /\ end.parts = <<x>>
      BY <2>3 DEF Calm
    <2>2. end.piece # <<>> /\ Append(end.parts, end.piece) = <<x, y>>
      BY <1>8, <2>1
    <2> QED
      BY <2>2, Zenon DEF SplitAuthParams, end

LEMMA PartsThree ==
  ASSUME NEW x, NEW y, NEW z, Inert(x), Inert(y), Inert(z), z # <<>>
  PROVE  SplitAuthParams(((x \o <<",">>) \o y \o <<",">>) \o z) = <<x, y, z>>
  <1>1. /\ x \in Seq(Token) /\ y \in Seq(Token) /\ z \in Seq(Token)
        /\ <<>> \in Seq(Token) /\ <<>> \in Seq(Seq(Token))
    BY EmptySeq DEF Inert
  <1>2. <<>> \o x = x /\ <<>> \o y = y /\ <<>> \o z = z /\ <<",">> \in Seq(Token)
    BY <1>1, MarkAssumption, Joins, ConcatEmptySeq
  <1>3. ShieldedScan[<<>>] = Calm(<<>>, <<>>)
    BY ShieldedRuns DEF Calm
  <1>4. ShieldedScan[x] = Calm(<<>>, x)
    <2>1. ShieldedScan[<<>> \o x] = Calm(<<>>, <<>> \o x)
      BY <1>1, <1>3, Zenon DEF Inert
    <2> QED
      BY <1>2, <2>1
  <1>6. Append(<<>>, x) = <<x>> /\ <<x>> \in Seq(Seq(Token)) /\ x \o <<",">> \in Seq(Token)
    <2>1. Append(<<>>, x) = <<x>> /\ <<x>> \in Seq(Seq(Token))
      BY <1>1, Appended
    <2>2. x \o <<",">> \in Seq(Token)
      BY <1>1, <1>2, Joins
    <2> QED
      BY <2>1, <2>2
  <1>5. ShieldedScan[x \o <<",">>] = Calm(<<x>>, <<>>)
    <2>1. ShieldedScan[x \o <<",">>] = Calm(Append(<<>>, x), <<>>)
      BY <1>1, <1>4, PieceEnds
    <2> QED
      BY <1>6, <2>1
  <1>7. ShieldedScan[(x \o <<",">>) \o y] = Calm(<<x>>, y)
    <2>1. ShieldedScan[(x \o <<",">>) \o y] = Calm(<<x>>, <<>> \o y)
      BY <1>1, <1>5, <1>6, Zenon DEF Inert
    <2> QED
      BY <1>2, <2>1
  <1>8. (x \o <<",">>) \o y \in Seq(Token)
    BY <1>1, <1>6, Joins
  <1>10. /\ Append(<<x>>, y) = <<x, y>> /\ <<x, y>> \in Seq(Seq(Token))
         /\ ((x \o <<",">>) \o y) \o <<",">> \in Seq(Token)
         /\ Append(<<x, y>>, z) = <<x, y, z>>
    <2>1. Append(<<x>>, y) = <<x, y>> /\ <<x, y>> \in Seq(Seq(Token))
      BY <1>1, Appended
    <2>2. ((x \o <<",">>) \o y) \o <<",">> \in Seq(Token)
      BY <1>2, <1>8, Joins
    <2>3. Append(<<x, y>>, z) = <<x, y, z>>
      BY <1>1, Appended
    <2> QED
      BY <2>1, <2>2, <2>3
  <1>9. ShieldedScan[((x \o <<",">>) \o y) \o <<",">>] = Calm(<<x, y>>, <<>>)
    <2>1. ShieldedScan[((x \o <<",">>) \o y) \o <<",">>] = Calm(Append(<<x>>, y), <<>>)
      BY <1>1, <1>6, <1>7, <1>8, PieceEnds
    <2> QED
      BY <1>10, <2>1
  <1>11. ShieldedScan[(((x \o <<",">>) \o y) \o <<",">>) \o z] = Calm(<<x, y>>, z)
    <2>1. ShieldedScan[(((x \o <<",">>) \o y) \o <<",">>) \o z] = Calm(<<x, y>>, <<>> \o z)
      BY <1>1, <1>9, <1>10, Zenon DEF Inert
    <2> QED
      BY <1>2, <2>1
  <1> QED
    <2> DEFINE end == ShieldedScan[(((x \o <<",">>) \o y) \o <<",">>) \o z]
    <2>3. end = Calm(<<x, y>>, z)
      BY <1>11
    <2> HIDE DEF end
    <2>1. end.piece = z /\ end.parts = <<x, y>>
      BY <2>3 DEF Calm
    <2>2. end.piece # <<>> /\ Append(end.parts, end.piece) = <<x, y, z>>
      BY <1>10, <2>1
    <2> QED
      BY <2>2, Zenon DEF SplitAuthParams, end

\* The one parameter of a name is its value; without one there is none.
LEMMA ParamFound ==
  ASSUME NEW name, NEW P, NEW parts, parts = SplitAuthParams(P), parts \in Seq(Seq(Token)),
         NEW i \in DOMAIN parts, Equals(parts[i]) # 0, ParamName(parts[i]) = <<name>>,
         \A j \in DOMAIN parts : j # i => ParamName(parts[j]) # <<name>>
  PROVE  AuthParam(name, P) = ParamValue(parts[i])
  <1> DEFINE mine == {j \in DOMAIN parts : /\ Equals(parts[j]) # 0
                                           /\ ParamName(parts[j]) = <<name>>}
  <1>1. mine = {i} /\ i \in Nat
    BY LenProperties
  <1>2. AuthParam(name, P) = IF mine = {} THEN Absent ELSE ParamValue(parts[Max(mine)])
    BY Zenon DEF AuthParam
  <1> HIDE DEF mine
  <1>3. Max({i}) = i
    <2>1. {i} \subseteq Nat /\ i \in {i} /\ \A j \in {i} : j <= i
      BY <1>1
    <2> QED
      BY <2>1, GreatestIs
  <1>4. mine # {} /\ Max(mine) = i
    BY <1>1, <1>3
  <1> QED
    BY <1>2, <1>4

LEMMA ParamMissing ==
  ASSUME NEW name, NEW P, NEW parts, parts = SplitAuthParams(P),
         \A j \in DOMAIN parts : ParamName(parts[j]) # <<name>>
  PROVE  AuthParam(name, P) = Absent
  <1> DEFINE mine == {j \in DOMAIN parts : /\ Equals(parts[j]) # 0
                                           /\ ParamName(parts[j]) = <<name>>}
  <1>1. mine = {}
    OBVIOUS
  <1>2. AuthParam(name, P) = IF mine = {} THEN Absent ELSE ParamValue(parts[Max(mine)])
    BY Zenon DEF AuthParam
  <1> HIDE DEF mine
  <1> QED
    BY <1>1, <1>2

\* The Bearer challenge behind another one is read.
LEMMA BearerRead ==
  ASSUME NEW other, other.scheme = "Basic", NEW P, AuthParam("realm", P) # Absent
  PROVE  ParseOCIAuthChallenge(<<other, [scheme |-> "Bearer", params |-> P]>>)
           = [realm   |-> AuthParam("realm", P),
              service |-> IF AuthParam("service", P) = Absent THEN <<>>
                          ELSE AuthParam("service", P),
              scope   |-> IF AuthParam("scope", P) = Absent THEN <<>>
                          ELSE AuthParam("scope", P)]
  <1> DEFINE bearer  == [scheme |-> "Bearer", params |-> P]
             headers == <<other, bearer>>
             I       == {i \in 1..Len(headers) : headers[i].scheme = "Bearer"}
             first   == IF I # {} THEN Min(I) ELSE 0
  <1>1. Len(headers) = 2 /\ headers[1] = other /\ headers[2] = bearer
    OBVIOUS
  <1>2. bearer.scheme = "Bearer" /\ bearer.params = P
    OBVIOUS
  <1>3. ParseOCIAuthChallenge(headers)
          = IF first = 0 \/ AuthParam("realm", headers[first].params) = Absent THEN Absent
            ELSE [realm   |-> AuthParam("realm", headers[first].params),
                  service |-> IF AuthParam("service", headers[first].params) = Absent THEN <<>>
                              ELSE AuthParam("service", headers[first].params),
                  scope   |-> IF AuthParam("scope", headers[first].params) = Absent THEN <<>>
                              ELSE AuthParam("scope", headers[first].params)]
    BY Zenon DEF ParseOCIAuthChallenge, SelectInSeq
  <1> HIDE DEF headers, bearer
  <1>4. I = {2}
    <2>1. 1..Len(headers) = {1, 2}
      BY <1>1
    <2>2. headers[1].scheme # "Bearer" /\ headers[2].scheme = "Bearer"
      BY <1>1, <1>2
    <2> QED
      BY <2>1, <2>2
  <1> HIDE DEF I
  <1>5. first = 2
    <2>1. {2} \subseteq Nat /\ 2 \in {2} /\ \A j \in {2} : 2 <= j
      OBVIOUS
    <2>2. Min({2}) = 2
      BY <2>1, LeastIs
    <2> QED
      BY <1>4, <2>2
  <1> HIDE DEF first
  <1>6. headers[first].params = P /\ first # 0
    BY <1>1, <1>2, <1>5
  <1> QED
    BY <1>3, <1>6, Zenon DEF headers, bearer

\* The parameters a registry sends.
LEMMA RealmText ==
  ASSUME NEW v \in Seq(Token \ {Escape})
  PROVE  LET p == <<"realm", "=">> \o Quoted(v)
         IN  Inert(p) /\ p # <<>> /\ IsParameter(p, 1, "realm", Quoted(v))
  <1> DEFINE u == Quoted(v)
             a == <<"realm", "=">>
             p == a \o u
             n == Len(u)
  <1>1. /\ u \in Seq(Token) /\ n \in Nat /\ n >= 2 /\ u[1] = Quote /\ u[n] = Quote
        /\ Inert(u)
    BY QuotedWhole, InertQuoted
  <1>2. "realm" \in Token \ {",", Quote, Escape, Blank, "="} /\ "=" \in Token \ {",", Quote, Escape}
    BY MarkAssumption, TokenAssumption, Marks, Zenon DEF Quote, Escape, Blank
  <1>3. /\ a \in Seq(Token) /\ Len(a) = 2 /\ a[1] = "realm" /\ a[2] = "="
        /\ a = <<"realm">> \o <<"=">>
    <2>1. Append(<<"realm">>, "=") = a /\ a \in Seq(Token)
      BY <1>2, Appended
    <2>2. <<"realm">> \o <<"=">> = Append(<<"realm">>, "=")
      BY <1>2, Joins
    <2>3. Len(a) = 2 /\ a[1] = "realm" /\ a[2] = "="
      OBVIOUS
    <2> QED
      BY <2>1, <2>2, <2>3
  <1> HIDE DEF u, a, n
  <1>4. Inert(a)
    BY <1>2, <1>3, InertWords, InertJoined
  <1>5. Inert(p)
    BY <1>1, <1>4, InertJoined
  <1>6. /\ p \in Seq(Token) /\ Len(p) = 2 + n
        /\ \A i \in 1..(2 + n) : p[i] = IF i <= 2 THEN a[i] ELSE u[i - 2]
    BY <1>1, <1>3, ConcatProperties DEF n
  <1> HIDE DEF p
  <1>7. p[1] = "realm" /\ p[2] = "="
    BY <1>1, <1>3, <1>6
  <1>8. \A i \in 1..n : p[2 + i] = u[i]
    <2>1. ASSUME NEW i \in 1..n
          PROVE  p[2 + i] = u[i]
      <3>1. 2 + i \in 1..(2 + n) /\ ~(2 + i <= 2) /\ (2 + i) - 2 = i
        BY <1>1
      <3> QED
        BY <1>6, <3>1
    <2> QED
      BY <2>1
  <1>9. p # <<>>
    BY <1>1, <1>6
  <1>10. IsParameter(p, 1, "realm", u)
    <2>1. 1 + 1 = 2 /\ 1 \in {1, 2} /\ n >= 1 /\ 1 # 2
      BY <1>1
    <2>2. Quote # Blank
      BY Marks, Zenon
    <2> QED
      BY <1>1, <1>2, <1>6, <1>7, <1>8, <2>1, <2>2, Zenon DEF IsParameter, n
  <1> QED
    BY <1>5, <1>9, <1>10, Zenon DEF p, u, a

LEMMA ScopeText ==
  ASSUME NEW v \in Seq(Token \ {Escape})
  PROVE  LET p == <<Blank, "scope", "=">> \o Quoted(v)
         IN  Inert(p) /\ p # <<>> /\ IsParameter(p, 2, "scope", Quoted(v))
  <1> DEFINE u == Quoted(v)
             a == <<Blank, "scope", "=">>
             p == a \o u
             n == Len(u)
  <1>1. /\ u \in Seq(Token) /\ n \in Nat /\ n >= 2 /\ u[1] = Quote /\ u[n] = Quote
        /\ Inert(u)
    BY QuotedWhole, InertQuoted
  <1>2. /\ "scope" \in Token \ {",", Quote, Escape, Blank, "="}
        /\ "=" \in Token \ {",", Quote, Escape} /\ Blank \in Token \ {",", Quote, Escape}
    BY MarkAssumption, TokenAssumption, Marks, Zenon DEF Quote, Escape, Blank
  <1>3. /\ a \in Seq(Token) /\ Len(a) = 3 /\ a[1] = Blank /\ a[2] = "scope" /\ a[3] = "="
        /\ a = (<<Blank>> \o <<"scope">>) \o <<"=">>
    <2>1. /\ Append(<<Blank>>, "scope") = <<Blank, "scope">> /\ <<Blank, "scope">> \in Seq(Token)
          /\ Append(<<Blank, "scope">>, "=") = a /\ a \in Seq(Token)
      <3>1. \A x, y \in Token : Append(<<x>>, y) = <<x, y>> /\ <<x, y>> \in Seq(Token)
        BY Appended
      <3>2. \A x, y, z \in Token : Append(<<x, y>>, z) = <<x, y, z>> /\ <<x, y, z>> \in Seq(Token)
        BY Appended
      <3> QED
        BY <1>2, <3>1, <3>2
    <2>2. /\ <<Blank>> \o <<"scope">> = Append(<<Blank>>, "scope")
          /\ <<Blank, "scope">> \o <<"=">> = Append(<<Blank, "scope">>, "=")
      BY <1>2, <2>1, Joins
    <2>3. Len(a) = 3 /\ a[1] = Blank /\ a[2] = "scope" /\ a[3] = "="
      OBVIOUS
    <2> QED
      BY <2>1, <2>2, <2>3
  <1> HIDE DEF u, a, n
  <1>4. Inert(a)
    BY <1>2, <1>3, InertWords, InertJoined
  <1>5. Inert(p)
    BY <1>1, <1>4, InertJoined
  <1>6. /\ p \in Seq(Token) /\ Len(p) = 3 + n
        /\ \A i \in 1..(3 + n) : p[i] = IF i <= 3 THEN a[i] ELSE u[i - 3]
    BY <1>1, <1>3, ConcatProperties DEF n
  <1> HIDE DEF p
  <1>7. p[1] = Blank /\ p[2] = "scope" /\ p[3] = "="
    BY <1>1, <1>3, <1>6
  <1>8. \A i \in 1..n : p[3 + i] = u[i]
    <2>1. ASSUME NEW i \in 1..n
          PROVE  p[3 + i] = u[i]
      <3>1. 3 + i \in 1..(3 + n) /\ ~(3 + i <= 3) /\ (3 + i) - 3 = i
        BY <1>1
      <3> QED
        BY <1>6, <3>1
    <2> QED
      BY <2>1
  <1>9. p # <<>>
    BY <1>1, <1>6
  <1>10. IsParameter(p, 2, "scope", u)
    <2>1. 2 + 1 = 3 /\ 2 \in {1, 2} /\ n >= 1
      BY <1>1
    <2>2. Quote # Blank
      BY Marks, Zenon
    <2> QED
      BY <1>1, <1>2, <1>6, <1>7, <1>8, <2>1, <2>2, Zenon DEF IsParameter, n
  <1> QED
    BY <1>5, <1>9, <1>10, Zenon DEF p, u, a

LEMMA ServiceText ==
  LET p == <<"service", "=", "s">>
  IN  Inert(p) /\ IsParameter(p, 1, "service", <<"s">>) /\ Unquote(<<"s">>) = <<"s">>
  <1> DEFINE p == <<"service", "=", "s">>
             u == <<"s">>
  <1>1. /\ "service" \in Token \ {",", Quote, Escape, Blank, "="}
        /\ "s" \in Token \ {",", Quote, Escape, Blank} /\ "=" \in Token \ {",", Quote, Escape}
    BY MarkAssumption, TokenAssumption, Marks, Zenon DEF Quote, Escape, Blank
  <1>2. u \in Seq(Token) /\ Len(u) = 1 /\ u[1] = "s"
    BY <1>1
  <1>3. /\ p \in Seq(Token) /\ Len(p) = 3 /\ p[1] = "service" /\ p[2] = "=" /\ p[3] = "s"
    BY <1>1
  <1>4. p = (<<"service">> \o <<"=">>) \o u
    <2>1. /\ Append(<<"service">>, "=") = <<"service", "=">> /\ <<"service", "=">> \in Seq(Token)
          /\ Append(<<"service", "=">>, "s") = p
      BY <1>1, Appended
    <2>2. /\ <<"service">> \o <<"=">> = Append(<<"service">>, "=")
          /\ <<"service", "=">> \o <<"s">> = Append(<<"service", "=">>, "s")
      BY <1>1, <2>1, Joins
    <2> QED
      BY <2>1, <2>2
  <1>5. Inert(<<"service">>) /\ Inert(<<"=">>) /\ Inert(u)
    BY <1>1, InertWords
  <1> HIDE DEF p, u
  <1>6. Inert(p)
    BY <1>4, <1>5, InertJoined
  <1>7. \A i \in 1..1 : p[2 + i] = u[i]
    BY <1>2, <1>3
  <1>8. IsParameter(p, 1, "service", u)
    <2>1. 1 + 1 = 2 /\ 1 \in {1, 2} /\ 1 >= 1 /\ 1 # 2 /\ 2 + 1 = 3 /\ u[Len(u)] = "s"
      BY <1>2
    <2> QED
      BY <1>1, <1>2, <1>3, <1>7, <2>1, Zenon DEF IsParameter
  <1>9. Unquote(u) = u
    BY <1>2 DEF Unquote
  <1> QED
    BY <1>6, <1>8, <1>9, Zenon DEF p, u

LEMMA CommasAround ==
  ASSUME NEW a \in Token, NEW b \in Token, NEW c \in Token, NEW d \in Token
  PROVE  <<a, b, c, d, a>> = (<<a>> \o <<b, c, d>>) \o <<a>>
  <1> DEFINE x == <<a>>
             y == <<b, c, d>>
             z == <<a, b, c, d, a>>
             w == x \o y
             t == w \o x
  <1>1. /\ x \in Seq(Token) /\ Len(x) = 1 /\ x[1] = a
        /\ y \in Seq(Token) /\ Len(y) = 3 /\ y[1] = b /\ y[2] = c /\ y[3] = d
        /\ z \in Seq(Token) /\ Len(z) = 5
        /\ z[1] = a /\ z[2] = b /\ z[3] = c /\ z[4] = d /\ z[5] = a
    OBVIOUS
  <1> HIDE DEF x, y, z
  <1>2. /\ w \in Seq(Token) /\ Len(w) = 4
        /\ \A i \in 1..4 : w[i] = IF i <= 1 THEN x[i] ELSE y[i - 1]
    <2>1. /\ w \in Seq(Token) /\ Len(w) = Len(x) + Len(y)
          /\ \A i \in 1..(Len(x) + Len(y)) : w[i] = IF i <= Len(x) THEN x[i] ELSE y[i - Len(x)]
      BY <1>1, ConcatProperties
    <2>2. Len(x) + Len(y) = 4 /\ Len(x) = 1
      BY <1>1
    <2> HIDE DEF w
    <2> QED
      BY <2>1, <2>2
  <1> HIDE DEF w
  <1>3. w[1] = a /\ w[2] = b /\ w[3] = c /\ w[4] = d
    BY <1>1, <1>2
  <1>4. /\ t \in Seq(Token) /\ Len(t) = 5
        /\ \A i \in 1..5 : t[i] = IF i <= 4 THEN w[i] ELSE x[i - 4]
    <2>1. /\ t \in Seq(Token) /\ Len(t) = Len(w) + Len(x)
          /\ \A i \in 1..(Len(w) + Len(x)) : t[i] = IF i <= Len(w) THEN w[i] ELSE x[i - Len(w)]
      BY <1>1, <1>2, ConcatProperties
    <2>2. Len(w) + Len(x) = 5 /\ Len(w) = 4
      BY <1>1, <1>2
    <2> HIDE DEF t
    <2> QED
      BY <2>1, <2>2
  <1> HIDE DEF t
  <1>5. t[1] = a /\ t[2] = b /\ t[3] = c /\ t[4] = d /\ t[5] = a
    BY <1>1, <1>3, <1>4
  <1>6. t = z
    <2>1. \A i \in 1..5 : t[i] = z[i]
      BY <1>1, <1>5
    <2> QED
      BY <1>1, <1>4, <2>1, SeqEqual
  <1> QED
    BY <1>6, Zenon DEF t, w, x, y, z

\* Where no backslash stands in a challenge's values, a challenge says what it
\* said before it was quoted, whatever commas, equals signs, quotes and blanks
\* its values hold, in whatever order they come (parseOCIAuthChallenge,
\* splitAuthParams, parseAuthChallengeParams).
THEOREM ChallengesRead ==
  ASSUME "challenge" \in Kind => Escape \notin Alphabet["challenge"]
  PROVE  InputsSpec => []ChallengeRoundTrip
  <1>1. ASSUME InputsInv
        PROVE  ChallengeRoundTrip
    <2>1. SUFFICES ASSUME kind = "challenge"
                   PROVE  ChallengeRoundTrip
      BY Zenon DEF ChallengeRoundTrip
    <2> DEFINE other   == [scheme |-> "Basic", params |-> <<"realm", "=", "x">>]
               u       == Quoted(text)
               realm   == <<"realm", "=">> \o u
               scope   == <<Blank, "scope", "=">> \o u
               service == <<"service", "=", "s">>
               Read(P) == ParseOCIAuthChallenge(<<other, [scheme |-> "Bearer", params |-> P]>>)
               three   == realm \o <<",", "service", "=", "s", ",">> \o scope
               two     == scope \o <<",">> \o realm
    <2>2. text \in Seq(Token \ {Escape})
      BY <1>1, <2>1, TokenAssumption DEF InputsInv
    <2>3. text \in Seq(Token) /\ text # Absent /\ Unquote(u) = text
      <3>1. text \in Seq(Token) /\ Unquote(u) = text
        BY <2>2, Unescaped, QuotedWhole
      <3> QED
        BY <3>1, NoTextAssumption
    <2>4. other.scheme = "Basic"
      OBVIOUS
    <2>5. Inert(realm) /\ realm # <<>> /\ IsParameter(realm, 1, "realm", u)
      BY <2>2, RealmText
    <2>6. Inert(scope) /\ scope # <<>> /\ IsParameter(scope, 2, "scope", u)
      BY <2>2, ScopeText
    <2>7. /\ Inert(service) /\ IsParameter(service, 1, "service", <<"s">>)
          /\ Unquote(<<"s">>) = <<"s">>
      BY ServiceText
    <2> HIDE DEF other
    <2>8. <<"s">> # Absent
      <3>1. <<"s">> \in Seq(Token)
        BY TokenAssumption, Joins
      <3> QED
        BY <3>1, NoTextAssumption
    <2>9. three = ((realm \o <<",">>) \o service \o <<",">>) \o scope
      <3>1. <<",", "service", "=", "s", ",">> = (<<",">> \o service) \o <<",">>
        <4>1. "," \in Token /\ "service" \in Token /\ "=" \in Token /\ "s" \in Token
          BY TokenAssumption, MarkAssumption, Zenon
        <4> QED
          BY <4>1, CommasAround DEF service
      <3>2. realm \in Seq(Token) /\ service \in Seq(Token) /\ <<",">> \in Seq(Token)
        BY <2>5, <2>7, MarkAssumption, Joins DEF Inert
      <3> HIDE DEF realm, service
      <3>3. realm \o ((<<",">> \o service) \o <<",">>) = (realm \o (<<",">> \o service)) \o <<",">>
        <4>1. <<",">> \o service \in Seq(Token)
          BY <3>2, Joins
        <4> QED
          BY <3>2, <4>1, Associates, Zenon
      <3>4. realm \o (<<",">> \o service) = (realm \o <<",">>) \o service
        BY <3>2, Associates, Zenon
      <3> QED
        BY <3>1, <3>3, <3>4
    <2> HIDE DEF realm, scope, service, u
    <2>10. /\ Equals(realm) = 2 /\ ParamName(realm) = <<"realm">> /\ ParamValue(realm) = text
           /\ Equals(scope) = 3 /\ ParamName(scope) = <<"scope">> /\ ParamValue(scope) = text
           /\ Equals(service) = 2 /\ ParamName(service) = <<"service">>
           /\ ParamValue(service) = <<"s">>
      <3>1. 1 + 1 = 2 /\ 2 + 1 = 3
        OBVIOUS
      <3> QED
        BY <2>3, <2>5, <2>6, <2>7, <3>1, Parameter, Zenon
    <2>11. /\ <<"realm">> # <<"scope">> /\ <<"realm">> # <<"service">>
           /\ <<"scope">> # <<"service">>
      OBVIOUS
    <2>12. realm \in Seq(Token) /\ scope \in Seq(Token) /\ service \in Seq(Token)
      BY <2>5, <2>6, <2>7 DEF Inert
    <2> HIDE DEF three, two
    <2>13. Read(three) = [realm |-> text, service |-> <<"s">>, scope |-> text]
      <3> DEFINE parts == <<realm, service, scope>>
      <3>1. parts = SplitAuthParams(three)
        BY <2>5, <2>6, <2>7, <2>9, PartsThree
      <3>2. /\ parts \in Seq(Seq(Token)) /\ DOMAIN parts = {1, 2, 3}
            /\ parts[1] = realm /\ parts[2] = service /\ parts[3] = scope
        BY <2>12
      <3> HIDE DEF parts
      <3>3. AuthParam("realm", three) = text
        <4>1. /\ 1 \in DOMAIN parts
              /\ \A j \in DOMAIN parts : j # 1 => ParamName(parts[j]) # <<"realm">>
          BY <2>10, <2>11, <3>2
        <4>2. Equals(parts[1]) # 0 /\ ParamName(parts[1]) = <<"realm">>
          BY <2>10, <3>2
        <4>3. AuthParam("realm", three) = ParamValue(parts[1])
          <5>1. parts \in Seq(Seq(Token)) /\ 1 \in DOMAIN parts
            BY <3>2
          <5> QED
            BY <3>1, <4>1, <4>2, <5>1, ParamFound
        <4> QED
          BY <2>10, <3>2, <4>3
      <3>4. AuthParam("service", three) = <<"s">>
        <4>1. /\ 2 \in DOMAIN parts
              /\ \A j \in DOMAIN parts : j # 2 => ParamName(parts[j]) # <<"service">>
          BY <2>10, <2>11, <3>2
        <4>2. Equals(parts[2]) # 0 /\ ParamName(parts[2]) = <<"service">>
          BY <2>10, <3>2
        <4>3. AuthParam("service", three) = ParamValue(parts[2])
          BY <3>1, <3>2, <4>1, <4>2, ParamFound
        <4> QED
          BY <2>10, <3>2, <4>3
      <3>5. AuthParam("scope", three) = text
        <4>1. /\ 3 \in DOMAIN parts
              /\ \A j \in DOMAIN parts : j # 3 => ParamName(parts[j]) # <<"scope">>
          BY <2>10, <2>11, <3>2
        <4>2. Equals(parts[3]) # 0 /\ ParamName(parts[3]) = <<"scope">>
          BY <2>10, <3>2
        <4>3. AuthParam("scope", three) = ParamValue(parts[3])
          BY <3>1, <3>2, <4>1, <4>2, ParamFound
        <4> QED
          BY <2>10, <3>2, <4>3
      <3> QED
        BY <2>3, <2>4, <2>8, <3>3, <3>4, <3>5, BearerRead
    <2>14. Read(two) = [realm |-> text, service |-> <<>>, scope |-> text]
      <3> DEFINE parts == <<scope, realm>>
      <3>1. parts = SplitAuthParams(two)
        BY <2>5, <2>6, PartsTwo DEF two
      <3>2. /\ parts \in Seq(Seq(Token)) /\ DOMAIN parts = {1, 2}
            /\ parts[1] = scope /\ parts[2] = realm
        BY <2>12
      <3> HIDE DEF parts
      <3>3. AuthParam("realm", two) = text
        <4>1. /\ 2 \in DOMAIN parts
              /\ \A j \in DOMAIN parts : j # 2 => ParamName(parts[j]) # <<"realm">>
          BY <2>10, <2>11, <3>2
        <4>2. Equals(parts[2]) # 0 /\ ParamName(parts[2]) = <<"realm">>
          BY <2>10, <3>2
        <4>3. AuthParam("realm", two) = ParamValue(parts[2])
          BY <3>1, <3>2, <4>1, <4>2, ParamFound
        <4> QED
          BY <2>10, <3>2, <4>3
      <3>4. AuthParam("service", two) = Absent
        <4>1. \A j \in DOMAIN parts : ParamName(parts[j]) # <<"service">>
          BY <2>10, <2>11, <3>2
        <4> QED
          BY <3>1, <4>1, ParamMissing
      <3>5. AuthParam("scope", two) = text
        <4>1. /\ 1 \in DOMAIN parts
              /\ \A j \in DOMAIN parts : j # 1 => ParamName(parts[j]) # <<"scope">>
          BY <2>10, <2>11, <3>2
        <4>2. Equals(parts[1]) # 0 /\ ParamName(parts[1]) = <<"scope">>
          BY <2>10, <3>2
        <4>3. AuthParam("scope", two) = ParamValue(parts[1])
          BY <3>1, <3>2, <4>1, <4>2, ParamFound
        <4> QED
          BY <2>10, <3>2, <4>3
      <3> QED
        BY <2>3, <2>4, <3>3, <3>4, <3>5, BearerRead
    <2> QED
      BY <2>13, <2>14, Zenon DEF ChallengeRoundTrip, two, three, realm, scope, service, u, other
  <1> QED
    BY <1>1, InputsTyped, PTL

=============================================================================
