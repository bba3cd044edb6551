------------------------- MODULE ScopedFetch_proof -------------------------
(***************************************************************************)
(* What ScopedFetch asks for, for all URLs and scopes (Bounds), any number *)
(* of processes and any interval.  First what the scope guard lets pass is *)
(* what a person reads in the rules; then that a fetch keeps to the guard  *)
(* and ends, and that the requests that wait are apart.                    *)
(***************************************************************************)
EXTENDS ScopedFetch, FiniteSetTheorems, SequenceTheorems, TLAPS

-----------------------------------------------------------------------------
(***************************************************************************)
(* The scope guard and its reference.                                      *)
(***************************************************************************)

\* The front of a sequence, and a sequence without its last element.
LEMMA FrontOf ==
    ASSUME NEW S, NEW s \in Seq(S), NEW n \in 0 .. Len(s)
    PROVE  /\ SubSeq(s, 1, n) \in Seq(S)
           /\ Len(SubSeq(s, 1, n)) = n
           /\ \A i \in 1 .. n : SubSeq(s, 1, n)[i] = s[i]
<1>1. \A i \in 1 .. n : s[i] \in S
  BY ElementOfSeq, LenProperties
<1>2. /\ SubSeq(s, 1, n) \in Seq(S)
      /\ Len(SubSeq(s, 1, n)) = IF 1 <= n THEN n - 1 + 1 ELSE 0
      /\ \A i \in 1 .. n - 1 + 1 : SubSeq(s, 1, n)[i] = s[1 + i - 1]
  BY <1>1, LenProperties, SubSeqProperties
<1> QED
  BY <1>2, LenProperties

LEMMA PrefixIsFront ==
    ASSUME NEW S, NEW s \in Seq(S), NEW t \in Seq(S)
    PROVE  IsPrefix(s, t) <=> Len(s) <= Len(t) /\ s = SubSeq(t, 1, Len(s))
  BY SubSeqFull DEF IsPrefix

\* A sequence that ends in x is its front with x appended.
LEMMA FrontAndLast ==
    ASSUME NEW S, NEW s \in Seq(S), s # <<>>
    PROVE  /\ Front(s) \in Seq(S) /\ Len(Front(s)) = Len(s) - 1
           /\ Last(s) \in S
           /\ s = Front(s) \o <<Last(s)>>
<1>1. Len(s) \in Nat \ {0}
  OBVIOUS
<1>2. Front(s) \in Seq(S) /\ Len(Front(s)) = Len(s) - 1
      /\ \A i \in 1 .. Len(s) - 1 : Front(s)[i] = s[i]
  <2>1. Len(s) - 1 \in 0 .. Len(s)
    BY <1>1
  <2> QED
    BY <2>1, FrontOf DEF Front
<1>3. Last(s) \in S
  BY <1>1, ElementOfSeq DEF Last
<1>4. <<Last(s)>> \in Seq(S) /\ Len(<<Last(s)>>) = 1 /\ <<Last(s)>>[1] = Last(s)
  BY <1>3
<1> HIDE DEF Front
<1>5. s = Front(s) \o <<Last(s)>>
  <2>1. /\ Front(s) \o <<Last(s)>> \in Seq(S)
        /\ Len(Front(s) \o <<Last(s)>>) = Len(s)
        /\ \A i \in 1 .. Len(s) : (Front(s) \o <<Last(s)>>)[i] =
              IF i <= Len(s) - 1 THEN Front(s)[i] ELSE <<Last(s)>>[i - (Len(s) - 1)]
    BY <1>1, <1>2, <1>3, <1>4, ConcatProperties
  <2>2. \A i \in 1 .. Len(s) : s[i] = (Front(s) \o <<Last(s)>>)[i]
    BY <1>1, <1>2, <1>4, <2>1 DEF Last
  <2> QED
    BY <2>1, <2>2, SeqEqual
<1> QED
  BY <1>2, <1>3, <1>5

LEMMA Appended ==
    ASSUME NEW S, NEW s \in Seq(S), NEW x \in S
    PROVE  /\ s \o <<x>> \in Seq(S)
           /\ Len(s \o <<x>>) = Len(s) + 1
           /\ (s \o <<x>>)[Len(s) + 1] = x
           /\ \A i \in 1 .. Len(s) : (s \o <<x>>)[i] = s[i]
           /\ SubSeq(s \o <<x>>, 1, Len(s)) = s
<1>1. <<x>> \in Seq(S) /\ Len(<<x>>) = 1 /\ <<x>>[1] = x
  OBVIOUS
<1>2. Len(s) \in Nat
  BY LenProperties
<1>3. /\ s \o <<x>> \in Seq(S)
      /\ Len(s \o <<x>>) = Len(s) + 1
      /\ \A i \in 1 .. Len(s) + 1 : (s \o <<x>>)[i] =
            IF i <= Len(s) THEN s[i] ELSE <<x>>[i - Len(s)]
  BY <1>1, ConcatProperties
<1>4. (s \o <<x>>)[Len(s) + 1] = x
  BY <1>1, <1>2, <1>3
<1>5. \A i \in 1 .. Len(s) : (s \o <<x>>)[i] = s[i]
  BY <1>2, <1>3
<1>6. SubSeq(s \o <<x>>, 1, Len(s)) = s
  <2> DEFINE t == s \o <<x>>
  <2> HIDE DEF t
  <2>1. t \in Seq(S) /\ Len(t) = Len(s) + 1 /\ \A i \in 1 .. Len(s) : t[i] = s[i]
    BY <1>3, <1>5 DEF t
  <2>2. /\ SubSeq(t, 1, Len(s)) \in Seq(S)
        /\ Len(SubSeq(t, 1, Len(s))) = Len(s)
        /\ \A i \in 1 .. Len(s) : SubSeq(t, 1, Len(s))[i] = t[i]
    BY <1>2, <2>1, FrontOf
  <2>3. SubSeq(t, 1, Len(s)) = s
    BY <2>1, <2>2, SeqEqual
  <2> QED
    BY <2>3 DEF t
<1> QED
  BY <1>3, <1>4, <1>5, <1>6

\* Two sequences that end alike are alike before.
LEMMA SameFront ==
    ASSUME NEW S, NEW s \in Seq(S), NEW t \in Seq(S), NEW x \in S, s \o <<x>> = t \o <<x>>
    PROVE  s = t
<1>1. Len(s \o <<x>>) = Len(s) + 1 /\ Len(t \o <<x>>) = Len(t) + 1
  BY Appended
<1>2. Len(s) = Len(t)
  BY <1>1, LenProperties
<1>3. SubSeq(s \o <<x>>, 1, Len(s)) = s /\ SubSeq(t \o <<x>>, 1, Len(t)) = t
  BY Appended
<1> QED
  BY <1>2, <1>3

\* patternMatchesHost means by a name what a person reads.
LEMMA HostsAgree ==
    ASSUME NEW p, NEW u, IsPattern(p), IsUrl(u)
    PROVE  HostMatches(p, u.host) <=>
              \E k \in 0 .. Len(u.host) :
                 (k > 0) = p.wild /\ SubSeq(u.host, 1, Len(u.host) - k) = p.host
<1> DEFINE h == u.host
           g == p.host
<1>1. h \in Seq(Labels) /\ g \in Seq(Labels) /\ p.wild \in BOOLEAN
  BY DEF IsPattern, IsUrl
<1>2. HostMatches(p, u.host) <=> IF p.wild THEN IsPrefix(g, h) /\ g # h ELSE h = g
  BY DEF HostMatches, IsStrictPrefix
<1> HIDE DEF g, h
<1>3. Len(h) \in Nat /\ Len(g) \in Nat
  BY <1>1, LenProperties
<1>4. SubSeq(h, 1, Len(h)) = h
  BY <1>1, SubSeqFull
<1>5. CASE p.wild
  <2>1. ASSUME IsPrefix(g, h), g # h
        PROVE  \E k \in 0 .. Len(h) : k > 0 /\ SubSeq(h, 1, Len(h) - k) = g
    <3>1. Len(g) <= Len(h) /\ g = SubSeq(h, 1, Len(g))
      BY <1>1, <2>1, PrefixIsFront
    <3>2. Len(g) # Len(h)
      BY <1>4, <2>1, <3>1
    <3> WITNESS Len(h) - Len(g) \in 0 .. Len(h)
    <3> QED
      BY <1>3, <3>1, <3>2
  <2>2. ASSUME NEW k \in 0 .. Len(h), k > 0, SubSeq(h, 1, Len(h) - k) = g
        PROVE  IsPrefix(g, h) /\ g # h
    <3>1. Len(h) - k \in 0 .. Len(h)
      BY <1>3
    <3>2. Len(g) = Len(h) - k
      BY <1>1, <2>2, <3>1, FrontOf
    <3>3. g = SubSeq(h, 1, Len(g)) /\ Len(g) <= Len(h) /\ Len(g) # Len(h)
      BY <1>3, <2>2, <3>2
    <3>4. IsPrefix(g, h)
      BY <1>1, <3>3, PrefixIsFront
    <3> QED
      BY <3>3, <3>4
  <2> QED
    BY <1>2, <1>5, <2>1, <2>2 DEF g, h
<1>6. CASE ~p.wild
  <2>1. h = g => \E k \in 0 .. Len(h) : ~(k > 0) /\ SubSeq(h, 1, Len(h) - k) = g
    <3>1. 0 \in 0 .. Len(h) /\ Len(h) - 0 = Len(h) /\ ~(0 > 0)
      BY <1>3
    <3> QED
      BY <1>4, <3>1
  <2>2. ASSUME NEW k \in 0 .. Len(h), ~(k > 0), SubSeq(h, 1, Len(h) - k) = g PROVE h = g
    <3>1. k = 0 /\ Len(h) - k = Len(h)
      BY <1>3, <2>2
    <3> QED
      BY <1>4, <2>2, <3>1
  <2> QED
    BY <1>1, <1>2, <1>6, <2>1, <2>2 DEF g, h
<1> QED
  BY <1>1, <1>5, <1>6

\* What a person reads in the path of a pattern.
ReadsPath(path, prefix) ==
    \E n \in 0 .. Len(path) :
        SubSeq(path, 1, n) \o (IF n < Len(path) THEN <<Blank>> ELSE <<>>) \in {prefix, prefix \o <<Blank>>}

\* A path of one empty segment is that of the root: the guard drops it.
Kept(prefix) == IF prefix = <<Blank>> THEN <<>> ELSE prefix

\* pathMatchesPrefix finds what a person reads in the path of a pattern.
LEMMA GuardIsRead ==
    ASSUME Blank \in Segments,
           NEW path \in Seq(Segments) \ {<<>>}, NEW prefix \in Seq(Segments),
           PathMatches(path, Kept(prefix))
    PROVE  ReadsPath(path, prefix)
<1> DEFINE n == Len(prefix)
           Tail1(i) == IF i < Len(path) THEN <<Blank>> ELSE <<>>
<1>0. /\ Len(path) \in Nat \ {0} /\ n \in Nat
      /\ Blank \in Segments /\ <<Blank>> \in Seq(Segments)
  OBVIOUS
<1>1. SubSeq(path, 1, Len(path)) \o <<>> = path
  BY SubSeqFull, ConcatEmptySeq
<1>2. CASE Kept(prefix) = <<>>
  <2>1. prefix \in {<<>>, <<Blank>>}
    BY <1>2 DEF Kept
  <2>2. SubSeq(path, 1, 0) = <<>>
    BY SubSeqEmpty
  <2>3. <<>> \o <<Blank>> = <<Blank>>
    BY <1>0, ConcatEmptySeq
  <2>4. SubSeq(path, 1, 0) \o <<Blank>> \in {prefix, prefix \o <<Blank>>}
    BY <2>1, <2>2, <2>3
  <2>5. 0 \in 0 .. Len(path) /\ 0 < Len(path)
    BY <1>0
  <2> QED
    BY <2>4, <2>5 DEF ReadsPath
<1>3. CASE Kept(prefix) # <<>> /\ path = prefix
  <2>1. Len(path) \in 0 .. Len(path) /\ ~(Len(path) < Len(path))
    BY <1>0
  <2>2. SubSeq(path, 1, Len(path)) \o <<>> \in {prefix, prefix \o <<Blank>>}
    BY <1>1, <1>3
  <2> QED
    BY <2>1, <2>2 DEF ReadsPath
<1>4. CASE /\ Kept(prefix) # <<>> /\ path # prefix
           /\ Last(prefix) = Blank /\ IsStrictPrefix(Front(prefix), path)
  <2>1. prefix # <<>> /\ Kept(prefix) = prefix
    BY <1>4 DEF Kept
  <2>2. /\ Front(prefix) \in Seq(Segments) /\ Len(Front(prefix)) = n - 1
        /\ prefix = Front(prefix) \o <<Blank>>
    BY <1>4, <2>1, FrontAndLast
  <2>3. /\ Front(prefix) = SubSeq(path, 1, n - 1) /\ n - 1 <= Len(path)
        /\ Front(prefix) # path
    BY <1>4, <2>2, PrefixIsFront DEF IsStrictPrefix
  <2>4. n - 1 \in 0 .. Len(path) /\ n - 1 < Len(path)
    <3>1. n - 1 # Len(path)
      BY <2>3, SubSeqFull
    <3>2. n # 0
      BY <2>1
    <3> QED
      BY <1>0, <2>3, <3>1, <3>2
  <2>5. SubSeq(path, 1, n - 1) \o <<Blank>> = prefix
    BY <2>2, <2>3
  <2> HIDE DEF n
  <2> QED
    BY <2>4, <2>5 DEF ReadsPath
<1>5. CASE /\ Kept(prefix) # <<>> /\ path # prefix
           /\ IsStrictPrefix(prefix, path)
  <2>1. prefix = SubSeq(path, 1, n) /\ n <= Len(path)
    BY <1>5, PrefixIsFront DEF IsStrictPrefix
  <2>2. n # Len(path)
    BY <1>5, <2>1, SubSeqFull
  <2>3. n \in 0 .. Len(path) /\ n < Len(path)
    BY <1>0, <2>1, <2>2
  <2>4. SubSeq(path, 1, n) \o <<Blank>> = prefix \o <<Blank>>
    BY <2>1
  <2> HIDE DEF n
  <2> QED
    BY <2>3, <2>4 DEF ReadsPath
<1>6. Kept(prefix) # <<>> => Kept(prefix) = prefix
  BY DEF Kept
<1> QED
  BY <1>2, <1>3, <1>4, <1>5, <1>6 DEF PathMatches

LEMMA ShorterFront ==
    ASSUME NEW s \in Seq(Segments), NEW t \in Seq(Segments),
           Len(s) < Len(t), s = SubSeq(t, 1, Len(s))
    PROVE  IsStrictPrefix(s, t)
<1>1. Len(s) <= Len(t) /\ s # t
  BY LenProperties
<1>2. IsPrefix(s, t)
  BY <1>1, PrefixIsFront
<1> QED
  BY <1>1, <1>2 DEF IsStrictPrefix

\* A pattern that is a part of the path, from its beginning, matches it.
LEMMA FrontMatches ==
    ASSUME NEW path \in Seq(Segments) \ {<<>>}, NEW prefix \in Seq(Segments) \ {<<>>},
           NEW n \in 0 .. Len(path), n < Len(path), prefix = SubSeq(path, 1, n)
    PROVE  PathMatches(path, prefix)
<1> DEFINE m == n - 1
<1>1. Len(prefix) = n /\ n # 0 /\ n \in Nat /\ Len(path) \in Nat
  BY FrontOf
<1>2. IsStrictPrefix(prefix, path)
  <2>1. Len(prefix) < Len(path) /\ prefix = SubSeq(path, 1, Len(prefix))
    BY <1>1
  <2>2. prefix \in Seq(Segments) /\ path \in Seq(Segments)
    OBVIOUS
  <2> QED
    BY <2>1, <2>2, ShorterFront
<1>3. m \in 0 .. n /\ m \in 0 .. Len(path) /\ m < Len(path)
  BY <1>1
<1> HIDE DEF m
<1>4. /\ SubSeq(prefix, 1, m) \in Seq(Segments) /\ Len(SubSeq(prefix, 1, m)) = m
      /\ \A i \in 1 .. m : SubSeq(prefix, 1, m)[i] = prefix[i]
  BY <1>1, <1>3, FrontOf
<1>5. /\ SubSeq(path, 1, m) \in Seq(Segments) /\ Len(SubSeq(path, 1, m)) = m
      /\ \A i \in 1 .. m : SubSeq(path, 1, m)[i] = path[i]
  BY <1>3, FrontOf
<1>6. \A i \in 1 .. m : prefix[i] = path[i]
  <2>1. \A i \in 1 .. n : SubSeq(path, 1, n)[i] = path[i]
    BY FrontOf
  <2> QED
    BY <1>1, <1>3, <2>1
<1>7. SubSeq(prefix, 1, m) = SubSeq(path, 1, m)
  <2>1. ASSUME NEW s \in Seq(Segments), NEW t \in Seq(Segments), Len(s) = Len(t),
               \A i \in 1 .. Len(s) : s[i] = t[i]
        PROVE  s = t
    BY <2>1, SeqEqual
  <2>2. \A i \in 1 .. m : SubSeq(prefix, 1, m)[i] = SubSeq(path, 1, m)[i]
    BY <1>4, <1>5, <1>6
  <2> QED
    BY <1>4, <1>5, <2>1, <2>2
<1>8. IsStrictPrefix(SubSeq(prefix, 1, m), path)
  <2>1. ASSUME NEW s \in Seq(Segments), Len(s) = m, s = SubSeq(path, 1, m)
        PROVE  IsStrictPrefix(s, path)
    BY <1>3, <2>1, ShorterFront
  <2> QED
    BY <1>4, <1>7, <2>1
<1>9. Front(prefix) = SubSeq(prefix, 1, m)
  BY <1>1 DEF Front, m
<1> QED
  BY <1>2, <1>8, <1>9 DEF PathMatches

\* And pathMatchesPrefix finds what a person reads there.
LEMMA ReadIsGuard ==
    ASSUME Blank \in Segments,
           NEW path \in Seq(Segments) \ {<<>>}, NEW prefix \in Seq(Segments),
           ReadsPath(path, prefix)
    PROVE  PathMatches(path, Kept(prefix))
<1>0. /\ Len(path) \in Nat \ {0} /\ Len(prefix) \in Nat
      /\ <<Blank>> \in Seq(Segments)
  OBVIOUS
<1>1. CASE Kept(prefix) = <<>>
  BY <1>1 DEF PathMatches
<1>2. CASE Kept(prefix) # <<>>
  <2>1. Kept(prefix) = prefix /\ prefix # <<>>
    BY <1>2 DEF Kept
  <2>2. PICK n \in 0 .. Len(path) :
            SubSeq(path, 1, n) \o (IF n < Len(path) THEN <<Blank>> ELSE <<>>)
               \in {prefix, prefix \o <<Blank>>}
    BY DEF ReadsPath
  <2> DEFINE front == SubSeq(path, 1, n)
  <2>3. front \in Seq(Segments) /\ Len(front) = n
    BY FrontOf
  <2>4. CASE n < Len(path) /\ front \o <<Blank>> = prefix
    <3>1. Len(prefix) = n + 1 /\ SubSeq(prefix, 1, n) = front /\ prefix[n + 1] = Blank
      BY <2>3, <2>4, Appended
    <3>2. Front(prefix) = front /\ Last(prefix) = Blank
      <4>1. n \in Nat /\ n + 1 - 1 = n
        BY <1>0
      <4> QED
        BY <3>1, <4>1 DEF Front, Last
    <3>3. IsStrictPrefix(front, path)
      <4>1. ASSUME NEW s \in Seq(Segments), Len(s) = n, s = SubSeq(path, 1, n)
            PROVE  IsStrictPrefix(s, path)
        BY <2>4, <4>1, ShorterFront
      <4> QED
        BY <2>3, <4>1
    <3> QED
      BY <2>1, <3>2, <3>3 DEF PathMatches
  <2>5. CASE n < Len(path) /\ front \o <<Blank>> = prefix \o <<Blank>>
    <3>1. prefix = front
      BY <2>3, <2>5, SameFront
    <3> QED
      BY <2>1, <2>5, <3>1, FrontMatches
  <2>6. CASE ~(n < Len(path))
    <3>1. n = Len(path)
      BY <1>0, <2>6
    <3>2. front \o <<>> = path
      BY <3>1, SubSeqFull, ConcatEmptySeq
    <3>3. path \in {prefix, prefix \o <<Blank>>}
      BY <2>2, <2>6, <3>2
    <3>4. CASE path = prefix
      BY <2>1, <3>4 DEF PathMatches
    <3>5. CASE path = prefix \o <<Blank>>
      <4>1. Len(path) = Len(prefix) + 1 /\ SubSeq(path, 1, Len(prefix)) = prefix
        BY <3>5, Appended
      <4>2. Len(prefix) \in 0 .. Len(path) /\ Len(prefix) < Len(path)
        BY <1>0, <4>1
      <4> QED
        BY <2>1, <4>1, <4>2, FrontMatches
    <3> QED
      BY <3>3, <3>4, <3>5
  <2> QED
    BY <2>2, <2>4, <2>5, <2>6
<1> QED
  BY <1>1, <1>2

\* What a legible pattern says is what the guard does with it; one that is not
\* legible is still about its host and what lies below it.
LEMMA PatternsAgree ==
    ASSUME Blank \in Segments, NEW p, NEW u, IsPattern(p), IsUrl(u)
    PROVE  /\ Legible(p) => (Matches(p, u) <=> Reads(p, u))
           /\ Matches(p, u) => IsPrefix(p.host, u.host)
<1> DEFINE q == Parsed(p)
<1>1. q.host = p.host /\ q.wild = p.wild
  BY DEF Parsed
<1>2. HostMatches(q, u.host) <=> HostMatches(p, u.host)
  BY <1>1 DEF HostMatches
<1>3. Matches(p, u) => IsPrefix(p.host, u.host)
  <2>1. IsPrefix(p.host, p.host)
    BY PrefixIsFront, SubSeqFull DEF IsPattern
  <2> QED
    BY <1>2, <2>1 DEF Matches, HostMatches, IsStrictPrefix
<1>4. ASSUME Legible(p) PROVE Matches(p, u) <=> Reads(p, u)
  <2>1. /\ p.scheme = None => p.port = None /\ p.path = <<>>
        /\ p.scheme \in {None, "http", "https"}
        /\ \A i \in DOMAIN p.path : Lower(p.path[i]) = p.path[i]
    BY <1>4 DEF Legible
  <2>2. [i \in DOMAIN p.path |-> Lower(p.path[i])] = p.path
    BY <2>1 DEF IsPattern
  <2>3. /\ q.whole = TRUE /\ q.scheme = p.scheme /\ q.port = p.port
        /\ q.path = Kept(p.path)
    <3>1. CASE p.scheme = None
      <4>1. Kept(<<>>) = <<>>
        BY DEF Kept
      <4> QED
        BY <2>1, <3>1, <4>1 DEF Parsed
    <3>2. CASE p.scheme # None
      BY <2>1, <2>2, <3>2 DEF Parsed, Kept
    <3> QED
      BY <3>1, <3>2
  <2> HIDE DEF q
  <2>4. Matches(p, u) <=> /\ HostMatches(p, u.host)
                          /\ p.scheme \in {None, u.scheme} /\ p.port \in {None, u.port}
                          /\ PathMatches(u.path, Kept(p.path))
    BY <1>2, <2>3 DEF Matches, q
  <2>5. PathMatches(u.path, Kept(p.path)) <=> ReadsPath(u.path, p.path)
    BY GuardIsRead, ReadIsGuard DEF IsPattern, IsUrl
  <2>6. Names(p, u) <=> /\ HostMatches(p, u.host)
                        /\ p.scheme \in {None, u.scheme} /\ p.port \in {None, u.port}
    BY HostsAgree DEF Names
  <2> QED
    BY <2>4, <2>5, <2>6 DEF Reads, ReadsPath
<1> QED
  BY <1>3, <1>4

\* By what a person reads: no legible rule against it, and a rule for it.
ReadsInScope(scope, u) ==
    /\ u.scheme \in {"http", "https"}
    /\ \A p \in scope.out : Legible(p) => ~Reads(p, u)
    /\ \E p \in scope.in : IF Legible(p) THEN Reads(p, u) ELSE IsPrefix(p.host, u.host)

\* ScopeGuard.test lets pass only what a person reads to be in scope.
THEOREM GuardMeansWhatItReads ==
    ASSUME Bounds, NEW scope \in Rules, NEW u \in URLs, Allowed(scope, u)
    PROVE  ReadsInScope(scope, u)
<1>1. Blank \in Segments /\ IsUrl(u) /\ \A p \in scope.in \cup scope.out : IsPattern(p)
  BY DEF Bounds
<1>2. \A p \in scope.in \cup scope.out :
          /\ Legible(p) => (Matches(p, u) <=> Reads(p, u))
          /\ Matches(p, u) => IsPrefix(p.host, u.host)
  BY <1>1, PatternsAgree
<1> QED
  BY <1>2 DEF Allowed, ReadsInScope
-----------------------------------------------------------------------------
(***************************************************************************)
(* The invariant.  Typed gives what TypeOK leaves open: the fields of a    *)
(* fetch.  Onward: a fetch that waits passed the guard, waits for the slot *)
(* its limiter holds, and remembers the chain it came along.  Held and     *)
(* Apart: the limiter is later than what its process asked, so that what   *)
(* it asks next is apart from all of it.                                   *)
(***************************************************************************)
Visited  == [url : URLs, waits : BOOLEAN, follows : BOOLEAN, fatal : BOOLEAN]
Waiting  == [phase : {"waiting"}, visit : Visited, url : URLs, hop : Nat,
             seen : SUBSET URLs, trail : Seq(URLs), delay : Nat]
Stopped  == [phase : {"refused"}, visit : Visited]
Requests == [by : Procs, url : URLs, at : 0 .. MaxTime, paced : BOOLEAN]

Typed ==
    /\ rules \in Rules /\ now \in 0 .. MaxTime
    /\ limiter \in [Procs -> [Hosts -> 0 .. MaxTime + Interval]]
    /\ visits \in [Procs -> Seq(Visited)]
    /\ fetch \in [Procs -> {NoFetch, Idle} \cup Stopped \cup Waiting]
    /\ asked \in Seq(Requests)

\* Only a URL that redirects to itself comes twice in a chain.
Forward(chain) ==
    \A i, j \in 1 .. Len(chain) : i < j /\ chain[i] = chain[j] => j = i + 1

Onward(p) ==
    fetch[p].phase = "waiting" =>
        /\ May(fetch[p].url)
        /\ fetch[p].delay = limiter[p][fetch[p].url.host]
        /\ fetch[p].hop = Len(fetch[p].trail) /\ fetch[p].hop =< MaxRedirects
        /\ \A i \in 1 .. Len(fetch[p].trail) : fetch[p].trail[i] \in fetch[p].seen
        /\ Forward(Append(fetch[p].trail, fetch[p].url))

InScope == \A i \in 1 .. Len(asked) : May(asked[i].url)
Past    == \A i \in 1 .. Len(asked) : asked[i].at =< now
Held    == \A i \in 1 .. Len(asked) :
    asked[i].paced => asked[i].at + Interval =< limiter[asked[i].by][asked[i].url.host]
Apart   == \A i, j \in 1 .. Len(asked) :
    i < j /\ asked[i].paced /\ asked[j].paced /\ asked[i].by = asked[j].by
       /\ asked[i].url.host = asked[j].url.host => asked[i].at + Interval =< asked[j].at

Asking == InScope /\ Past /\ Held /\ Apart
IInv   == Typed /\ (\A p \in Procs : Onward(p)) /\ Asking

LEMMA HostTyped == \A u \in URLs : u.host \in Hosts
  BY DEF Hosts

\* Where nothing was asked yet, whatever there is to fetch.
LEMMA StartHolds ==
    ASSUME Bounds, rules \in Rules, now = 0, asked = <<>>,
           limiter = [p \in Procs |-> [h \in Hosts |-> 0]],
           visits \in [Procs -> Seq(Visited)], fetch \in [Procs -> {NoFetch, Idle}]
    PROVE  IInv
<1>1. Typed
  <2>1. [h \in Hosts |-> 0] \in [Hosts -> 0 .. MaxTime + Interval]
    BY DEF Bounds
  <2>2. <<>> \in Seq(Requests)
    OBVIOUS
  <2> QED
    BY <2>1, <2>2 DEF Typed, Bounds
<1>2. \A p \in Procs : Onward(p)
  BY DEF Onward, NoFetch, Idle
<1>3. Len(asked) = 0
  BY EmptySeq
<1>4. Asking
  BY <1>3 DEF Asking, InScope, Past, Held, Apart
<1> QED
  BY <1>1, <1>2, <1>4 DEF IInv

LEMMA Single == ASSUME NEW S, NEW x \in S PROVE <<x>> \in Seq(S)
  OBVIOUS

LEMMA VisitTyped ==
    ASSUME NEW u \in URLs, NEW waits \in BOOLEAN, NEW follows \in BOOLEAN, NEW fatal \in BOOLEAN
    PROVE  Visit(u, waits, follows, fatal) \in Visited
  BY DEF Visit, Visited

\* Every task is a list of visits.
LEMMA TasksTyped == ASSUME NEW u \in URLs PROVE Tasks(u) \subseteq Seq(Visited)
<1>1. \A v \in URLs : Once(v) \in Visited
  BY VisitTyped DEF Once
<1>2. \A v \in URLs : <<Once(v)>> \in Seq(Visited)
  BY <1>1
<1>3. <<>> \in Seq(Visited)
  OBVIOUS
<1>4. Analysis(u) \in Seq(Visited)
  <2>1. Visit(u, TRUE, TRUE, TRUE) \in Visited
    BY VisitTyped
  <2> QED
    BY <2>1, Single, Zenon DEF Analysis
<1>5. Checks(u) \in Seq(Visited)
  BY <1>2 DEF Checks
<1>6. Cors(u) \cup Exposure(u) \cup Graphql(u) \cup Reflected(u) \subseteq Seq(Visited)
  BY <1>2, <1>3 DEF Cors, Exposure, Graphql, Reflected
<1>7. ServerFetch(u) \subseteq Seq(Visited)
  BY <1>2, <1>3 DEF ServerFetch
<1>8. OpenRedirect(u) \subseteq Seq(Visited)
  <2>1. Visit(u, FALSE, FALSE, TRUE) \in Visited
    BY VisitTyped
  <2>2. <<Visit(u, FALSE, FALSE, TRUE)>> \in Seq(Visited)
    BY <2>1, Single, Zenon
  <2> QED
    BY <1>3, <2>2 DEF OpenRedirect
<1>9. AdjacentObjects(u) \subseteq Seq(Visited)
  <2>1. \A v \in URLs : <<Once(u), Once(v)>> \in Seq(Visited)
    BY <1>1
  <2> QED
    BY <1>3, <2>1 DEF AdjacentObjects
<1>10. \A more \in Reflected(u) \cup AdjacentObjects(u) : Analysis(u) \o more \in Seq(Visited)
  BY <1>4, <1>6, <1>9, ConcatProperties
<1>11. Playbooks(u) \subseteq Seq(Visited)
  <2> DEFINE Rest == Cors(u) \cup Exposure(u) \cup Graphql(u) \cup ServerFetch(u) \cup OpenRedirect(u)
                       \cup {Analysis(u) \o more : more \in Reflected(u) \cup AdjacentObjects(u)}
  <2>1. Rest \subseteq Seq(Visited)
    BY <1>6, <1>7, <1>8, <1>10
  <2>2. Playbooks(u) = {Checks(u) \o rest : rest \in Rest}
    BY DEF Playbooks
  <2> HIDE DEF Rest
  <2>3. \A rest \in Rest : Checks(u) \o rest \in Seq(Visited)
    BY <1>5, <2>1, ConcatProperties
  <2> QED
    BY <2>2, <2>3
<1> QED
  BY <1>4, <1>5, <1>11 DEF Tasks

\* What is between the guard and the request.
LEMMA HopHolds ==
    ASSUME Typed', NEW p \in Procs, NEW v, NEW url, NEW hop, NEW seen, NEW trail,
           fetch'[p] = Hop(v, url, hop, seen, trail, limiter'[p]), rules' = rules,
           hop = Len(trail), hop =< MaxRedirects,
           \A i \in 1 .. Len(trail) : trail[i] \in seen,
           Forward(Append(trail, url))
    PROVE  Onward(p)'
<1>1. CASE May(url)
  <2>1. fetch'[p] = [phase |-> "waiting", visit |-> v, url |-> url, hop |-> hop, seen |-> seen,
                     trail |-> trail, delay |-> limiter'[p][url.host]]
    BY <1>1 DEF Hop
  <2>2. /\ fetch'[p].url = url /\ fetch'[p].delay = limiter'[p][url.host]
        /\ fetch'[p].hop = hop /\ fetch'[p].trail = trail /\ fetch'[p].seen = seen
    BY <2>1
  <2>3. Allowed(rules', url)
    BY <1>1 DEF May
  <2> QED
    BY <2>2, <2>3 DEF Onward, May
<1>2. CASE ~May(url)
  <2>1. fetch'[p].phase = "refused"
    BY <1>2 DEF Hop
  <2> QED
    BY <2>1 DEF Onward
<1> QED
  BY <1>1, <1>2

LEMMA HopTyped ==
    ASSUME Typed, Bounds, NEW v \in Visited, NEW url \in URLs, NEW hop \in Nat,
           NEW seen \in SUBSET URLs, NEW trail \in Seq(URLs),
           NEW slots \in [Hosts -> 0 .. MaxTime + Interval]
    PROVE  Hop(v, url, hop, seen, trail, slots) \in Stopped \cup Waiting
<1>1. slots[url.host] \in Nat
  BY HostTyped DEF Bounds
<1> QED
  BY <1>1 DEF Hop, Stopped, Waiting

LEMMA Wait ==
    ASSUME Typed, NEW p \in Procs, fetch[p].phase = "waiting"
    PROVE  /\ fetch[p] \in Waiting
           /\ fetch[p].visit \in Visited /\ fetch[p].url \in URLs /\ fetch[p].hop \in Nat
           /\ fetch[p].seen \in SUBSET URLs /\ fetch[p].trail \in Seq(URLs)
           /\ fetch[p].delay \in Nat
           /\ fetch[p].visit.waits \in BOOLEAN
<1>1. fetch[p] \in {NoFetch, Idle} \cup Stopped \cup Waiting
  BY DEF Typed
<1>2. fetch[p] \notin {NoFetch, Idle} /\ fetch[p] \notin Stopped
  BY DEF NoFetch, Idle, Stopped
<1> QED
  BY <1>1, <1>2 DEF Waiting, Visited

\* A request is asked of the scope, in its time; a paced one is apart from all
\* its process asked before.
LEMMA AskHolds ==
    ASSUME Bounds, IInv, NEW p \in Procs, Asks(p), rules' = rules, now' = now
    PROVE  /\ asked' \in Seq(Requests) /\ Asking'
           /\ limiter' \in [Procs -> [Hosts -> 0 .. MaxTime + Interval]]
           /\ \A q \in Procs : q # p => limiter'[q] = limiter[q]
<1> DEFINE f == fetch[p]
           r == [by |-> p, url |-> f.url, at |-> now, paced |-> f.visit.waits]
           h == f.url.host
           n == Len(asked)
<1>0. Interval \in Nat /\ MaxTime \in Nat /\ now \in 0 .. MaxTime
  BY DEF Bounds, IInv, Typed
<1>1. f.phase = "waiting" /\ (f.visit.waits => now >= f.delay)
  BY DEF Asks
<1>2. f.url \in URLs /\ f.visit.waits \in BOOLEAN /\ f.delay \in Nat
  BY <1>1, Wait DEF IInv
<1>3. May(f.url) /\ f.delay = limiter[p][h]
  BY <1>1 DEF IInv, Onward
<1>4. h \in Hosts /\ r \in Requests
  BY <1>0, <1>2, HostTyped DEF Requests
<1>5. asked' = Append(asked, r) /\ asked \in Seq(Requests)
  BY DEF Asks, IInv, Typed
<1>6. /\ limiter \in [Procs -> [Hosts -> 0 .. MaxTime + Interval]]
      /\ limiter' = IF f.visit.waits THEN [limiter EXCEPT ![p][h] = now + Interval] ELSE limiter
  BY DEF Asks, Slot, IInv, Typed
<1>7. limiter' \in [Procs -> [Hosts -> 0 .. MaxTime + Interval]]
  BY <1>0, <1>4, <1>6
<1>8. /\ \A q \in Procs : q # p => limiter'[q] = limiter[q]
      /\ \A q \in Procs, g \in Hosts :
            limiter'[q][g] = IF q = p /\ g = h /\ f.visit.waits THEN now + Interval
                             ELSE limiter[q][g]
  BY <1>4, <1>6
<1> HIDE DEF f, h
<1>9. /\ asked' \in Seq(Requests) /\ Len(asked') = n + 1 /\ n \in Nat
      /\ asked'[n + 1] = r
      /\ \A i \in 1 .. n : asked'[i] = asked[i] /\ asked[i] \in Requests
  BY <1>4, <1>5, ElementOfSeq, LenProperties
<1>10. /\ r.by = p /\ r.url = f.url /\ r.at = now /\ r.paced = f.visit.waits
       /\ r.url.host = h
  BY DEF h
<1> HIDE DEF r, n
<1>11. \A i \in 1 .. n : /\ asked[i].by \in Procs /\ asked[i].at \in Nat
                         /\ asked[i].url.host \in Hosts
  BY <1>0, <1>9, HostTyped DEF Requests
<1>12. \A i \in 1 .. Len(asked') : i \in 1 .. n \/ i = n + 1
  BY <1>9
<1>13. InScope'
  <2>1. \A i \in 1 .. n : Allowed(rules, asked[i].url)
    BY DEF IInv, Asking, InScope, May, n
  <2>2. Allowed(rules, r.url)
    BY <1>3, <1>10 DEF May, f
  <2> QED
    BY <1>9, <1>12, <2>1, <2>2 DEF InScope, May
<1>14. Past'
  <2>1. \A i \in 1 .. n : asked[i].at =< now
    BY DEF IInv, Asking, Past, n
  <2> QED
    BY <1>0, <1>9, <1>10, <1>12, <2>1 DEF Past
<1>15. \A i \in 1 .. n : /\ asked[i].at =< now
                         /\ asked[i].paced =>
                               asked[i].at + Interval =< limiter[asked[i].by][asked[i].url.host]
  BY DEF IInv, Asking, Past, Held, n
<1>16. Held'
  <2>1. ASSUME NEW i \in 1 .. n, asked[i].paced
        PROVE  asked[i].at + Interval =< limiter'[asked[i].by][asked[i].url.host]
    <3>1. /\ asked[i].by \in Procs /\ asked[i].at \in Nat
          /\ asked[i].url.host \in Hosts
      BY <1>11
    <3>2. asked[i].at + Interval =< now + Interval
      BY <1>0, <1>15, <3>1
    <3> QED
      BY <1>8, <1>15, <2>1, <3>1, <3>2
  <2>2. r.paced => r.at + Interval =< limiter'[r.by][r.url.host]
    BY <1>0, <1>4, <1>8, <1>10
  <2> QED
    BY <1>9, <1>12, <2>1, <2>2 DEF Held
<1>17. Apart'
  <2>1. ASSUME NEW i \in 1 .. n, asked[i].paced, r.paced, asked[i].by = r.by,
               asked[i].url.host = r.url.host
        PROVE  asked[i].at + Interval =< r.at
    <3>1. asked[i].at + Interval =< f.delay /\ f.delay =< now
      BY <1>0, <1>1, <1>2, <1>3, <1>10, <1>15, <2>1 DEF f
    <3> QED
      BY <1>0, <1>2, <1>10, <1>11, <3>1 DEF f
  <2>2. ASSUME NEW i \in 1 .. n, NEW j \in 1 .. n, i < j, asked[i].paced, asked[j].paced,
               asked[i].by = asked[j].by, asked[i].url.host = asked[j].url.host
        PROVE  asked[i].at + Interval =< asked[j].at
    BY <2>2 DEF IInv, Asking, Apart, n
  <2>3. ASSUME NEW i \in 1 .. Len(asked'), NEW j \in 1 .. Len(asked'), i < j
        PROVE  i \in 1 .. n /\ (j \in 1 .. n \/ j = n + 1)
    BY <1>9, <2>3
  <2> QED
    BY <1>9, <2>1, <2>2, <2>3 DEF Apart
<1> QED
  BY <1>7, <1>8, <1>9, <1>13, <1>14, <1>16, <1>17 DEF Asking

\* A fetch that did not move waits for the slot it waited for.
LEMMA OthersWait ==
    ASSUME IInv, NEW p \in Procs, fetch'[p] = fetch[p], limiter'[p] = limiter[p], rules' = rules
    PROVE  Onward(p)'
  BY DEF IInv, Onward, May

LEMMA NotWaiting ==
    ASSUME NEW p, fetch'[p].phase # "waiting"
    PROVE  Onward(p)'
  BY DEF Onward

\* The steps that ask for nothing.
LEMMA QuietHolds ==
    ASSUME IInv, rules' = rules, now' \in 0 .. MaxTime, now =< now', Bounds,
           limiter' = limiter, asked' = asked
    PROVE  Asking'
<1>1. Typed /\ Asking
  BY DEF IInv
<1>2. now \in Nat /\ now' \in Nat /\ \A i \in 1 .. Len(asked) : asked[i].at \in Nat
  <2>1. \A i \in 1 .. Len(asked) : asked[i] \in Requests
    BY <1>1, ElementOfSeq DEF Typed
  <2> QED
    BY <1>1, <2>1 DEF Requests, Bounds, Typed
<1>3. Past'
  BY <1>1, <1>2 DEF Asking, Past
<1>4. InScope' /\ Held' /\ Apart'
  BY <1>1 DEF Asking, InScope, Held, Apart, May
<1> QED
  BY <1>3, <1>4 DEF Asking

LEMMA InitHolds == ASSUME Bounds, Init PROVE IInv
<1>1. \A p \in Procs : visits[p] = <<>> /\ fetch[p] = Idle
  BY DEF Init
<1>2. visits \in [Procs -> Seq(Visited)] /\ fetch \in [Procs -> {NoFetch, Idle}]
  BY DEF Init
<1> QED
  BY <1>2, StartHolds DEF Init

LEMMA StepHolds == ASSUME Bounds, IInv, Next \/ UNCHANGED vars PROVE IInv'
<1> USE DEF IInv
<1>0. /\ \A p \in Procs : visits[p] \in Seq(Visited)
      /\ MaxTime \in Nat /\ Interval \in Nat /\ MaxRedirects \in Nat /\ now \in 0 .. MaxTime
  BY DEF Typed, Bounds
<1>1. CASE Tick
  <2>1. now' \in 0 .. MaxTime /\ now =< now' /\ UNCHANGED <<rules, limiter, visits, fetch, asked>>
    BY <1>0, <1>1 DEF Tick
  <2>2. Asking'
    BY <2>1, QuietHolds
  <2>3. Typed'
    BY <2>1 DEF Typed
  <2>4. \A p \in Procs : Onward(p)'
    BY <2>1, OthersWait
  <2> QED
    BY <2>2, <2>3, <2>4
<1>2. ASSUME NEW p \in Procs, Start(p) PROVE IInv'
  <2>1. /\ UNCHANGED <<rules, now, limiter, asked>>
        /\ fetch' = [fetch EXCEPT ![p] = NoFetch]
    BY <1>2 DEF Start
  <2>2. PICK u \in URLs : \E task \in Tasks(u) : visits' = [visits EXCEPT ![p] = task]
    BY <1>2 DEF Start
  <2>3. visits' \in [Procs -> Seq(Visited)]
    BY <2>2, TasksTyped DEF Typed
  <2>4. Typed'
    BY <2>1, <2>3 DEF Typed
  <2>5. Asking'
    BY <1>0, <2>1, QuietHolds
  <2>6. \A q \in Procs : Onward(q)'
    <3>1. fetch'[p].phase # "waiting"
      BY <2>1 DEF Typed, NoFetch
    <3>2. \A q \in Procs : q # p => fetch'[q] = fetch[q]
      BY <2>1 DEF Typed
    <3> QED
      BY <2>1, <3>1, <3>2, OthersWait, NotWaiting
  <2> QED
    BY <2>4, <2>5, <2>6
<1>3. ASSUME NEW p \in Procs, Begin(p) PROVE IInv'
  <2> DEFINE v == Head(visits[p])
             start == <<>>
             goes == Hop(v, v.url, 0, {}, start, limiter[p])
  <2>1. /\ UNCHANGED <<rules, now, limiter, asked>> /\ visits[p] # <<>>
        /\ fetch' = [fetch EXCEPT ![p] = goes]
        /\ visits' = [visits EXCEPT ![p] = Tail(visits[p])]
    BY <1>3 DEF Begin, Typed
  <2>2. v \in Visited /\ Tail(visits[p]) \in Seq(Visited)
    BY <1>0, <2>1, HeadTailProperties
  <2>3. v.url \in URLs /\ start \in Seq(URLs) /\ Len(start) = 0
    BY <2>2, EmptySeq DEF Visited
  <2>4. limiter[p] \in [Hosts -> 0 .. MaxTime + Interval]
    BY DEF Typed
  <2> HIDE DEF v, start
  <2>5. goes \in Stopped \cup Waiting
    <3>1. Typed /\ 0 \in Nat /\ {} \in SUBSET URLs
      OBVIOUS
    <3> QED
      BY <2>2, <2>3, <2>4, <3>1, HopTyped, Zenon DEF goes
  <2> HIDE DEF goes
  <2>6. Typed'
    <3>1. fetch' \in [Procs -> {NoFetch, Idle} \cup Stopped \cup Waiting]
      BY <2>1, <2>5 DEF Typed
    <3>2. visits' \in [Procs -> Seq(Visited)]
      BY <2>1, <2>2 DEF Typed
    <3> QED
      BY <2>1, <3>1, <3>2 DEF Typed
  <2>7. Asking'
    BY <1>0, <2>1, QuietHolds
  <2>8. Onward(p)'
    <3>1. fetch'[p] = Hop(v, v.url, 0, {}, start, limiter'[p])
      BY <2>1 DEF goes, Typed
    <3>2. Forward(Append(start, v.url)) /\ \A i \in 1 .. Len(start) : start[i] \in {}
      <4>1. Len(Append(start, v.url)) = 1
        BY <2>3
      <4> QED
        BY <2>3, <4>1 DEF Forward
    <3>3. 0 = Len(start) /\ 0 =< MaxRedirects /\ rules' = rules
      BY <1>0, <2>1, <2>3
    <3> QED
      BY <2>6, <3>1, <3>2, <3>3, HopHolds, Zenon
  <2>9. \A q \in Procs : q # p => Onward(q)'
    <3>1. \A q \in Procs : q # p => fetch'[q] = fetch[q]
      BY <2>1 DEF Typed
    <3> QED
      BY <2>1, <3>1, OthersWait
  <2> QED
    BY <2>6, <2>7, <2>8, <2>9
<1>4. ASSUME NEW p \in Procs, Text(p) PROVE IInv'
  <2>1. /\ Asks(p) /\ fetch' = [fetch EXCEPT ![p] = NoFetch] /\ rules' = rules /\ now' = now
    BY <1>4 DEF Text
  <2>2. visits' \in [Procs -> Seq(Visited)]
    <3>1. CASE visits' = visits
      BY <3>1 DEF Typed
    <3>2. ASSUME NEW n \in 1 .. MaxScripts, NEW scripts \in [1 .. n -> {u \in URLs : May(u)}],
                 visits' = [visits EXCEPT ![p] =
                    [i \in 1 .. n |-> Visit(scripts[i], TRUE, TRUE, FALSE)] \o visits[p]]
          PROVE  visits' \in [Procs -> Seq(Visited)]
      <4> DEFINE script(u) == Visit(u, TRUE, TRUE, FALSE)
                 named == [i \in 1 .. n |-> script(scripts[i])]
      <4>1. \A u \in URLs : script(u) \in Visited
        BY VisitTyped
      <4> HIDE DEF script
      <4>2. n \in Nat /\ named \in [1 .. n -> Visited]
        BY <4>1
      <4> HIDE DEF named
      <4>3. named \in Seq(Visited)
        BY <4>2
      <4>4. named \o visits[p] \in Seq(Visited)
        BY <1>0, <4>3, ConcatProperties
      <4>5. visits' = [visits EXCEPT ![p] = named \o visits[p]]
        BY <3>2 DEF named, script
      <4> QED
        BY <4>4, <4>5 DEF Typed
    <3> QED
      BY <1>4, <3>1, <3>2 DEF Text
  <2>3. fetch' \in [Procs -> {NoFetch, Idle} \cup Stopped \cup Waiting]
    BY <2>1 DEF Typed
  <2>4. /\ asked' \in Seq(Requests) /\ Asking'
        /\ limiter' \in [Procs -> [Hosts -> 0 .. MaxTime + Interval]]
        /\ \A q \in Procs : q # p => limiter'[q] = limiter[q]
    BY <2>1, AskHolds
  <2>5. Typed'
    BY <2>1, <2>2, <2>3, <2>4 DEF Typed
  <2>6. \A q \in Procs : Onward(q)'
    <3>1. fetch'[p].phase # "waiting"
      BY <2>1 DEF Typed, NoFetch
    <3>2. \A q \in Procs : q # p => fetch'[q] = fetch[q]
      BY <2>1 DEF Typed
    <3> QED
      BY <2>1, <2>4, <3>1, <3>2, OthersWait, NotWaiting
  <2> QED
    BY <2>4, <2>5, <2>6
<1>5. ASSUME NEW p \in Procs, Redirect(p) PROVE IInv'
  <2> DEFINE f == fetch[p]
  <2>1. Asks(p) /\ rules' = rules /\ now' = now /\ visits' = visits
    BY <1>5 DEF Redirect
  <2>2. PICK target \in URLs :
            fetch' = [fetch EXCEPT ![p] =
                  IF ~f.visit.follows THEN NoFetch
                  ELSE IF Refuses(f, target) THEN [phase |-> "refused", visit |-> f.visit]
                  ELSE Hop(f.visit, target, f.hop + 1, f.seen \cup {f.url},
                           Append(f.trail, f.url), limiter'[p])]
    BY <1>5 DEF Redirect
  <2>3. f.phase = "waiting"
    BY <2>1 DEF Asks
  <2>4. /\ f.visit \in Visited /\ f.url \in URLs /\ f.hop \in Nat
        /\ f.seen \in SUBSET URLs /\ f.trail \in Seq(URLs)
    BY <2>3, Wait
  <2>5. /\ asked' \in Seq(Requests) /\ Asking'
        /\ limiter' \in [Procs -> [Hosts -> 0 .. MaxTime + Interval]]
        /\ \A q \in Procs : q # p => limiter'[q] = limiter[q]
    BY <2>1, AskHolds
  <2>6. /\ f.hop = Len(f.trail) /\ f.hop =< MaxRedirects
        /\ \A i \in 1 .. Len(f.trail) : f.trail[i] \in f.seen
        /\ Forward(Append(f.trail, f.url))
    BY <2>3 DEF Onward
  <2> HIDE DEF f
  <2> DEFINE trail == Append(f.trail, f.url)
             stops == [phase |-> "refused", visit |-> f.visit]
             goes  == Hop(f.visit, target, f.hop + 1, f.seen \cup {f.url}, trail, limiter'[p])
  <2>7. /\ trail \in Seq(URLs) /\ Len(trail) = f.hop + 1 /\ f.hop + 1 \in Nat
        /\ \A i \in 1 .. Len(f.trail) : trail[i] = f.trail[i]
        /\ trail[f.hop + 1] = f.url
    BY <2>4, <2>6
  <2>8. \A i \in 1 .. Len(trail) : trail[i] \in f.seen \cup {f.url}
    BY <2>4, <2>6, <2>7
  <2>9. stops \in Stopped
    BY <2>4 DEF Stopped
  <2>10. Typed /\ f.seen \cup {f.url} \in SUBSET URLs /\ limiter'[p] \in [Hosts -> 0 .. MaxTime + Interval]
    BY <2>4, <2>5
  <2> HIDE DEF trail
  <2>11. goes \in Stopped \cup Waiting
    BY <2>4, <2>7, <2>10, HopTyped
  <2>12. fetch'[p] \in {NoFetch, stops, goes}
    BY <2>2 DEF Typed, trail
  <2>13. \A q \in Procs : q # p => fetch'[q] = fetch[q]
    BY <2>2 DEF Typed
  <2>14. fetch' \in [Procs -> {NoFetch, Idle} \cup Stopped \cup Waiting]
    <3> HIDE DEF stops, goes
    <3>1. fetch' = [fetch EXCEPT ![p] = fetch'[p]]
      BY <2>2 DEF Typed
    <3> QED
      BY <2>9, <2>11, <2>12, <3>1 DEF Typed
  <2>15. Typed'
    BY <2>1, <2>5, <2>14 DEF Typed
  <2>16. Onward(p)'
    <3>1. CASE fetch'[p] \in {NoFetch, stops}
      BY <3>1, NotWaiting DEF NoFetch
    <3>2. CASE fetch'[p] = goes /\ ~Refuses(f, target)
      <4>1. target \notin f.seen /\ f.hop # MaxRedirects
        BY <3>2 DEF Refuses
      <4>2. f.hop + 1 =< MaxRedirects
        BY <1>0, <2>4, <2>6, <4>1
      <4>3. Forward(Append(trail, target))
        <5> DEFINE chain == Append(trail, target)
        <5>1. /\ Len(chain) = f.hop + 2 /\ chain[f.hop + 2] = target
              /\ \A i \in 1 .. f.hop + 1 : chain[i] = trail[i]
          BY <2>4, <2>7
        <5> HIDE DEF chain
        <5>2. ASSUME NEW i \in 1 .. f.hop + 2, NEW j \in 1 .. f.hop + 2, i < j, chain[i] = chain[j]
              PROVE  j = i + 1
          <6>1. CASE j \in 1 .. f.hop + 1
            <7>1. i \in 1 .. f.hop + 1
              BY <2>4, <5>2, <6>1
            <7>2. trail[i] = trail[j] /\ Len(trail) = f.hop + 1
              BY <2>7, <5>1, <5>2, <6>1, <7>1
            <7> QED
              BY <2>6, <5>2, <6>1, <7>1, <7>2 DEF Forward, trail
          <6>2. CASE j = f.hop + 2
            <7>1. i \in 1 .. f.hop + 1 /\ trail[i] = target
              BY <2>4, <5>1, <5>2, <6>2
            <7>2. i \notin 1 .. Len(f.trail)
              BY <2>6, <2>7, <4>1, <7>1
            <7> QED
              BY <2>4, <2>6, <6>2, <7>1, <7>2
          <6> QED
            BY <2>4, <6>1, <6>2
        <5>3. Forward(chain)
          BY <5>1, <5>2 DEF Forward
        <5> QED
          BY <5>3 DEF chain
      <4> QED
        BY <2>1, <2>7, <2>8, <2>15, <3>2, <4>2, <4>3, HopHolds
    <3> QED
      BY <2>2, <3>1, <3>2 DEF Typed, trail
  <2>17. \A q \in Procs : q # p => Onward(q)'
    BY <2>1, <2>5, <2>13, OthersWait
  <2> QED
    BY <2>5, <2>15, <2>16, <2>17
<1>6. ASSUME NEW p \in Procs, Breaks(p) PROVE IInv'
  <2>1. /\ Asks(p) /\ rules' = rules /\ now' = now /\ visits' = visits
        /\ fetch' = [fetch EXCEPT ![p] = [phase |-> "refused", visit |-> fetch[p].visit]]
    BY <1>6 DEF Breaks
  <2>2. fetch[p].visit \in Visited
    BY <2>1, Wait DEF Asks
  <2>3. fetch' \in [Procs -> {NoFetch, Idle} \cup Stopped \cup Waiting]
    BY <2>1, <2>2 DEF Typed, Stopped
  <2>4. /\ asked' \in Seq(Requests) /\ Asking'
        /\ limiter' \in [Procs -> [Hosts -> 0 .. MaxTime + Interval]]
        /\ \A q \in Procs : q # p => limiter'[q] = limiter[q]
    BY <2>1, AskHolds
  <2>5. Typed'
    BY <2>1, <2>3, <2>4 DEF Typed
  <2>6. \A q \in Procs : Onward(q)'
    <3>1. fetch'[p].phase # "waiting"
      BY <2>1 DEF Typed
    <3>2. \A q \in Procs : q # p => fetch'[q] = fetch[q]
      BY <2>1 DEF Typed
    <3> QED
      BY <2>1, <2>4, <3>1, <3>2, OthersWait, NotWaiting
  <2> QED
    BY <2>4, <2>5, <2>6
<1>7. ASSUME NEW p \in Procs, Refused(p) PROVE IInv'
  <2>1. /\ UNCHANGED <<rules, now, limiter, asked>>
        /\ fetch' = [fetch EXCEPT ![p] = NoFetch]
        /\ visits' \in {visits, [visits EXCEPT ![p] = <<>>]}
    BY <1>7 DEF Refused
  <2>2. Typed'
    <3>1. <<>> \in Seq(Visited)
      OBVIOUS
    <3>2. visits' \in [Procs -> Seq(Visited)]
      BY <2>1, <3>1 DEF Typed
    <3> QED
      BY <2>1, <3>2 DEF Typed
  <2>3. Asking'
    BY <1>0, <2>1, QuietHolds
  <2>4. \A q \in Procs : Onward(q)'
    <3>1. fetch'[p].phase # "waiting"
      BY <2>1 DEF Typed, NoFetch
    <3>2. \A q \in Procs : q # p => fetch'[q] = fetch[q]
      BY <2>1 DEF Typed
    <3> QED
      BY <2>1, <3>1, <3>2, OthersWait, NotWaiting
  <2> QED
    BY <2>2, <2>3, <2>4
<1>8. CASE UNCHANGED vars
  <2>1. UNCHANGED <<rules, now, limiter, visits, fetch, asked>>
    BY <1>8 DEF vars
  <2>2. Asking'
    BY <1>0, <2>1, QuietHolds
  <2>3. \A p \in Procs : Onward(p)'
    BY <2>1, OthersWait
  <2> QED
    BY <2>1, <2>2, <2>3 DEF Typed
<1> QED
  BY <1>1, <1>2, <1>3, <1>4, <1>5, <1>6, <1>7, <1>8 DEF Next
-----------------------------------------------------------------------------
(***************************************************************************)
(* What the invariant says of the requests.                                *)
(***************************************************************************)

LEMMA Typing == ASSUME Bounds, IInv PROVE TypeOK
<1>1. Typed /\ Past
  BY DEF IInv, Asking
<1>2. \A p \in Procs : fetch[p].phase \in {"idle", "none", "waiting", "refused"}
  <2>1. \A p \in Procs : fetch[p] \in {NoFetch, Idle} \cup Stopped \cup Waiting
    BY <1>1 DEF Typed
  <2> QED
    BY <2>1 DEF NoFetch, Idle, Stopped, Waiting
<1>3. \A p \in Procs : \A h \in Hosts : limiter[p][h] \in 0 .. MaxTime + Interval
  BY <1>1 DEF Typed
<1>4. \A p \in Procs : \A i \in DOMAIN visits[p] : visits[p][i].url \in URLs
  <2>1. \A p \in Procs : visits[p] \in Seq(Visited)
    BY <1>1 DEF Typed
  <2>2. \A p \in Procs : \A i \in DOMAIN visits[p] : visits[p][i] \in Visited
    BY <2>1, ElementOfSeq, LenProperties
  <2> QED
    BY <2>2 DEF Visited
<1>5. \A i \in DOMAIN asked : asked[i].by \in Procs /\ asked[i].url \in URLs /\ asked[i].at =< now
  <2>1. asked \in Seq(Requests) /\ DOMAIN asked = 1 .. Len(asked)
    BY <1>1, LenProperties DEF Typed
  <2>2. \A i \in 1 .. Len(asked) : asked[i] \in Requests
    BY <2>1, ElementOfSeq
  <2> QED
    BY <1>1, <2>1, <2>2 DEF Requests, Past
<1> QED
  BY <1>1, <1>2, <1>3, <1>4, <1>5 DEF TypeOK, Typed

LEMMA Staying == ASSUME Bounds, IInv PROVE FetchesStay
<1>1. Typed /\ InScope
  BY DEF IInv, Asking
<1>2. StaysInScope
  <2>1. asked \in Seq(Requests) /\ DOMAIN asked = 1 .. Len(asked)
    BY <1>1, LenProperties DEF Typed
  <2>2. \A i \in 1 .. Len(asked) : asked[i].url \in URLs
    <3>1. \A i \in 1 .. Len(asked) : asked[i] \in Requests
      BY <2>1, ElementOfSeq
    <3> QED
      BY <3>1 DEF Requests
  <2>3. \A i \in 1 .. Len(asked) : ReadsInScope(rules, asked[i].url)
    BY <1>1, <2>2, GuardMeansWhatItReads DEF InScope, May, Typed
  <2> QED
    BY <2>1, <2>3 DEF StaysInScope, ReadsInScope
<1>3. ChainsEnd
  <2>1. ASSUME NEW p \in Procs, fetch[p].phase = "waiting"
        PROVE  LET chain == Append(fetch[p].trail, fetch[p].url)
               IN  /\ Len(chain) =< MaxRedirects + 1
                   /\ \A i, j \in DOMAIN chain : i < j /\ chain[i] = chain[j] => j = i + 1
    <3> DEFINE trail == fetch[p].trail
               url   == fetch[p].url
    <3>1. trail \in Seq(URLs) /\ url \in URLs
      BY <1>1, <2>1, Wait
    <3>2. Len(trail) =< MaxRedirects /\ Forward(Append(trail, url))
      BY <2>1 DEF IInv, Onward
    <3> HIDE DEF trail, url
    <3>3. /\ Append(trail, url) \in Seq(URLs)
          /\ Len(Append(trail, url)) = Len(trail) + 1 /\ Len(trail) \in Nat
          /\ DOMAIN Append(trail, url) = 1 .. Len(Append(trail, url))
      BY <3>1
    <3>4. Len(Append(trail, url)) =< MaxRedirects + 1
      BY <3>2, <3>3 DEF Bounds
    <3> QED
      BY <3>2, <3>3, <3>4 DEF Forward, trail, url
  <2> QED
    BY <2>1 DEF ChainsEnd
<1> QED
  BY <1>2, <1>3 DEF FetchesStay

\* In one interval no process asks the same host twice after a wait.
LEMMA Pacing == ASSUME Bounds, IInv PROVE Paced
<1>1. /\ Typed /\ Apart /\ asked \in Seq(Requests)
      /\ DOMAIN asked = 1 .. Len(asked) /\ Len(asked) \in Nat
  BY LenProperties DEF IInv, Asking, Typed
<1>2. /\ IsFiniteSet(Procs) /\ Interval \in Nat
      /\ \A i \in 1 .. Len(asked) : asked[i].by \in Procs /\ asked[i].at \in Nat
  <2>1. \A i \in 1 .. Len(asked) : asked[i] \in Requests
    BY <1>1, ElementOfSeq
  <2> QED
    BY <2>1 DEF Requests, Bounds
<1>3. ASSUME NEW i \in 1 .. Len(asked)
      PROVE  Cardinality({j \in DOMAIN asked :
                 /\ asked[j].paced /\ asked[j].url.host = asked[i].url.host
                 /\ asked[j].at \in asked[i].at .. asked[i].at + Interval - 1})
                =< Cardinality(Procs)
  <2> DEFINE S == {j \in DOMAIN asked :
                 /\ asked[j].paced /\ asked[j].url.host = asked[i].url.host
                 /\ asked[j].at \in asked[i].at .. asked[i].at + Interval - 1}
             by == [j \in S |-> asked[j].by]
  <2>1. ASSUME NEW j \in S, NEW k \in S, j < k, asked[j].by = asked[k].by
        PROVE  FALSE
    <3>1. /\ j \in 1 .. Len(asked) /\ k \in 1 .. Len(asked)
          /\ asked[j].paced /\ asked[k].paced
          /\ asked[j].url.host = asked[k].url.host
          /\ asked[j].at >= asked[i].at /\ asked[k].at =< asked[i].at + Interval - 1
      BY <1>1
    <3>2. asked[j].at + Interval =< asked[k].at
      BY <1>1, <2>1, <3>1 DEF Apart
    <3>3. asked[j].at \in Nat /\ asked[k].at \in Nat /\ asked[i].at \in Nat /\ Interval \in Nat
      BY <1>2, <3>1
    <3>4. \A a, b, c, d \in Nat : ~(a >= c /\ b =< c + d - 1 /\ a + d =< b)
      OBVIOUS
    <3> QED
      BY <3>1, <3>2, <3>3, <3>4, Zenon
  <2>2. S \subseteq 1 .. Len(asked)
    BY <1>1
  <2> HIDE DEF S
  <2>3. by \in [S -> Procs]
    BY <1>2, <2>2
  <2>4. \A j, k \in S : by[j] = by[k] => j = k
    <3>1. ASSUME NEW j \in S, NEW k \in S, by[j] = by[k] PROVE j = k
      <4>1. asked[j].by = asked[k].by
        BY <3>1
      <4>2. ~(j < k) /\ ~(k < j)
        BY <2>1, <4>1
      <4>3. j \in Nat /\ k \in Nat
        BY <2>2
      <4> QED
        BY <4>2, <4>3
    <3> QED
      BY <3>1
  <2> HIDE DEF by
  <2>5. by \in Injection(S, Procs)
    BY <2>3, <2>4 DEF Injection, IsInjective
  <2>6. Cardinality(S) =< Cardinality(Procs)
    BY <1>2, <2>5, FS_Injection
  <2> QED
    BY <2>6 DEF S
<1> QED
  BY <1>1, <1>3 DEF Paced

-----------------------------------------------------------------------------
(***************************************************************************)
(* The results.                                                            *)
(***************************************************************************)

\* Whatever redirects come and whatever scripts a page names, nothing is asked
\* outside what a person reads in the rules, and a chain of redirects ends
\* without coming back (fetchScopedText, ScopeGuard.test).
THEOREM RequestsStayInScope == ASSUME Bounds PROVE Spec => [](TypeOK /\ FetchesStay)
<1>1. Init => IInv
  BY InitHolds
<1>2. IInv /\ [Next]_vars => IInv'
  BY StepHolds
<1>3. IInv => TypeOK /\ FetchesStay
  BY Typing, Staying
<1> QED
  BY <1>1, <1>2, <1>3, PTL DEF Spec

\* A host gets in one interval no more requests that wait than there are
\* processes, whatever each of them does between (RateLimiter.wait).
THEOREM RequestsArePaced == ASSUME Bounds PROVE Spec => []Paced
<1>1. Init => IInv
  BY InitHolds
<1>2. IInv /\ [Next]_vars => IInv'
  BY StepHolds
<1>3. IInv => Paced
  BY Pacing
<1> QED
  BY <1>1, <1>2, <1>3, PTL DEF Spec
=============================================================================
