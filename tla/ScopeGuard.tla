----------------------------- MODULE ScopeGuard -----------------------------
(***************************************************************************)
(* ScopeGuard.test: whether a URL is in the scope of a program.  A host is *)
(* the sequence of its labels from the top, a path that of its segments,   *)
(* with an empty last one where it ends in a slash; the port of a URL is   *)
(* the one it means, given or not.                                         *)
(***************************************************************************)
EXTENDS Naturals, Sequences, SequencesExt

CONSTANTS Labels, Segments, \* what hosts and paths consist of
          None,    \* what a pattern leaves out
          Lower(_) \* the small letters of a segment of a path

\* What a path ends in that ends in a slash: an empty segment.
Blank == ""

\* What a URL and a pattern are made of; the path of a URL is never empty.
IsUrl(u)     == u.host \in Seq(Labels) /\ u.path \in Seq(Segments) \ {<<>>}
IsPattern(p) == p.host \in Seq(Labels) /\ p.path \in Seq(Segments) /\ p.wild \in BOOLEAN

\* Mutant: a suffix is enough, be it the host itself.
HostMatchesApex(p, host) == IF p.wild THEN IsPrefix(p.host, host) ELSE host = p.host

\* patternMatchesHost: a wildcard stands for at least one label.
HostMatches(p, host) == IF p.wild THEN IsStrictPrefix(p.host, host) ELSE host = p.host

\* pathMatchesPrefix: whole segments, every path where there is no prefix; one
\* that ends in a slash does not match the path without it.
PathMatches(path, prefix) ==
    \/ path = prefix
    \/ IF prefix = <<>> THEN TRUE
       ELSE IF Last(prefix) = Blank THEN IsStrictPrefix(Front(prefix), path) ELSE IsStrictPrefix(prefix, path)

\* parseScopePattern, which puts all in small letters: without a scheme the path
\* is dropped, and a port stays part of the name of the host.
Parsed(p) ==
    IF p.scheme # None
    THEN [wild |-> p.wild, host |-> p.host, whole |-> TRUE, port |-> p.port,
          scheme |-> IF p.scheme \in {"http", "https"} THEN p.scheme ELSE None,
          path |-> IF p.path = <<Blank>> THEN <<>> ELSE [i \in DOMAIN p.path |-> Lower(p.path[i])]]
    ELSE [wild |-> p.wild, host |-> p.host, whole |-> p.port = None, port |-> None,
          scheme |-> None, path |-> <<>>]

Matches(pattern, u) ==
    LET p == Parsed(pattern)
    IN  /\ p.whole /\ HostMatches(p, u.host)
        /\ p.scheme \in {None, u.scheme}
        /\ p.port \in {None, u.port}
        /\ PathMatches(u.path, p.path)

\* test: what is out of scope is so whatever else matches.
Allowed(rules, u) ==
    /\ u.scheme \in {"http", "https"}
    /\ \A p \in rules.out : ~Matches(p, u)
    /\ \E p \in rules.in : Matches(p, u)

---------------------------------------------------------------------------
(* The reference: what a person reads in a pattern.                        *)

\* It says what it seems to say: no small print for a scheme, path or port.
Legible(p) == /\ p.scheme \in {None, "http", "https"}
              /\ p.scheme = None => p.port = None /\ p.path = <<>>
              /\ \A i \in DOMAIN p.path : Lower(p.path[i]) = p.path[i]

Names(p, u) ==
    /\ \E k \in 0 .. Len(u.host) : (k > 0) = p.wild /\ SubSeq(u.host, 1, Len(u.host) - k) = p.host
    /\ p.scheme \in {None, u.scheme} /\ p.port \in {None, u.port}

Reads(p, u) ==
    /\ Names(p, u)
    /\ \E n \in 0 .. Len(u.path) : SubSeq(u.path, 1, n) \o (IF n < Len(u.path) THEN <<Blank>> ELSE <<>>)
                                      \in {p.path, p.path \o <<Blank>>}
=============================================================================
