---------------------------- MODULE ScopedFetch ----------------------------
(***************************************************************************)
(* Requests to a target: fetchScopedText follows redirects hop by hop, the *)
(* checks of a live playbook ask once and follow none.  Before a request   *)
(* come the scope guard and the rate limiter of the process.               *)
(***************************************************************************)
EXTENDS ScopeGuard, FiniteSets

CONSTANTS
    Procs,
    URLs,
    Rules,        \* the scopes a program may have
    MaxRedirects, \* of one fetch
    Interval,     \* between two requests to a host, by the rules
    MaxTime, MaxScripts, \* bounds
    Lab           \* lab mode: the check of neighbouring objects is on

\* What the constants are: for the proofs, and assumed where they get values.
Bounds ==
    /\ Blank \in Segments /\ (\A s \in Segments : Lower(s) \in Segments)
    /\ \A u \in URLs : IsUrl(u)
    /\ \A r \in Rules : \A p \in r.in \cup r.out : IsPattern(p)
    /\ IsFiniteSet(Procs)
    /\ MaxRedirects \in Nat /\ Interval \in Nat /\ MaxTime \in Nat

VARIABLES
    rules,
    now,
    limiter, \* of a process: when a host may be asked again
    visits,  \* of a process: what it still has to fetch
    fetch,   \* of a process: the fetch it is in
    asked    \* every request, in order

vars == <<rules, now, limiter, visits, fetch, asked>>

Hosts == {u.host : u \in URLs}
May(u) == Allowed(rules, u)

Visit(u, waits, follows, fatal) == [url |-> u, waits |-> waits, follows |-> follows, fatal |-> fatal]
NoFetch == [phase |-> "none"]
Idle    == [phase |-> "idle"]

Init ==
    /\ rules \in Rules /\ now = 0
    /\ limiter = [p \in Procs |-> [h \in Hosts |-> 0]]
    /\ visits = [p \in Procs |-> <<>>]
    /\ fetch = [p \in Procs |-> Idle]
    /\ asked = <<>>

---------------------------------------------------------------------------
(* What the commands ask for; the target was asserted to be in scope.      *)

\* analyzeJavaScript: a page, and the scripts it names.
Analysis(u) == <<Visit(u, TRUE, TRUE, TRUE)>>

Once(u) == Visit(u, TRUE, FALSE, TRUE)

\* runSafeChecks, after the wait of its caller.
Checks(u) == <<Once(u)>>

\* The checks of a playbook, each a set of what it may ask: nothing, where the
\* URL has no parameter of the kind it looks for, or lab mode is needed and off.
Cors(u)      == {<<Once(u)>>}
Exposure(u)  == {<<Once(u)>>}
Reflected(u) == {<<>>, <<Once(u)>>}
Graphql(u)   == IF Lab THEN {<<Once(u)>>} ELSE {<<>>}

\* The address to be fetched by the server has to be in scope as well.
ServerFetch(u) == {<<>>} \cup {<<Once(u)>> : v \in {w \in URLs : Lab /\ May(w)}}

\* An object and its neighbour, whose URL has to be in scope as well.
AdjacentObjects(u) == {<<>>} \cup {<<Once(u), Once(v)>> :
                                     v \in {w \in URLs \ {u} : Lab /\ w.host = u.host /\ May(w)}}

\* This check is given no wait.
OpenRedirect(u) == {<<>>, <<Visit(u, FALSE, FALSE, TRUE)>>}

\* What runHuntPlaybook asks for, by the class of bugs.
Playbooks(u) ==
    {Checks(u) \o rest : rest \in
        Cors(u) \cup Exposure(u) \cup Graphql(u) \cup ServerFetch(u) \cup OpenRedirect(u)
          \cup {Analysis(u) \o more : more \in Reflected(u) \cup AdjacentObjects(u)}}

Tasks(u) == {Analysis(u), Checks(u)} \cup Playbooks(u)

Start(p) ==
    /\ fetch[p].phase = "idle" /\ fetch' = [fetch EXCEPT ![p] = NoFetch]
    /\ \E u \in URLs : May(u) /\ \E task \in Tasks(u) : visits' = [visits EXCEPT ![p] = task]
    /\ UNCHANGED <<rules, now, limiter, asked>>

---------------------------------------------------------------------------
(* One fetch.                                                              *)

\* The guard, then the wait: the limiter is read when it begins.
Hop(v, url, hop, seen, trail, slots) ==
    IF ~May(url) THEN [phase |-> "refused", visit |-> v]
    ELSE [phase |-> "waiting", visit |-> v, url |-> url, hop |-> hop, seen |-> seen,
          trail |-> trail, delay |-> slots[url.host]]

Begin(p) ==
    /\ visits[p] # <<>> /\ fetch[p].phase = "none"
    /\ LET v == Head(visits[p])
       IN  fetch' = [fetch EXCEPT ![p] = Hop(v, v.url, 0, {}, <<>>, limiter[p])]
    /\ visits' = [visits EXCEPT ![p] = Tail(@)]
    /\ UNCHANGED <<rules, now, limiter, asked>>

\* Mutant: the slot is taken from where the last one ended.
SlotEarly(p, h) == limiter[p][h] + Interval

\* RateLimiter.wait: the next slot counts from the end of the wait.
Slot(p, h) == now + Interval

Asks(p) ==
    LET f == fetch[p]
    IN  /\ f.phase = "waiting" /\ (f.visit.waits => now >= f.delay)
        /\ asked' = Append(asked, [by |-> p, url |-> f.url, at |-> now, paced |-> f.visit.waits])
        /\ limiter' = IF f.visit.waits
                      THEN [limiter EXCEPT ![p][f.url.host] = Slot(p, f.url.host)] ELSE limiter

\* The answer is a text; a page may name scripts, and those in scope are fetched.
Text(p) ==
    /\ Asks(p)
    /\ fetch' = [fetch EXCEPT ![p] = NoFetch]
    /\ \/ UNCHANGED visits
       \/ /\ fetch[p].visit.fatal /\ fetch[p].visit.follows
          /\ \E n \in 1 .. MaxScripts : \E scripts \in [1 .. n -> {u \in URLs : May(u)}] :
                /\ IsInjective(scripts)
                /\ visits' = [visits EXCEPT ![p] =
                      [i \in 1 .. n |-> Visit(scripts[i], TRUE, TRUE, FALSE)] \o @]
    /\ UNCHANGED <<rules, now>>

\* Scope, loop and limit, in this order, are errors.
Refuses(f, target) == ~May(target) \/ target \in f.seen \/ f.hop = MaxRedirects

\* A redirect, to anywhere; only a fetch of text follows it.
Redirect(p) ==
    LET f == fetch[p]
    IN  /\ Asks(p)
        /\ \E target \in URLs :
              fetch' = [fetch EXCEPT ![p] =
                  IF ~f.visit.follows THEN NoFetch
                  ELSE IF Refuses(f, target) THEN [phase |-> "refused", visit |-> f.visit]
                  ELSE Hop(f.visit, target, f.hop + 1, f.seen \cup {f.url},
                           Append(f.trail, f.url), limiter'[p])]
        /\ UNCHANGED <<rules, now, visits>>

\* The network fails.
Breaks(p) ==
    /\ Asks(p)
    /\ fetch' = [fetch EXCEPT ![p] = [phase |-> "refused", visit |-> fetch[p].visit]]
    /\ UNCHANGED <<rules, now, visits>>

\* An error ends the command, unless it is that of a script.
Refused(p) ==
    /\ fetch[p].phase = "refused"
    /\ fetch' = [fetch EXCEPT ![p] = NoFetch]
    /\ visits' = IF fetch[p].visit.fatal THEN [visits EXCEPT ![p] = <<>>] ELSE visits
    /\ UNCHANGED <<rules, now, limiter, asked>>

Tick == /\ now < MaxTime /\ now' = now + 1
        /\ UNCHANGED <<rules, limiter, visits, fetch, asked>>

Next == \/ Tick
        \/ \E p \in Procs : \/ Start(p) \/ Begin(p) \/ Text(p) \/ Redirect(p)
                            \/ Breaks(p) \/ Refused(p)

Spec == Init /\ [][Next]_vars

---------------------------------------------------------------------------

\* Fetches, limiters and requests keep their types.
TypeOK ==
    /\ rules \in Rules /\ now \in 0 .. MaxTime
    /\ \A p \in Procs : /\ fetch[p].phase \in {"idle", "none", "waiting", "refused"}
                        /\ \A h \in Hosts : limiter[p][h] \in 0 .. MaxTime + Interval
                        /\ \A i \in DOMAIN visits[p] : visits[p][i].url \in URLs
    /\ \A i \in DOMAIN asked : asked[i].by \in Procs /\ asked[i].url \in URLs /\ asked[i].at =< now

\* Nothing outside the scope is asked, first or after a redirect, by what a
\* person reads in the rules: no rule against it, where the rule is legible, and
\* one for it (ScopeGuard.test and the two checks of fetchScopedText).
StaysInScope ==
    \A i \in DOMAIN asked :
        LET u == asked[i].url
        IN  /\ u.scheme \in {"http", "https"}
            /\ \A p \in rules.out : Legible(p) => ~Reads(p, u)
            /\ \E p \in rules.in : IF Legible(p) THEN Reads(p, u) ELSE IsPrefix(p.host, u.host)

\* A chain of redirects ends after MaxRedirects hops, and comes to a URL a
\* second time only where that URL redirects to itself (seenUrls gets a URL
\* only after its target was looked up).
ChainsEnd ==
    \A p \in Procs : fetch[p].phase = "waiting" =>
        LET chain == Append(fetch[p].trail, fetch[p].url)
        IN  /\ Len(chain) =< MaxRedirects + 1
            /\ \A i, j \in DOMAIN chain : i < j /\ chain[i] = chain[j] => j = i + 1

\* A fetch stays where it may be and comes to an end: both of the above.
FetchesStay == StaysInScope /\ ChainsEnd

\* The requests of a process that wait are apart as the rules ask, so that a
\* host gets in one interval no more of them than there are processes
\* (RateLimiter.wait: the limiter is in the memory of its process).
Paced ==
    \A i \in DOMAIN asked :
        Cardinality({j \in DOMAIN asked : /\ asked[j].paced /\ asked[j].url.host = asked[i].url.host
                                          /\ asked[j].at \in asked[i].at .. asked[i].at + Interval - 1})
            =< Cardinality(Procs)

\* One process asks a host no more often than the rules allow, whatever it asks
\* for (README: target actions flow through the rate limiter).
EveryRequestIsPaced ==
    \A i, j \in DOMAIN asked :
        i < j /\ asked[i].by = asked[j].by /\ asked[i].url.host = asked[j].url.host
            => asked[j].at >= asked[i].at + Interval
=============================================================================
