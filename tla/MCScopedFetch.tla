--------------------------- MODULE MCScopedFetch ---------------------------
(***************************************************************************)
(* Instances of ScopedFetch for TLC.  Either one process runs, under every *)
(* scope, or two ask the same host at the same time.                       *)
(***************************************************************************)
EXTENDS ScopedFetch, MCScopeCases

\* The second process has nothing to do, or both are at their checks.
MCInit ==
    /\ now = 0 /\ asked = <<>>
    /\ limiter = [p \in Procs |-> [h \in Hosts |-> 0]]
    /\ \/ /\ rules \in Rules
          /\ visits = [p \in Procs |-> <<>>]
          /\ fetch = [p \in Procs |-> IF p = CHOOSE q \in Procs : TRUE THEN Idle ELSE NoFetch]
       \/ /\ rules = Open
          /\ fetch = [p \in Procs |-> NoFetch]
          /\ \E u \in URLs : May(u) /\ \E second \in Cors(u) \cup OpenRedirect(u) :
                visits = [p \in Procs |-> Checks(u) \o second]

MCSpec == MCInit /\ [][Next]_vars
=============================================================================
