--------------------------- MODULE MCScopeCases ----------------------------
(***************************************************************************)
(* Scopes and URLs for TLC: wildcards and names, with and without a        *)
(* scheme, a port and a path, where some read otherwise than they mean.    *)
(***************************************************************************)
EXTENDS ScopeGuard

LowerOf(s) == IF s = "App" THEN "app" ELSE s

U(scheme, host, port, path) == [scheme |-> scheme, host |-> host, port |-> port, path |-> path]
P(scheme, wild, host, port, path) ==
    [scheme |-> scheme, wild |-> wild, host |-> host, port |-> port, path |-> path]

Apex == <<"com", "x">>
Api  == <<"com", "x", "api">>

SomeURLs == {U("https", Api, 443, <<"app">>), U("https", Api, 443, <<"app", "v">>),
             U("http", Api, 8080, <<"App">>), U("https", Apex, 443, <<"">>)}

All == P(None, TRUE, Apex, None, <<>>)
One == P(None, FALSE, Apex, None, <<>>)

Open == [in |-> {All}, out |-> {}]

SomeRules == {Open,
              [in |-> {All, One}, out |-> {P("https", FALSE, Api, None, <<"app">>)}],
              [in |-> {All}, out |-> {P("http", FALSE, Api, 8080, <<>>)}],
              [in |-> {All, One}, out |-> {P(None, FALSE, Api, 8080, <<>>)}],
              [in |-> {P("https", TRUE, Apex, 443, <<"app", "">>)}, out |-> {}],
              [in |-> {P("http", TRUE, Apex, None, <<"App">>), One}, out |-> {}],
              [in |-> {P("ftp", FALSE, Apex, None, <<>>)}, out |-> {}]}
=============================================================================
