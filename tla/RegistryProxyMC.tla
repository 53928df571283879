--------------------------- MODULE RegistryProxyMC ---------------------------
(***************************************************************************)
(* RegistryProxy with three setups: the time that matters to a tag, to a   *)
(* signed redirect and to a token differ too much for one clock.           *)
(***************************************************************************)
EXTENDS RegistryProxy, TLC

\* One repository inside another and named like an operation, room for one
\* transport, and the paths the proxy answers itself.
Tokens ==
    [repos |-> {<<"go">>, <<"go", "tags">>},
     targets |-> {<<"referrers", "sha256:m">>, <<"tags", "list">>},
     locals |-> {V2, Catalog, <<"healthz">>}, methods |-> {"GET", "PUT"},
     room |-> 1, tick |-> 3600, framed |-> TRUE, time |-> 0, moves |-> 0]

\* A tag that moves twice, over more than its fresh and stale windows.
Lists ==
    [repos |-> {<<"go", "debian">>}, targets |-> {<<"manifests", "latest">>},
     locals |-> {}, methods |-> {"GET"},
     room |-> 1, tick |-> 900, framed |-> TRUE, time |-> 7, moves |-> 2]

\* A blob, by the minute, over two expiries of its signature.
Blobs ==
    [repos |-> {<<"go", "debian">>}, targets |-> {<<"blobs", "sha256:b">>},
     locals |-> {}, methods |-> {"GET"},
     room |-> 1, tick |-> 60, framed |-> FALSE, time |-> 12, moves |-> 0]

MCSetups == {Tokens, Lists, Blobs}

\* The proxy's requests are alike.
ConnSymmetry == Permutations(Conns)
=============================================================================
