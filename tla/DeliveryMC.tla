----------------------------- MODULE DeliveryMC -----------------------------
(***************************************************************************)
(* The workflows that run delivery checks: what each of them works on.     *)
(***************************************************************************)
EXTENDS Delivery

\* A signed and an unsigned repository for the two architectures of the images.
\* The mirror publishes new packages and then withdraws them: the third revision
\* lists what the first one did.
MCRepos == <<"hummingbird", "nginx_stable_rpm">>
MCArches == <<"x86_64", "aarch64">>
MCBinaries == <<"a", "b", "a">>

\* Two manifests with libc from Debian, the second with nginx from nginx.org.
\* Debian and nginx.org publish a new version, debian-security a snapshot without
\* one, around the turn of a month.
MCManifests ==
    << [sources |-> {"debian"}, packages |-> {"libc"}],
       [sources |-> {"debian", "nginx.org"}, packages |-> {"libc", "nginx"}] >>

Has(libc, nginx) == [libc |-> libc, nginx |-> nginx]
MCOffers ==
    [a \in {"debian", "debian-security", "nginx.org"} |->
        CASE a = "debian" -> <<Has(1, 0), Has(2, 0)>>
          [] a = "debian-security" -> <<Has(0, 0), Has(0, 0)>>
          [] a = "nginx.org" -> <<Has(0, 1), Has(0, 2)>>]

\* Module files with the database's arguments there, in part or not at all, on a
\* proxy of either kind, next to a call of another tag.
Arg(name) == [name |-> name, value |-> 1]
MCFiles ==
    {[proxies |-> proxies, devProxies |-> <<"db">>,
      calls |-> << [proxy |-> "other", tag |-> "tool", args |-> <<>>],
                   [proxy |-> (proxies \o <<"db">>)[1], tag |-> "database", args |-> args] >>] :
        proxies \in {<<>>, <<"regular">>},
        args \in {<<>>, <<Arg("name"), Arg("url")>>, <<Arg("name"), Arg("url"), Arg("sha256")>>}}
=============================================================================
