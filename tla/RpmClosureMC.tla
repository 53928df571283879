---------------------------- MODULE RpmClosureMC ----------------------------
(***************************************************************************)
(* RpmClosure on two architectures, as the images declare.                 *)
(***************************************************************************)
EXTENDS RpmClosure

TwoArches == <<"x86_64", "aarch64">>

\* Built for both, for the second only, or without an architecture.
SomeOffers == {{"x86_64", "aarch64"}, {"aarch64"}, {"noarch"}}
=============================================================================
