--------------------------- MODULE ObjectReadsMC ---------------------------
(***************************************************************************)
(* ObjectReads on a small instance.  No definition tells one schema from    *)
(* another, so the schemas may be permuted.                                 *)
(***************************************************************************)
EXTENDS ObjectReads, TLC

Symmetry == Permutations(Name)

\* Requests, reloads and connections are explored together up to five: three requests on
\* one connection, two with one reload more, two with one connection more.
Paired == nextRequest + reloads + generation <= 5

=============================================================================
