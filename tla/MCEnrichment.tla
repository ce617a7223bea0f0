---------------------------- MODULE MCEnrichment ----------------------------
(* An instance of Enrichment for TLC: two versions of one product, the second *)
(* with two cpes.                                                             *)
EXTENDS Enrichment, TLC

CONSTANTS b1, b2, b3, c1, c2, k0, k1, k2, k3

MCVersion == (b1 :> "v1") @@ (b2 :> "v2") @@ (b3 :> "v2") @@ (Unnamed :> "none")

MCQueryKey == (b1 :> k1) @@ (b2 :> k2) @@ (b3 :> k3) @@ (Unnamed :> k0)

\* The newer version still has one of the CVEs of the older one; under its other
\* cpe the provider has the other one.
MCKnown == (b1 :> {c1, c2}) @@ (b2 :> {c2}) @@ (b3 :> {c1}) @@ (Unnamed :> {})
=============================================================================
