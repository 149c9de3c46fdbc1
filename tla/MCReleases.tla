----------------------------- MODULE MCReleases -----------------------------
(***************************************************************************)
(* A small instance of Releases for TLC: every release, one address that   *)
(* can be registered and one that is refused, and two messages at a time   *)
(* on the network, enough for a reply that comes after the next query.     *)
(***************************************************************************)
EXTENDS Releases

MCReleases ==
  {"2_", "3_", "1.0", "1.1", "1.2", "2.0", "2.1", "2.2", "2.2.1", "2.3", "final", "final2.0"}

=============================================================================
