---------------------------- MODULE MCQuotaStore ----------------------------
(* Instances of QuotaStore for TLC. *)
EXTENDS QuotaStore

\* A charge of 1: with two calls, what counts twice or not at all shows.
MCOneAmount == {-1}
============================================================================
