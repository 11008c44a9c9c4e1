----------------------------- MODULE MCHarness -----------------------------
(* Harness for TLC, alone: TestBundleFreshInstall waits for one event. *)
EXTENDS Harness

FreshInstall == <<"ready">>
=============================================================================
