------------------------- MODULE MCFanotifyFactory -------------------------
(* FanotifyFactory with a few requests.                                    *)
EXTENDS FanotifyFactory

ASSUME SomeRequests == MaxRequests >= 2
=============================================================================
