----------------------- MODULE MC_UnpackingScheduler -----------------------
(***************************************************************************)
(* An image that includes a and c, and a, of which the extractor may fail, *)
(* includes c as well: c is extracted twice.  Another image, whose         *)
(* unpacking may break, includes c too.                                    *)
(***************************************************************************)
EXTENDS UnpackingScheduler

CONSTANTS fw1, fw2, a, c, w1

TwiceContents ==
    [u \in Uids |-> CASE u = fw1 -> {a, c} [] u = a -> {c} [] u = fw2 -> {c} [] OTHER -> {}]
============================================================================
