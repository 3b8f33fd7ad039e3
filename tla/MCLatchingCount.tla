--------------------------- MODULE MCLatchingCount ---------------------------
(* A small instance of LatchingCount: the count latches at three references. *)
EXTENDS LatchingCount

CONSTANTS t1, t2, t3, r1, r2, r3, r4, h1

ThreeThreads == {t1, t2, t3}
FourRefs == {r1, r2, r3, r4}
OneHelperRef == {h1}
=============================================================================
