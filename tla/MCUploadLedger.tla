---------------------------- MODULE MCUploadLedger ----------------------------
(* The instance of UploadLedger that TLC checks: the fast fingerprint reads   *)
(* the first and the last chunk, so decay between them is invisible to it.    *)
EXTENDS UploadLedger

MCSampled == {1, Chunks}
=============================================================================
