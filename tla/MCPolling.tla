----------------------------- MODULE MCPolling -----------------------------
EXTENDS Polling

(* A socket is watched for input, or for nothing while it is put aside.    *)
MCInterests == {{"Read"}, {}}
=============================================================================
