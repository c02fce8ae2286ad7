------------------------------- MODULE MCService -------------------------------
(***************************************************************************)
(* The publisher as an instance of Service: each of its three publishers   *)
(* may be left out, and the manual one comes to an end.                    *)
(***************************************************************************)
EXTENDS Service

PublisherParts == <<"backfill", "chainTip", "manual">>
===============================================================================
