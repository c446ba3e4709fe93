---------------------------- MODULE MCZeroSharing ----------------------------
(* Small instances of ZeroSharing: leases of one or two identifiers, so that *)
(* every second or third call renews one.                                    *)
EXTENDS ZeroSharing
=============================================================================
