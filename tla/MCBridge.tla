------------------------------ MODULE MCBridge ------------------------------
(* iptables making GET_INFO-like (two copies) and SET_REPLACE-like (one    *)
(* copy) calls: five fail points on the path where every copy succeeds.  *)
EXTENDS Bridge

MCHPids == 1..6
MCPPids == 1..6
MCSyscalls == <<"get", "set", "get">>
MCCopies(k) == IF k = "get" THEN <<"from", "to">> ELSE <<"from">>
=============================================================================
