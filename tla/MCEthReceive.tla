---------------------------- MODULE MCEthReceive ----------------------------
(* Small buffers and budgets, so that every one of them fills up.           *)
EXTENDS EthReceive

MixedKinds == {"ip", "arp", "foreign", "other"}
NotForUs == {"foreign"}
OneEvent == {"LINKIF"}
=============================================================================
