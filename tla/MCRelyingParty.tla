---------------------------- MODULE MCRelyingParty ----------------------------
(* Values for TLC: windows of three breadcrumbs, a cell on a border, one   *)
(* that is in Belgium or in the Netherlands depending on the map, and      *)
(* results made elsewhere that refer to each other in a loop.              *)
EXTENDS RelyingParty

MCEU == {"NL", "BE"}
MCWhole == [nl |-> "NL", be |-> "BE", us |-> "US", edge |-> "-", spit |-> "BE"]
MCCentroid == [nl |-> "NL", be |-> "BE", us |-> "US", edge |-> "NL", spit |-> "NL"]

Crumb(seq, ts, cell, signer) == [seq |-> seq, ts |-> ts, cell |-> cell, signer |-> signer]
Signed(supplied, crumbs) == [device |-> "dev", supplied |-> supplied, crumbs |-> crumbs]
Walk(c1, c2, c3, t2, t3) ==
  Signed(FALSE, <<Crumb(0, 0, c1, "dev"), Crumb(1, t2, c2, "dev"), Crumb(2, t3, c3, "dev")>>)
MCEvidences ==
  [nl |-> Walk("nl", "nl", "nl", 2, 4), us |-> [Walk("us", "us", "us", 2, 5) EXCEPT !.supplied = TRUE],
   edge |-> Walk("nl", "edge", "nl", 2, 4), spit |-> Walk("spit", "spit", "spit", 2, 4),
   two |-> Walk("nl", "nl", "be", 2, 4), soon |-> Walk("nl", "nl", "nl", 4, 5),
   short |-> Signed(FALSE, <<Crumb(0, 0, "nl", "dev"), Crumb(1, 2, "nl", "dev")>>),
   tampered |-> Signed(FALSE, <<Crumb(0, 0, "be", "dev"), Crumb(1, 2, "be", "nobody"), Crumb(2, 4, "be", "dev")>>)]

Result(country, basis, ref) == [country |-> country, basis |-> basis, ref |-> ref]
MCImports ==
  [snp |-> Result("NL", RESULT, NoRef), azure |-> Result("NL", ENDORSEMENT, NoRef),
   loop1 |-> Result("NL", RESULT, <<"import", "loop2">>), loop2 |-> Result("BE", RESULT, <<"import", "loop1">>),
   on |-> Result("BE", RESULT, <<"import", "via">>), via |-> Result("NL", RESULT, <<"import", "azure">>),
   abroad |-> Result("BE", RESULT, <<"import", "us">>), us |-> Result("US", ENDORSEMENT, NoRef)]
=============================================================================
