------------------------------- MODULE Evidence -------------------------------
(***************************************************************************)
(* What the per-cloud verifiers have in common.  A row is the set of the   *)
(* flags that read True.  A flag set inside a try block is there when      *)
(* every check before it went through; a flag that is a comparison never   *)
(* stops the block.  Keys of tokens and of issuing authorities are looked  *)
(* up where the token or the certificate says.                             *)
(***************************************************************************)
EXTENDS AmdReports

CONSTANTS
  KeysAt,             \* URL -> key identifier -> key published there
  IssuerAt            \* caIssuers URL -> key of the certificate served there

\* checks: <<flag, outcome>> in the order of the try block.
Passed(checks) ==
  {checks[i][1] : i \in {j \in DOMAIN checks : \A k \in 1 .. j : checks[k][2]}}

\* The flag of a comparison.
Flag(condition, flag) == IF condition THEN {flag} ELSE {}

\* The answer of a service, when it can be reached.
Reached(net, service, answer) == IF service \in net THEN answer ELSE {}

Nonce(d) == Digest(d.sentence)

\* Links checked one by one, the last certificate against itself.
SelfContained(certs) ==
  \A i \in DOMAIN certs :
    certs[i].issuer = certs[IF i < Len(certs) THEN i + 1 ELSE i].key

\* The key a token's kid names among those published at the URL.
PublishedKey(url, kid) ==
  IF url \in DOMAIN KeysAt /\ kid \in DOMAIN KeysAt[url] THEN {KeysAt[url][kid]} ELSE {}

\* RS256 over header and payload under the key looked up.
TokenSigOk(tok, url, net) ==
  \E key \in Reached(net, "keys", PublishedKey(url, tok.kid)) : tok.signer = key
=============================================================================
