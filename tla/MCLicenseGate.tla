---------------------------- MODULE MCLicenseGate ----------------------------
(* Small instances of LicenseGate for TLC. *)
EXTENDS LicenseGate

Token(signed, exp) == [signed |-> signed, tenant |-> TRUE, exp |-> exp]

NoTenant == [signed |-> TRUE, tenant |-> FALSE, exp |-> 1]

Cfg(key, env, pem, open, period, interval) ==
    [licenseKey |-> key, licenseKeyEnv |-> env, pemOk |-> pem,
     failOpen |-> open, gracePeriod |-> period, checkInterval |-> interval]

(* A good license with and without a grace period, one given through the   *)
(* environment that a bad direct key hides, bad tokens in both fail modes, *)
(* no key at all, and a key without a usable public key.                   *)
MCConfigs ==
    { Cfg(Token(TRUE, 1), NoToken, TRUE, FALSE, 1, 2),
      Cfg(NoToken, Token(TRUE, 2), TRUE, FALSE, 0, 1),
      Cfg(Token(FALSE, 3), Token(TRUE, 3), TRUE, FALSE, 1, 2),
      Cfg(NoTenant, NoToken, TRUE, TRUE, 1, 2),
      Cfg(Token(TRUE, NoExp), NoToken, TRUE, FALSE, 1, 2),
      Cfg(NoToken, NoToken, FALSE, FALSE, 1, 2),
      Cfg(Token(TRUE, 1), NoToken, FALSE, FALSE, 1, 2) }

MCBatches == {1}
===============================================================================
