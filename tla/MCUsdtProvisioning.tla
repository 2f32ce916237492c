-------------------------- MODULE MCUsdtProvisioning --------------------------
(* Configurations for the model checker. *)
EXTENDS UsdtProvisioning

Rents(bandwidth, energy) ==
    [r \in Resources |-> IF r = "bandwidth" THEN bandwidth ELSE energy]

Config(primary, fallback, full, fits, calls) ==
    [primary |-> primary, fallback |-> fallback, full |-> full, fits |-> fits, calls |-> calls]

CONSTANTS c1, c2

\* ProfeeX with re:Fee behind it, with energy orders above the need of one of
\* them; the same with a fixed bandwidth order that is too small; re:Fee alone;
\* no bandwidth to rent; and two calls at once.
MCConfigs ==
    {Config(Rents("profeex", "profeex"), TRUE, {"profeex"}, TRUE, {c1}),
     Config(Rents("profeex", "profeex"), TRUE, {"refee"}, FALSE, {c1}),
     Config(Rents("refee", "refee"), FALSE, {}, TRUE, {c1}),
     Config(Rents("profeex", "none"), TRUE, {}, TRUE, {c1}),
     Config(Rents("none", "profeex"), FALSE, {"profeex"}, TRUE, {c1, c2})}
=============================================================================
