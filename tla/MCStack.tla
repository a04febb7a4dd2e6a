------------------------------ MODULE MCStack -------------------------------
(* Small instances of Stack for TLC.                                       *)
EXTENDS Stack

Config(id, secret, demo, sync) ==
    [id |-> id, secret |-> secret, demo |-> demo, sync |-> sync]

\* Standalone, federated, two half configurations, a demo, sync disabled.
MCConfigs ==
    {Config(FALSE, FALSE, FALSE, TRUE), Config(TRUE, TRUE, FALSE, TRUE),
     Config(TRUE, FALSE, FALSE, TRUE), Config(FALSE, TRUE, FALSE, TRUE),
     Config(FALSE, FALSE, TRUE, TRUE), Config(TRUE, TRUE, FALSE, FALSE)}

MCHalfConfigs == {Config(FALSE, FALSE, FALSE, TRUE), Config(TRUE, FALSE, FALSE, TRUE)}
=============================================================================
