----------------------------- MODULE MCBranding -----------------------------
(* Small instances of Branding for TLC.                                    *)
EXTENDS Branding
=============================================================================
