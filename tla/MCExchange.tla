----------------------------- MODULE MCExchange -----------------------------
(* Two CLIs, or a CLI and a Tab5, both able to take either side.           *)
EXTENDS Exchange

CONSTANTS n1, n2, k1, k2, MaxAttempts

MCExchangeId == 1 .. MaxAttempts

MCFleets == {{}, {n2}}
=============================================================================
