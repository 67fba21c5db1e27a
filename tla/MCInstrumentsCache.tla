------------------------- MODULE MCInstrumentsCache -------------------------
(* InstrumentsCache for TLC: one of its users connects again. *)
EXTENDS InstrumentsCache

Someone == {CHOOSE u \in Users : TRUE}
=============================================================================
