---------------------------- MODULE MCTrexStore ----------------------------
(* Two threads and two tables, one in the schema public. *)
EXTENDS TrexStore

Row(t, priced, doc) == [t |-> t, priced |-> priced, doc |-> doc]

MCExchanges == {"binance", "public"}
MCHidden == {"public"}
MCInds == {"rsi"}
MCBatches == {<<Row(1, TRUE, {"rsi"}), Row(2, TRUE, {})>>, <<Row(2, FALSE, {"rsi"})>>}
MCRow == [priced |-> TRUE, doc |-> {}]
MCDatabases == {<<"binance", "BTC">> :> (1 :> MCRow)}
MCMemory == [bars |-> <<Row(2, TRUE, {})>>, points |-> <<Row(1, TRUE, {"rsi"})>>]
=============================================================================
