--------------------------- MODULE MCServerStores ---------------------------
(* The two classes of server/store.py side by side: either the registry of *)
(* stores runs, or one store does.  A store of two bars, four times and two *)
(* revisions, so that appends evict and late bars land before, between and *)
(* on top of the bars held; two spellings of one symbol, so that a fold    *)
(* that is missing shows.                                                  *)
EXTENDS CandleStore, MultiSymbolStore

MCTime == 1..4
MCBatches ==
  LET b(t, r) == [time |-> t, rev |-> r]
  IN  { <<b(2, "r1"), b(1, "r1")>>,                    \* unsorted
        <<b(1, "r1"), b(3, "r1"), b(1, "r2")>>,        \* a time twice
        <<b(1, "r1"), b(2, "r2"), b(4, "r1"), b(3, "r1")>> }  \* over capacity

MCSymbols == {"BTC", "btc"}
MCUpper == [s \in MCSymbols |-> "BTC"]

(* Nobody reads what arg is before a thread's first call. *)
StoresInit == Init /\ RegistryInit /\ arg = [t \in Threads |-> <<"BTC", "1m">>]

StoresNext ==
  \/ Next /\ made = 0 /\ pc = [t \in Threads |-> "idle"] /\ UNCHANGED registryVars
  \/ RegistryNext /\ bars = << >> /\ UNCHANGED vars

StoresSpec == StoresInit /\ [][StoresNext]_<<vars, registryVars>>
=============================================================================
