----------------------------- MODULE SessionTable ------------------------------
(***************************************************************************)
(* What the plugin's tunnels, pools and indexes amount to for a packet: a  *)
(* table from session key to interface.  A key has one interface, an       *)
(* interface one key; a call adds or removes one entry and leaves every    *)
(* other as it was.                                                        *)
(***************************************************************************)
CONSTANTS Keys, Ifs
VARIABLE table

Taken == {table[k] : k \in DOMAIN table}

Add(k, w) ==
  /\ k \notin DOMAIN table /\ w \notin Taken
  /\ table' = [j \in DOMAIN table \cup {k} |-> IF j = k THEN w ELSE table[j]]

Remove(k) ==
  /\ k \in DOMAIN table
  /\ table' = [j \in DOMAIN table \ {k} |-> table[j]]

TInit == table = [k \in {} |-> {}]
TNext == \E k \in Keys : Remove(k) \/ \E w \in Ifs : Add(k, w)
TSpec == TInit /\ [][TNext]_table
=============================================================================
