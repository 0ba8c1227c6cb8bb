--------------------------- MODULE RevisionStore ---------------------------
(***************************************************************************)
(* What a silver table promises its readers (SOURCE_CONTRACTS.md, "Shared  *)
(* Silver Contract"): a store of revisions that only grows, publishing at  *)
(* most one revision per natural key.  The table moves in one way: a       *)
(* payload takes effect as one step, on some of its keys, each of which    *)
(* then publishes what that payload says of it.  No step mixes payloads,   *)
(* shows part of a load or forgets a revision, and a key that publishes    *)
(* goes on doing so.  The one exception is a key that some payload states  *)
(* twice: a payload that states such a key may also withdraw it.           *)
(***************************************************************************)
CONSTANTS
    Keys, Values, Payloads,
    Stated(_),  \* the records of a payload, a set
    Repeated    \* the keys that some payload states twice

VARIABLES
    known,      \* every revision ever published
    published   \* the current revision of a key: a singleton, or nothing yet

storeVars == <<known, published>>

StoreInit == known = {} /\ published = [k \in Keys |-> {}]

StatedKeys(p) == {kv[1] : kv \in Stated(p)}

Publish(p) ==
    \E K \in SUBSET StatedKeys(p), lost \in SUBSET (StatedKeys(p) \cap Repeated) :
        \E value \in [K -> Values] :
            /\ \A k \in K : <<k, value[k]>> \in Stated(p)
            /\ known' = known \cup {<<k, value[k]>> : k \in K}
            /\ published' = [k \in Keys |->
                   IF k \in K THEN {value[k]}
                   ELSE IF k \in lost THEN {} ELSE published[k]]

StoreNext == \E p \in Payloads : Publish(p)

StoreSpec == StoreInit /\ [][StoreNext]_storeVars
=============================================================================
