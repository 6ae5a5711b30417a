---------------------------- MODULE InhibitTypes ----------------------------
(***************************************************************************)
(* Values shared by the modules of the project: the inhibit types of       *)
(* include/InhibitInterface.hpp and the std::map operations that the       *)
(* registries of active inhibits are built from.                           *)
(*                                                                         *)
(* The enum InhibitType is a word of flag bits; a value is modelled by the *)
(* set of its bits, so | is \cup, & is \cap and NONE is the empty set.     *)
(***************************************************************************)
EXTENDS Naturals, Sequences

SCREENSAVER == "screensaver"
SUSPEND == "suspend"

Bits == {SCREENSAVER, SUSPEND}

InhibitType == SUBSET Bits

\* std::map::insert: an entry that already exists is left as it is.
MapInsert(m, key, val) ==
    [k \in DOMAIN m \cup {key} |-> IF k \in DOMAIN m THEN m[k] ELSE val]

\* Mutant: the erase is forgotten.
MutantNoErase(m, key) == m

\* std::map::erase(key)
MapErase(m, key) == [k \in DOMAIN m \ {key} |-> m[k]]

\* Mutant: insert where push_back is meant keeps the first entry only.
MutantPushOnce(m, key, x) == MapInsert(m, key, <<x>>)

\* map[key].push_back(x): operator[] creates the missing vector.
MapPush(m, key, x) ==
    [k \in DOMAIN m \cup {key} |->
        IF k # key THEN m[k]
        ELSE Append(IF key \in DOMAIN m THEN m[key] ELSE <<>>, x)]

\* m[key] |= val, for flags.
MapUnite(m, key, val) ==
    [k \in DOMAIN m \cup {key} |->
        IF k # key THEN m[k]
        ELSE (IF key \in DOMAIN m THEN m[key] ELSE {}) \cup val]

EmptyMap == [k \in {} |-> k]

=============================================================================
