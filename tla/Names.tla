-------------------------------- MODULE Names --------------------------------
(***************************************************************************)
(* Names made of parts (pkg/name/name.go): of virtual nodes, finalizers    *)
(* and role bindings. A part is a sequence of words, which dashes separate *)
(* in the text; the empty part is the empty sequence. A name is its words  *)
(* and, if it has a hash, what the hash was computed from. Lengths are in  *)
(* words, the hash counting as one. Hashes are taken not to collide.       *)
(***************************************************************************)
EXTENDS Naturals, FiniteSets, SequencesExt

CONSTANTS
    Words,        \* words that names are made of
    Short, Long   \* limits on the length of a name

ASSUME LimitsAssumption == Short \in Nat \ {0, 1} /\ Long \in Nat \ {0, 1}

(* A mistake: hash only names that are too long.                           *)
NeverAmbiguous(constants, optional, parts) == FALSE

(* The join of the parts may be that of others.                            *)
HashRequired(constants, optional, parts) ==
    \E i \in DOMAIN parts :
        \/ /\ Len(parts[i]) > 1
           /\ i \notin constants
           /\ Len(parts) - Cardinality(constants) > 1
        \/ parts[i] = <<>> /\ Cardinality(optional) > 1

(* The words of s that leave room for a hash.                              *)
Truncate(limit, s) == IF Len(s) > limit - 1 THEN SubSeq(s, 1, limit - 1) ELSE s

FromParts(limit, constants, optional, parts) ==
    LET s == FlattenSeq(parts) IN
    IF ~HashRequired(constants, optional, parts) /\ Len(s) <= limit
    THEN [words |-> s, hash |-> {}]
    ELSE [words |-> Truncate(limit, s), hash |-> {parts}]
=============================================================================
