------------------------------- MODULE Labels -------------------------------
(***************************************************************************)
(* Labels of delegate pods and selectors of rerouted services              *)
(* (ChangeLabels in pkg/model/delegatepod/model.go). A label map is a      *)
(* function from keys to values; a key is a pair <<domain, name>>, whose   *)
(* domain is "" when the key has no prefix.                                *)
(***************************************************************************)
EXTENDS Functions

CONSTANT NoPrefix   \* keys matched by the annotation no-prefix-label-regexp

Own == "multicluster.admiralty.io"

(* A selector matches a pod with these labels.                             *)
Matches(s, m) == \A k \in DOMAIN s : k \in DOMAIN m /\ m[k] = s[k]

(* The key that replaces key k.                                            *)
NewKey(k) == IF k \in NoPrefix THEN k ELSE <<Own, k[2]>>

(* The maps that ChangeLabels may return: Go iterates over a map in random *)
(* order, so when two keys get the same new key either value may stay.     *)
ChangeLabels(m) ==
    {c \in [{NewKey(k) : k \in DOMAIN m} -> Range(m)] :
        \A n \in DOMAIN c : \E k \in DOMAIN m : NewKey(k) = n /\ m[k] = c[n]}
=============================================================================
