------------------------------- MODULE NotePaths -------------------------------
(***************************************************************************)
(* brain_sync.assign_paths: the note of an item is named after its title;  *)
(* of the items that share a title (up to case) the one with the smallest  *)
(* key gets the plain name and the others add the first 8 characters of    *)
(* their key.                                                              *)
(***************************************************************************)
EXTENDS Naturals

CONSTANT NoSuffix     \* the suffix of a plain name

(***************************************************************************)
(* base[i] is the folded title of item i.  Items are their own keys,       *)
(* ordered as the code sorts them; short[i] is what the key is cut to.     *)
(***************************************************************************)
IsOldest(i, items, base) ==
    \A j \in items : base[j] = base[i] => i <= j

\* Variant: every item gets the plain name.
PlainPath(i, items, base, short) == <<base[i], NoSuffix>>

NotePath(i, items, base, short) ==
    <<base[i], IF IsOldest(i, items, base) THEN NoSuffix ELSE short[i]>>

AssignPaths(items, base, short) ==
    [ i \in items |-> NotePath(i, items, base, short) ]
================================================================================
