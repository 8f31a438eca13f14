---------------------------- MODULE MCCategories ----------------------------
(***************************************************************************)
(* Two parts that share no row: the categories, and the rows of which one is *)
(* the default.  A behaviour is about one of them.                           *)
(***************************************************************************)
EXTENDS Categories, TLC

CONSTANTS
    c1, c2, c3,       \* requests that are alike
    Setters, Kinds    \* Calls and Kinds of Defaults

VARIABLES part, kind, item, setting, raced

Flagged == INSTANCE Defaults WITH
    Calls <- Setters, call <- setting

flags == <<kind, item, setting, raced>>

PartsInit ==
    /\ part \in {"categories", "defaults"}
    /\ Init
    /\ Flagged!Init
    /\ part # "defaults" => kind = "account" /\ item = [i \in Ids |-> "none"]

CategoriesNext == part = "categories" /\ Next /\ UNCHANGED <<part, flags>>
DefaultsNext == part = "defaults" /\ Flagged!Next /\ UNCHANGED <<part, vars>>

PartsNext == CategoriesNext \/ DefaultsNext

PartsSpec == PartsInit /\ [][PartsNext]_<<part, vars, flags>>

\* The request that may use the entity is not like the others.
Symmetry == Permutations(Ids) \cup Permutations(Slugs) \cup Permutations({c1, c2, c3})

(* The properties of Defaults, by their names there.                        *)

(* Defaults: at most one row is the default.                                *)
OneDefault == Flagged!OneDefault

(* Defaults: a seller's default account is replaced, never lost.            *)
DefaultKept == [][Flagged!KeepsDefault]_flags
=============================================================================
