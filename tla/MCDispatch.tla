----------------------------- MODULE MCDispatch -----------------------------
(* The registry with three configurations: rules that overlap; rules that  *)
(* repeat and name targets that are not there; rules without targets of    *)
(* their own.                                                              *)
EXTENDS Dispatch

CONSTANTS A, B, C, D, k1, k2

Target(name, type) == [name |-> name, type |-> type]
Rule(level, kinds, names) == [level |-> level, kinds |-> kinds, targets |-> names]

(* A file target; targets of the application's own, one of them with the   *)
(* name of a target of the first configuration.                            *)
MCAdded == {Target(A, "unknown"), Target(C, "file"), Target(D, "unknown")}

MCConfigs == {
    [use_fallback |-> TRUE,
     targets  |-> <<Target(A, "std"), Target(B, "file")>>,
     dispatch |-> <<Rule(0, {k1}, {A}), Rule(0, {k1, k2}, {B}), Rule(1, {k2}, {A})>>],
    [use_fallback |-> FALSE,
     targets  |-> <<Target(B, "file"), Target(C, "unknown")>>,
     dispatch |-> <<Rule(1, {k2}, {B, C}), Rule(0, {k1}, {A, C}), Rule(1, {k2}, {A})>>],
    [use_fallback |-> TRUE,
     targets  |-> <<>>,
     dispatch |-> <<Rule(0, {k1}, {B}), Rule(1, {}, {C}), Rule(0, {k1}, {C, D})>>]}
=============================================================================
