------------------------------ MODULE MCCatalogJob -----------------------------
(* CatalogJob for TLC: two targets in turn, beside one other invocation.    *)
EXTENDS CatalogJob

CONSTANTS first, second, other, t1, t2

MCInvocation == {first, second, other}
MCTarget == {t1, t2}
MCTargets == <<t1, t2>>
MCAttempts == <<first, second>>
==============================================================================
