----------------------------- MODULE MCCacheLoader -----------------------------
(* The instances of CacheLoader and AdminCache for their safety; that of the       *)
(* temporal properties of CacheLoader is in MCRedis.  They share no state, so a    *)
(* behaviour exercises one of them while the other rests.                          *)
EXTENDS CacheLoader, AdminCache, TLC

VARIABLE part

CachesInit == part \in {"loader", "admins"} /\ Init /\ AdminInit

LoaderPart(A) == part = "loader" /\ A /\ UNCHANGED <<part, adminVars>>
AdminPart(A)  == part = "admins" /\ A /\ UNCHANGED <<part, vars>>

CachesNext == LoaderPart(Next) \/ AdminPart(AdminNext)

CachesSpec == CachesInit /\ [][CachesNext]_<<part, vars, adminVars>>

\* Those who do the same are interchangeable.
Symmetry == Permutations(Reader) \cup Permutations(Writer) \cup Permutations(Asker) \cup Permutations(Clearer)

\* A behaviour has a second write or clearing, or a call that fails, not both.
OneTrouble == /\ version <= 1 \/ (faults = Faults /\ lost = 0)
              /\ clearings >= Clearings - 1 \/ adminFaults = AdminFaults
================================================================================
