---------------------------- MODULE PolicyTable ----------------------------
(***************************************************************************)
(* The policy numbers a condition asks for (rules/policy.go, required() and*)
(* capped() in rules/cel.go): a table row of minima or ceilings per regime,*)
(* the regimes the architecture enables under any of their spellings, and  *)
(* the tenant's own value.                                                 *)
(***************************************************************************)
EXTENDS Integers, FiniteSets, FiniteSetsExt

CONSTANTS
  Rows,          \* the rows a table may hold for the code: [entry key -> number]; none: the empty row
  RegimeCodes,   \* the regime codes an architecture may list
  TenantValues,  \* the values a tenant may set
  Unset          \* the tenant's value when it set none

ASSUME PolicyAssumption ==
  /\ \A row \in Rows :
       /\ IsFiniteSet(DOMAIN row)
       /\ \A key \in DOMAIN row : row[key] \in Int
  /\ TenantValues \subseteq Int /\ Unset \notin Int

VARIABLES
  polRow,      \* the row of the code
  polRegimes,  \* Policy.Regimes, as listed
  polTenant    \* Policy.Requirements[code]

polVars == <<polRow, polRegimes, polTenant>>

-----------------------------------------------------------------------------
\* regimeAliases, for the spellings the instances list; a code that is no alias is its own.
CanonRegime(code) ==
  CASE code \in {"CO", "CH_CO", "ch-co"} -> "CH-CO"
    [] code \in {"ISO27001", "ISO-42001"} -> "ISO"
    [] code \in {"AI-ACT", "AI_ACT"} -> "AIACT"
    [] OTHER -> code

\* The regime of an entry key, "<REGIME>" or "<REGIME>_<role>": what precedes the first "_".
EntryRegime(key) ==
  CASE key \in {"AIACT_deployer", "AIACT_provider"} -> "AIACT"
    [] key = "CH-CO_retail" -> "CH-CO"
    [] OTHER -> key

\* The mistake (used by no specification): the regimes are compared as they are spelled.
InForce_AsSpelled(row, regimes) ==
  {key \in DOMAIN row \ {"default"} : EntryRegime(key) \in regimes}

\* The entries of the enabled regimes.
InForce(row, regimes) ==
  {key \in DOMAIN row \ {"default"} :
     CanonRegime(EntryRegime(key)) \in {CanonRegime(c) : c \in regimes}}

Larger(a, b) == IF a > b THEN a ELSE b
Smaller(a, b) == IF a < b THEN a ELSE b

Numbers(row, regimes) == {row[key] : key \in InForce(row, regimes)}

Default(row) == IF "default" \in DOMAIN row THEN row["default"] ELSE 0

\* Required: the largest minimum in force, else the default; the tenant may raise it.
Required(row, regimes, tenant) ==
  LET asked == IF tenant = Unset THEN 0 ELSE tenant
      floors == Numbers(row, regimes)
  IN  Larger(asked, IF floors = {} THEN Default(row) ELSE Max(floors))

\* Cap: the smallest ceiling in force, under which the tenant's value, else the default; -1
\* (cappedVal) when nothing names the code.
Cap(row, regimes, tenant) ==
  LET own == IF tenant = Unset THEN Unset ELSE Larger(tenant, 0)
      ceilings == Numbers(row, regimes)
  IN  IF own # Unset /\ ceilings # {} THEN Smaller(own, Min(ceilings))
      ELSE IF own # Unset THEN own
      ELSE IF ceilings # {} THEN Min(ceilings)
      ELSE IF "default" \in DOMAIN row THEN row["default"] ELSE -1

-----------------------------------------------------------------------------
PolicyInit ==
  /\ polRow \in Rows
  /\ polRegimes = {}
  /\ polTenant = Unset

Enable(code) ==
  /\ polRegimes' = polRegimes \cup {code}
  /\ UNCHANGED <<polRow, polTenant>>

Disable(code) ==
  /\ polRegimes' = polRegimes \ {code}
  /\ UNCHANGED <<polRow, polTenant>>

SetTenant(v) ==
  /\ polTenant' = v
  /\ UNCHANGED <<polRow, polRegimes>>

PolicyNext ==
  \/ \E code \in RegimeCodes : Enable(code) \/ Disable(code)
  \/ \E v \in TenantValues \cup {Unset} : SetTenant(v)

PolicySpec == PolicyInit /\ [][PolicyNext]_polVars

-----------------------------------------------------------------------------
\* What the regimes in force ask, read from the names alone: an entry of the row binds when the
\* architecture lists its regime under any spelling.
Binds(key) ==
  key # "default" /\ \E code \in polRegimes : CanonRegime(code) = EntryRegime(key)

\* Whatever an architecture lists, in whichever spelling and order, and whatever its tenant sets,
\* no binding minimum is undercut and no binding ceiling exceeded; a tenant's own demand above
\* the minima, or below the ceilings, is kept (policy.go: "Tenants may raise, never lower below a
\* regime minimum").
RegimesBind ==
  LET required == Required(polRow, polRegimes, polTenant)
      cap == Cap(polRow, polRegimes, polTenant)
  IN  /\ \A key \in DOMAIN polRow : Binds(key) => required >= polRow[key] /\ cap <= polRow[key]
      /\ polTenant # Unset =>
           required >= polTenant /\ (polTenant >= 0 => cap <= polTenant)
=============================================================================
