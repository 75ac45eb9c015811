--------------------------- MODULE ResourceLimits ---------------------------
(***************************************************************************)
(* The editor of a container's limits: numbers are shown as text, typed    *)
(* over, parsed and applied live; the query answers again at any time and  *)
(* writes its answer into the fields.  Units are scaled down: a kilobyte   *)
(* is Kilo bytes.                                                          *)
(***************************************************************************)
EXTENDS Integers, Sequences

CONSTANTS
    Kilo,           \* 1024
    MaxBytes,       \* bound: memory limits
    MaxLimitActs    \* bound: what the user and other sessions do

ASSUME KiloAssumption == Kilo \in Nat \ {0}

VARIABLES
    limits,         \* the container's limits
    resources,      \* the query's copy, or NoResources while it loads
    fields,         \* what the form's fields hold
    applying,       \* the limits on their way to the server, or NoResources
    loadedFrom,     \* history: the limits the fields were last filled from
    typed,          \* history: has the user typed since
    limitActs

rlVars == <<limits, resources, fields, applying, loadedFrom, typed, limitActs>>

NoResources == [memory |-> -1, policy |-> "no", retries |-> 0]
Blank == <<>>
Policies == {"no", "always", "on-failure"}
\* Only the on-failure policy has a number of retries.
Limits == {l \in [memory : 0 .. MaxBytes, policy : Policies, retries : 0 .. 1] :
              l.retries > 0 => l.policy = "on-failure"}

UnitSize == [g |-> Kilo * Kilo * Kilo, m |-> Kilo * Kilo, k |-> Kilo, b |-> 1]

\* Mutant: the largest unit that fits, whether or not it divides.
formatMemoryRounded(bytes) ==
    IF bytes <= 0 THEN Blank
    ELSE LET u == CHOOSE u \in DOMAIN UnitSize :
                     /\ bytes >= UnitSize[u]
                     /\ \A v \in DOMAIN UnitSize :
                           bytes >= UnitSize[v] => UnitSize[v] <= UnitSize[u]
         IN <<bytes \div UnitSize[u], u>>

\* The largest unit that divides the number of bytes.
formatMemoryBytes(bytes) ==
    IF bytes <= 0 THEN Blank
    ELSE LET u == CHOOSE u \in DOMAIN UnitSize :
                     /\ bytes % UnitSize[u] = 0
                     /\ \A v \in DOMAIN UnitSize :
                           bytes % UnitSize[v] = 0 => UnitSize[v] <= UnitSize[u]
         IN <<bytes \div UnitSize[u], u>>

\* Nothing typed means unlimited; what is not a number with a unit is
\* refused.
parseMemoryInput(text) ==
    IF text = Blank THEN 0 ELSE IF text[2] = "?" THEN -1 ELSE text[1] * UnitSize[text[2]]

Filled(l) == [memory |-> formatMemoryBytes(l.memory), policy |-> l.policy,
              retries |-> IF l.retries > 0 THEN <<l.retries>> ELSE Blank]
offersForm == resources # NoResources
LimitActs == limitActs < MaxLimitActs /\ limitActs' = limitActs + 1

ResourceLimitsInit ==
    /\ limits \in Limits /\ resources = NoResources
    /\ fields = [memory |-> Blank, policy |-> "no", retries |-> Blank]
    /\ applying = NoResources /\ loadedFrom = NoResources /\ typed = FALSE /\ limitActs = 0

\* The query answers; an answer that differs fills the fields, over what
\* the user typed there.
ResourcesLoaded ==
    /\ resources # limits /\ resources' = limits
    /\ fields' = Filled(limits) /\ loadedFrom' = limits /\ typed' = FALSE
    /\ UNCHANGED <<limits, applying, limitActs>>

TypeIntoFields ==
    /\ offersForm /\ LimitActs /\ typed' = TRUE
    /\ \/ \E m \in {Blank, <<1, "k">>, <<3, "b">>, <<0, "?">>} :
              fields' = [fields EXCEPT !.memory = m]
       \/ \E p \in Policies : fields' = [fields EXCEPT !.policy = p]
       \/ /\ fields.policy = "on-failure"
          /\ \E r \in {Blank, <<1>>} : fields' = [fields EXCEPT !.retries = r]
    /\ UNCHANGED <<limits, resources, applying, loadedFrom>>

\* Retries are sent only with the policy that has them.
HandleSaveLimits ==
    /\ offersForm /\ applying = NoResources /\ LimitActs
    /\ parseMemoryInput(fields.memory) # -1
    /\ applying' = [memory |-> parseMemoryInput(fields.memory), policy |-> fields.policy,
                    retries |-> IF fields.policy = "on-failure" /\ fields.retries # Blank
                                THEN fields.retries[1] ELSE 0]
    /\ UNCHANGED <<limits, resources, fields, loadedFrom, typed>>

LimitsApplied ==
    /\ applying # NoResources /\ applying' = NoResources
    /\ limits' \in {limits, applying}
    /\ UNCHANGED <<resources, fields, loadedFrom, typed, limitActs>>

ResourceLimitsNext ==
    \/ ResourcesLoaded \/ TypeIntoFields \/ HandleSaveLimits \/ LimitsApplied
ResourceLimitsSpec == ResourceLimitsInit /\ [][ResourceLimitsNext]_rlVars
-----------------------------------------------------------------------------
\* Saving fields nobody typed into sends exactly the limits they were filled
\* from: formatting and parsing lose nothing, whatever the number of bytes.
UntouchedLimitsKept ==
    [][applying' # applying /\ applying' # NoResources /\ ~typed
        => applying' = loadedFrom]_rlVars
=============================================================================
