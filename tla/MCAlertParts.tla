----------------------------- MODULE MCAlertParts -----------------------------
(***************************************************************************)
(* The parts of alerting around the pipeline, for one run of TLC: pairing  *)
(* and the daemon's installation, the relay's rate limiter, and the probe  *)
(* the daemon's samples use.  They share no state, so each behaviour       *)
(* follows one of them ("focus") and the others stay as they start.        *)
(***************************************************************************)
EXTENDS NodePairing, RelayLimits, NodeProbe, TLC

VARIABLE focus
mcVars == <<pairVars, limitVars, probeVars, focus>>

\* One state for each component a behaviour leaves alone.
PairingRest ==
    /\ PairingInit
    /\ \A i \in Ids : row[i] = NoName
    /\ pairFaults = CHOOSE f \in PairFaultSets : TRUE

MCInit ==
    /\ focus \in {"pairing", "limits", "probe"}
    /\ IF focus = "pairing" THEN PairingInit ELSE PairingRest
    /\ LimitsInit /\ ProbeInit

MCNext ==
    /\ UNCHANGED focus
    /\ \/ focus = "pairing" /\ PairingNext /\ UNCHANGED <<limitVars, probeVars>>
       \/ focus = "limits" /\ LimitsNext /\ UNCHANGED <<pairVars, probeVars>>
       \/ focus = "probe" /\ ProbeNext /\ UNCHANGED <<pairVars, limitVars>>

\* The types of the components' variables.
PartsTypeOK == PairingTypeOK /\ LimitsTypeOK /\ ProbeTypeOK

PartsSymmetry ==
    Permutations(Hosts) \cup Permutations(Codes) \cup Permutations(Ids)

MCSpec == MCInit /\ [][MCNext]_mcVars
=============================================================================
