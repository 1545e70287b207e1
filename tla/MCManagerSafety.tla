-------------------------- MODULE MCManagerSafety --------------------------
(***************************************************************************)
(* Parts of the LLM Manager that do not share state, model-checked side by *)
(* side for safety: a behaviour is one of the part it began with, and the  *)
(* variables of the others keep their first values.                        *)
(*                                                                         *)
(*   "active"   ActiveDeployments,                                         *)
(*   "release"  ReleaseTransaction,                                        *)
(*   "keys"     AgentKeys and                                              *)
(*   "spend"    ExternalSpend with the constants of the configuration      *)
(*   "gpu"      GpuRetention with three hours of old samples               *)
(*   "presets"  Presets with two sessions and two presets                  *)
(*   "ring"     RdmaRing with two nodes and a host that is none            *)
(***************************************************************************)
EXTENDS ActiveDeployments, ReleaseTransaction, AgentKeys, ExternalSpend,
        GpuRetention, Presets, RdmaRing, TLC

VARIABLE part

allVars == <<part, vars, keyVars, spendVars, gpuVars, presetVars, ringVars, releaseVars>>

PartInit ==
    /\ part \in {"active", "release", "keys", "spend", "gpu", "presets", "ring"}
    /\ Init /\ ReleaseInit /\ KeyInit /\ SpendInit /\ GpuInit /\ PresetInit
    /\ RingInit /\ (part # "ring" => ring)

PartNext ==
    /\ UNCHANGED part
    /\ \/ /\ part = "active" /\ Next
          /\ UNCHANGED <<releaseVars, keyVars, spendVars, gpuVars, presetVars, ringVars>>
       \/ /\ part = "release" /\ ReleaseNext
          /\ UNCHANGED <<vars, keyVars, spendVars, gpuVars, presetVars, ringVars>>
       \/ /\ part = "keys" /\ KeyNext
          /\ UNCHANGED <<vars, releaseVars, spendVars, gpuVars, presetVars, ringVars>>
       \/ /\ part = "spend" /\ SpendNext
          /\ UNCHANGED <<vars, releaseVars, keyVars, gpuVars, presetVars, ringVars>>
       \/ /\ part = "gpu" /\ GpuNext
          /\ UNCHANGED <<vars, releaseVars, keyVars, spendVars, presetVars, ringVars>>
       \/ /\ part = "presets" /\ PresetNext
          /\ UNCHANGED <<vars, releaseVars, keyVars, spendVars, gpuVars, ringVars>>
       \/ /\ part = "ring" /\ RingNext
          /\ UNCHANGED <<vars, releaseVars, keyVars, spendVars, gpuVars, presetVars>>

PartSpec == PartInit /\ [][PartNext]_allVars

\* The two workers that handle agent keys are interchangeable.
Symmetry == Permutations(WebWorkers)
============================================================================
