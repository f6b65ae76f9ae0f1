------------------------- MODULE MCCodegraphBuilds --------------------------
(* Instances of CodegraphBuilds for TLC: one GitRepository, one workspace.   *)
EXTENDS CodegraphBuilds, Sequences, TLC

CONSTANTS f1, w1, r1, r2, r3, dA, dB, c1, c2, v1, v2, full, small

FirstA == [rev |-> r1, dig |-> dA]
ThenB == [rev |-> r2, dig |-> dB]
(* A later commit whose content, hence digest, is FirstA's again.            *)
BackToA == [rev |-> r3, dig |-> dA]

ChainArtifacts == {FirstA, ThenB}
RevertArtifacts == {FirstA, ThenB, BackToA}

OneConfig == {[version |-> v1, profile |-> full]}
Upgrades == OneConfig \cup {[version |-> v2, profile |-> full]}
Reprofiled == OneConfig \cup {[version |-> v1, profile |-> small]}
AllConfigs == Upgrades \cup Reprofiled

(* f1 goes through the artifacts of path; the events of those before the     *)
(* first-th were sent before.                                                *)
Course(path, first, announced, configs) ==
    [start |-> [s \in FluxSources |-> path[first]],
     sent |-> {<<s, path[i]>> : s \in FluxSources, i \in 1..first} \cap (FluxSources \X Artifacts),
     moves |-> {<<s, path[i], path[i + 1]>> : s \in FluxSources, i \in first..(Len(path) - 1)},
     snapshots |-> announced,
     configs |-> configs]

(* One more commit; or two, the second of which restores the first content.  *)
Changed == {Course(<<FirstA, ThenB>>, 1, {}, OneConfig)}
Reverted == {Course(<<FirstA, ThenB, BackToA>>, 1, {}, OneConfig)}

(* The branch is set back to the commit before.                              *)
SetBack == Course(<<FirstA, ThenB, FirstA>>, 2, {}, OneConfig)

(* The repository is deleted before its event arrives, next to a workspace.  *)
Deleted == Course(<<FirstA, NoArtifact>>, 2, {<<w1, FirstA>>}, Upgrades)

(* The index profile of the controllers changes.                             *)
Steady == Course(<<FirstA, NoArtifact>>, 1, {}, Reprofiled)

ThreeCourses == {SetBack, Deleted, Steady}

Symmetry == Permutations(Controllers)
=============================================================================
