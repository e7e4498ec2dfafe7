---------------------------- MODULE MCNodeSwitch ----------------------------
(* Instances of NodeSwitch for TLC. *)
EXTENDS NodeSwitch, TLC

CONSTANTS l, r1, r2

(* Safety: every remote node may do anything at any moment. *)
AnyHealth == {Capability}

(* Liveness: a sound node, one that is connected and mute, one with a      *)
(* version skew, one whose stream keeps dying, one that cannot be launched. *)
SoundHealth == {"frame", "quiet"}
FixedHealth == {SoundHealth, {"quiet"}, {"garbage", "quiet"},
                {"frame", "quiet", "die"}, {"quiet", "die", "nolaunch"}}

MayDie == {{"frame", "quiet", "die"}}

AllTexts == Text

(* A text without a verdict only names a failure; one is enough for liveness. *)
FewTexts == {"none", "permanent", "sshConnect"}

(* The two remote nodes are interchangeable. *)
RemoteSymmetry == Permutations({r1, r2})
=============================================================================
