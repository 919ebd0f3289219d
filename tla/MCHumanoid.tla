----------------------------- MODULE MCHumanoid -----------------------------
(***************************************************************************)
(* Small skeletons whose arms hang down, along the axes: the usual one and  *)
(* those that bend its rules.  Clips have up to three samples.              *)
(***************************************************************************)
EXTENDS MotionAdapter

Bone(name, parent, offset) == [name |-> name, parent |-> parent, offset |-> offset]
\* Bones in source order.
Model(b) == [j \in DOMAIN b |-> b[j] @@ [sourceIndex |-> j]]

Up == <<0, 1, 0>>
Down == <<0, -1, 0>>
Out == <<1, 0, 0>>
In == <<-1, 0, 0>>

Trunk ==
  <<Bone("center", 0, Up), Bone("lower", 1, Up), Bone("upper", 1, Up), Bone("upper2", 3, Up),
    Bone("leg", 2, Out), Bone("legR", 2, In), Bone("shoulder", 4, Out)>>

\* The twist bone off its line, two fingers.
Usual == Model(Trunk \o
  <<Bone("arm", 7, Out), Bone("armTwist", 8, <<1, -1, 0>>), Bone("elbow", 9, <<-1, -1, 0>>),
    Bone("handTwist", 10, Down), Bone("hand", 11, Down), Bone("index", 12, Down),
    Bone("thumb", 12, <<0, 0, 1>>)>>)

\* A third bone of the upper body above the second, of which there are two, the
\* later one first in the source; the legs of the D bones; no shoulder.
Twofold ==
  LET b == Model(<<Bone("center", 0, Up), Bone("upper", 1, Up), Bone("upper3", 2, Up),
             Bone("upper2", 3, Up), Bone("upper2", 3, Out), Bone("leg", 1, Out), Bone("legD", 6, Up),
             Bone("legR", 1, In), Bone("arm", 5, Out), Bone("elbow", 9, Down), Bone("hand", 10, Out)>>)
  IN  [b EXCEPT ![4].sourceIndex = 20]

\* Two upper bodies side by side, no legs, the right arm with a twist that is
\* not above the hand and one finger.
RightArm == Model(
  <<Bone("upper", 0, Up), Bone("upper2", 1, Up), Bone("upper3", 1, Out), Bone("armR", 2, In),
    Bone("armTwistR", 4, Down), Bone("elbowR", 5, Down), Bone("handTwistR", 6, In),
    Bone("handR", 6, Down), Bone("lower", 0, Out)>>)

\* Another joint between an arm and its twist bone, on the line or off it.
Between(offset) == Model(Trunk \o
  <<Bone("arm", 4, Out), Bone("other", 8, offset), Bone("armTwist", 9, Down),
    Bone("elbow", 10, Minus(<<0, -4, 0>>, Plus(offset, Down))), Bone("hand", 11, Down)>>)

\* The elbow above the arm, the hand above both.
Reversed == Model(Trunk \o
  <<Bone("hand", 7, Out), Bone("elbow", 8, Up), Bone("armTwist", 9, Up), Bone("arm", 10, Up),
    Bone("index", 8, Out)>>)

\* The elbow where the arm is, an arm with no hand.
Folded == Model(Trunk \o
  <<Bone("arm", 4, Out), Bone("armTwist", 8, Up), Bone("elbow", 9, Down), Bone("handTwist", 10, Down)>>)

MCSkeletons ==
  {Usual, Twofold, RightArm, Between(Down), Between(<<0, 0, 1>>), Reversed, Folded, <<>>}

MCRoles ==
  <<"hips", "spine", "chest", "upperChest", "leftUpperLeg", "rightUpperLeg", "leftShoulder",
    "leftUpperArm", "leftLowerArm", "leftHand", "rightUpperArm", "rightLowerArm", "rightHand",
    "leftThumb", "leftIndex">>
MCParentRole ==
  [hips |-> NoRole, spine |-> "hips", chest |-> "spine", upperChest |-> "chest",
   leftUpperLeg |-> "hips", rightUpperLeg |-> "hips", leftShoulder |-> "upperChest",
   leftUpperArm |-> "leftShoulder", leftLowerArm |-> "leftUpperArm", leftHand |-> "leftLowerArm",
   rightUpperArm |-> "upperChest", rightLowerArm |-> "rightUpperArm",
   rightHand |-> "rightLowerArm", leftThumb |-> "leftHand", leftIndex |-> "leftHand"]
MCTPose ==
  [r \in Range(MCRoles) |->
     IF r \in {"leftShoulder", "leftUpperArm", "leftLowerArm", "leftHand", "leftIndex"} THEN Out
     ELSE IF r \in {"rightUpperArm", "rightLowerArm", "rightHand"} THEN In
     ELSE IF r = "leftThumb" THEN <<0, 0, 1>>
     ELSE IF r \in {"leftUpperLeg", "rightUpperLeg"} THEN Down ELSE Up]
MCRoleSpecs ==
  [hips |-> <<"lower">>, spine |-> <<"upper">>, chest |-> <<"upper2">>, upperChest |-> <<"upper3">>,
   leftUpperLeg |-> <<"legD", "leg">>, rightUpperLeg |-> <<"legRD", "legR">>,
   leftShoulder |-> <<"shoulder">>, leftUpperArm |-> <<"arm">>, leftLowerArm |-> <<"elbow">>,
   leftHand |-> <<"hand">>, rightUpperArm |-> <<"armR">>, rightLowerArm |-> <<"elbowR">>,
   rightHand |-> <<"handR">>, leftThumb |-> <<"thumb">>, leftIndex |-> <<"index">>]
MCArmChain ==
  <<"leftUpperArm", "leftLowerArm", "leftHand", "rightUpperArm", "rightLowerArm", "rightHand">>
TwistSpec(role, follower, twist) == [role |-> role, follower |-> follower, twist |-> twist]
MCTwists ==
  <<TwistSpec("leftUpperArm", "leftLowerArm", "armTwist"),
    TwistSpec("leftLowerArm", "leftHand", "handTwist"),
    TwistSpec("rightUpperArm", "rightLowerArm", "armTwistR"),
    TwistSpec("rightLowerArm", "rightHand", "handTwistR")>>

\* No turn, a roll, a swing, both at once, and a half turn across the bone.
MCArmRotations ==
  {Identity, <<0, 1, 0, 1>>, <<0, 0, 1, 1>>, <<1, 1, 1, 1>>, <<1, 0, 0, 0>>}

MCRequired == <<"hips", "spine", "leftUpperLeg", "rightUpperLeg", "leftHand", "rightHand">>
MCMorphs == <<"smile", "blink", "smile">>
ClipRange(start, end, step) == [finite |-> TRUE, start |-> start, end |-> end, step |-> step]
MCClipRanges ==
  {ClipRange(3, 3, 2), ClipRange(0, 4, 2), ClipRange(-3, 0, 2), ClipRange(-1, 0, 2),
   ClipRange(0, 2, 2), ClipRange(1, 0, 2), ClipRange(0, 1, 0), ClipRange(0, 9, 2),
   [ClipRange(0, 1, 1) EXCEPT !.finite = FALSE]}

MCErrors == {-2, -1, 0, 2}

Channel(morph, weight, finite) == [morph |-> morph, weight |-> weight, finite |-> finite]
Frame(world, root, channels, visible) ==
  [world |-> world, root |-> root, channels |-> channels, visible |-> visible]
Turns == <<<<0, 0, 0, 1>>, <<1, 1, 0, 0>>, <<0, 2, 0, 2>>, <<1, 1, -1, -1>>, <<0, 0, 1, 1>>>>
Turning(k) == [j \in 1..14 |-> Turns[((j * k) % 5) + 1]]
MCEvaluations ==
  {Frame(Turning(1), TRUE, <<Channel(1, 1, TRUE), Channel(2, 0, TRUE), Channel(3, 0, TRUE)>>, TRUE),
   Frame(Turning(2), TRUE, <<Channel(4, 1, FALSE)>>, FALSE),
   Frame(Turning(1), TRUE, <<Channel(2, 1, FALSE)>>, TRUE),
   Frame(Turning(2), FALSE, <<>>, TRUE),
   Frame([Turning(1) EXCEPT ![9] = <<0, 0, 0, 0>>], TRUE, <<>>, TRUE)}
=============================================================================
