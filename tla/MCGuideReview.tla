---------------------------- MODULE MCGuideReview ----------------------------
(* The instance TLC explores: two suggestions that nothing distinguishes,  *)
(* and three disturbances of a caption review, two of an annotation review.*)
EXTENDS GuideReview, TLC

MCMaxTrouble == [captions |-> 3, visual |-> 2]

Symmetry == Permutations(Suggestions)
=============================================================================
