-------------------------- MODULE MCAddonLifecycle --------------------------
(* Instances of AddonLifecycle for TLC. *)
EXTENDS AddonLifecycle, TLC

CONSTANT w1

OneWindow == {w1}

(* The ini file of a user who opened the window, or one of a version      *)
(* before that, and no json file yet; a json file that was edited wrongly, *)
(* which two processes then load and save.                                 *)
Installed ==
  { <<NoFile, [w \in Windows |-> TRUE], 1>>,
    <<NoFile, OldVersion, 1>>,
    <<[w \in Windows |-> WrongType], NoFile, 2>> }

=============================================================================
