---------------------------- MODULE MCSceneApply ----------------------------
(* Two obstacles and a ground; the documents add, drop and change them. *)
EXTENDS SceneApply

CONSTANTS a, b

MCScenes == {<<a, b, NoBody>>, <<b, NoBody, a>>}
=============================================================================
