----------------------------- MODULE MCYamlParser ----------------------------
(***************************************************************************)
(* Documents of a few lines read by the YAML parser alone, for the         *)
(* question whether keys and items of one node are ever accepted together. *)
(***************************************************************************)
EXTENDS YamlParser

YamlSpec == YamlInit /\ [][YamlNext]_yamlVars

Symmetry == Permutations(YamlKeys)
=============================================================================
