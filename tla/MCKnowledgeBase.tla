-------------------------- MODULE MCKnowledgeBase --------------------------
(* Two sessions that index overlapping paths; one file cannot be read.      *)
EXTENDS KnowledgeBase, TLC

CONSTANTS s1, s2, guide, notes, broken

MCFileKind == guide :> "text" @@ notes :> "text" @@ broken :> "invalid"
MCPaths == {{guide, notes}, {guide}, {guide, broken}, {}}
MCParts == 1..2
============================================================================
