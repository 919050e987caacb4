---------------------------- MODULE MCSkillInstall ----------------------------
EXTENDS SkillInstall, TLC

CONSTANTS v1, v2, v3, a, b

\* Skill 1 is in every release, 2 moves, 3 is added and retired again.
MCContents ==
  v1 :> <<a, a, Absent>> @@ v2 :> <<a, b, a>> @@ v3 :> <<a, b, Absent>>
===============================================================================
