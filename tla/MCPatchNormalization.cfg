SPECIFICATION Spec
CONSTANTS
  s0 = s0
  t0 = t0
  a0 = a0
  s1 = s1
  x1 = x1
  nul = nul
  latin = latin
  outside = outside
  folder = folder
  Absent = Absent
  Override = Override
  Agents = "agents"
  Paths <- MCPaths
  Bases <- MCBases
  Written <- MCWritten
  Binary = {nul}
  Garbled = {latin}
  Similar <- MCSimilar
  Blocked = {folder}
  TestPatch <- MCTestPatch
  Answers <- MCAnswers
  MaxEdits = 3
INVARIANTS PatchIsClean WorkIsKept
