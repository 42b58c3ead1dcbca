SPECIFICATION MCSpec
CONSTANTS
  Scenes = {"image", "downloads", "hardware", "pulse"}
  Model = {m1, m2}
  m1 = m1
  m2 = m2
  Thread = {t1, t2}
  DefaultModel = m1
  NoModel = NoModel
  Nobody = Nobody
  Mixes <- AllMixes
  File = {f1, f2}
  MaxPulls = 2
  NoFile = NoFile
  Machine <- MCMachine
  Gguf <- MCGguf
  Patch = {Same, 8}
  Same = Same
  NoConfig = NoConfig
  ChatModel = {m1, m2}
  NoReport = NoReport
  MaxPosts = 2
  MaxChanges = 2
INVARIANTS
  ImagesAreRight
  OneDownload
  ConfigFits
  ReportsWereTrue
PROPERTY AgentWorkEnds
