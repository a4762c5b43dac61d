CONSTANTS
  Etc = Etc
  Rel = Rel
  Info = Info
  Argvs <- SomeArgvs
  Paths = {Etc, Rel}
  AbsPaths = {Etc}
  DefaultPath = Etc
  LogLevels = {Info}
  Number = Number
  NoWord = NoWord
  Contents <- SomeContents
  Missing = Missing
  Lanes = {l1}
  MaxConf = 2
SPECIFICATION Spec
INVARIANTS
  TypeOK
  OneConf
  UrlIsLive
  SameConfig
  EndsForCause
