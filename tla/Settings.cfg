\* Any two arguments, three or four groups of arguments, files with up to two members.
SPECIFICATION Spec
CONSTANTS
  Inputs <- MCInputs
  NoText = NoText
  Addresses = {"127.0.0.1", "1.1.1.1"}
INVARIANTS TypeOK HeapOwned LastSettingWins OptionsInOrder RefusesTheRest CommandMeansSettings PluginIsInBetween
CHECK_DEADLOCK FALSE
