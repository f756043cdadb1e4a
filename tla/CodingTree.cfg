SPECIFICATION Spec
CONSTANT Configs <- MCConfigs
INVARIANTS DepthsAgree UnitsTile UnitsRead QpsRight EndFound
