SPECIFICATION Spec
CONSTANT Configs <- DeepDqpConfigs
INVARIANTS QpsRight
