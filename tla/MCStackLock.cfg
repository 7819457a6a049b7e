SPECIFICATION Spec
CONSTANT N = 3
INVARIANTS TypeOK MutualExclusion HoldersCanRun HandoverIsUnderWay
