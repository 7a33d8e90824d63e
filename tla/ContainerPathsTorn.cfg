SPECIFICATION Spec
INVARIANT StartedWithWholeConfig
