SPECIFICATION Spec
INVARIANT ClosableShowsDismissButton
