SPECIFICATION Spec
CONSTANT NoFile = NoFile
INVARIANT TypeOK
INVARIANT ReadyMediaHangTogether
PROPERTY ImplementsMediaUpdate
