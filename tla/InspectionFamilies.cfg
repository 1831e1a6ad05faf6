SPECIFICATION Spec
CONSTANTS
    Kinds <- AdapterKind
    Counts = {1, 2}
    MaxRounds = 2

INVARIANT TypeOK
INVARIANT RecognisedBlockIsFinal
INVARIANT CountedOnce
INVARIANT FilterCheckedFirst
INVARIANT AcceptedIsObserved
INVARIANT EvidenceIsComplete

CHECK_DEADLOCK FALSE
