\* Two workers, one labelled source beside the unlabelled one, and a clock that
\* outlasts a window.
CONSTANTS
    Threads = {t1, t2}
    Sources = {front}
    Null = Null
    Unlabelled = unlabelled
    Limit = 2
    Window = 2
    MaxTime = 3
    MaxAdmitted = 4
SPECIFICATION Spec
INVARIANTS
    TypeOK
    ExactInOrder
    QuietSourceAdmitted
    DequeBounded
SYMMETRY ThreadSymmetry
