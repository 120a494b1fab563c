\* Two tabs and the modal, two requests and one confirm dialog; one of the tabs and the
\* modal query their grids when they have loaded.
SPECIFICATION Spec
CONSTANTS
    Program = {pA, pB}
    Querying = {pA, modal}
    Requests = 2
    Confirm = {c1}
    Modal = modal
    None = none
INVARIANTS
    TypeOK
    AtRestClean
    ModalPageMatches
    ActiveIsOpen
    StuckOnlyIfHasty
PROPERTIES
    WaitCoversRequest
    SettledWaitProtects
    WaitEnds
CHECK_DEADLOCK FALSE
