CONSTANTS
    console = console
    setup = setup
    detail1 = detail1
    detail2 = detail2
    error = error
    NoPage = NoPage
    Pages = {console, setup, detail1, detail2, error}
    NameOf <- MCNameOf
    CompOf <- MCNameOf
    KeptAlive <- MCKeptAlive
    PinnedPages <- MCPinnedPages
    HiddenPages <- MCHiddenPages
    Setup = setup
    Error = error
    Home = console
    MaxWaiting = 2
SYMMETRY Symmetry
SPECIFICATION Spec
INVARIANT UniqueTabs
INVARIANT CurrentIsOpen
INVARIANT OpenIsNotExcluded
INVARIANT ClosedIsForgotten
PROPERTY PinnedStay
