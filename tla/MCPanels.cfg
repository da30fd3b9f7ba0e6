SPECIFICATION PanelsSpec
SYMMETRY Symmetry
CONSTANTS
    p1 = p1
    p2 = p2
    f1 = f1
    f2 = f2
    Html = {a, b}
    Req = {r1, r2}
    NoUrl = NoUrl
    Things = {"t"}
    Names = {"p", "q"}
    Blank = ""
    NotText = "#"
INVARIANTS
    PanelsKept
    
    BridgeFaithful
