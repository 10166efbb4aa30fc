\* Two overlapping refreshes of the web page, and a reader of one item a page.
SPECIFICATION Spec
CONSTANTS
    Domains = {d1, d2, d3}
    Refreshes = {p1, p2}
    Reader = r
    Limit = 1
    MaxExpiry = 1
    MaxChanges = 1
    MaxFaults = 1
SYMMETRY Symmetry
INVARIANTS EveryItemHasItsRow UnchangedIsReadOnce EmptyIsTrue
