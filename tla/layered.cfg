CONSTANTS
    a = a
    b = b
    c = c
    d = d
    x = x
    y = y
    z = z
    pkg = pkg
    lib = lib
    rel = rel
    fs = fs
    css = css
    G = G
    Files = {a, b, c, d}
    Specifiers = {pkg, lib, rel, fs, css}
    Relative = {rel}
    Special = {fs}
    Wildcard = {css}
    Names = {x, y, z}
    Default = z
    Globals = {G}
    CycleBounds <- EveryBound
    Projects <- AllProjects
SPECIFICATION FairLayeredSpec
INVARIANTS TypeOK NeverInvents GlobalsAreFound ReportsTypos ReportIsCurrent TablesAreFixpoint
CHECK_DEADLOCK TRUE
