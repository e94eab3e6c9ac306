CONSTANTS
    a = a
    b = b
    c = c
    d = d
    x = x
    y = y
    z = z
    pkg = pkg
    lib = lib
    rel = rel
    fs = fs
    css = css
    G = G
    Files = {a, b, c}
    Specifiers = {pkg, lib, rel, fs, css}
    Relative = {rel}
    Special = {fs}
    Wildcard = {css}
    Names = {x, y, z}
    Default = z
    Globals = {G}
    CycleBounds <- Usual
    Projects <- RacingProjects
    w1 = w1
    w2 = w2
    Workers = {w1, w2}
SPECIFICATION FairSpec
INVARIANTS OneSnapshot
PROPERTIES LayeredSpec Terminates
CHECK_DEADLOCK TRUE
