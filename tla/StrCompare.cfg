\* Two cpus that compare while a third does.
SPECIFICATION CompareSpec
CONSTANTS
    Cpu = {c1, c2, c3}
    Char = {"a", "b"}
    Rule <- MCRule
    String <- MCString
SYMMETRY Symmetry
INVARIANTS CompareTypeOK MatchesAreTrue MissesAreTrue BufIsClean
