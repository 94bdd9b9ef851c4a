\* Every text of at most two placeholders, before and after each pass.
SPECIFICATION ResolutionSpec
CHECK_DEADLOCK FALSE
CONSTANTS
    None = None
    x = x
    y = y
    word = word
    other = other
    one = one
    two = two
    es = es
    dollar = dollar
    ampersand = ampersand
    backtick = backtick
    apostrophe = apostrophe
    Dollar = dollar
    Ampersand = ampersand
    Backtick = backtick
    Apostrophe = apostrophe
    Words = {word, other, dollar, ampersand, backtick, apostrophe}
    Names = {x, y}
    AssetTags = {one, two}
    AssetLanguages = {es}
    Inputs <- MCInputs
INVARIANTS
    FlatIsParallel
    NothingIsForgotten

