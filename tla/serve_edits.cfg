\* Two projects, versions, and a catalog that changes between two reads.
SPECIFICATION Spec
CONSTANTS
    NULL = NULL
    a = a
    b = b
    c = c
    home = home
    abroad = abroad
    old = old
    new = new
    es = es
    word = word
    sentence = sentence
    dollar = dollar
    ampersand = ampersand
    backtick = backtick
    apostrophe = apostrophe
    Dollar = dollar
    Ampersand = ampersand
    Backtick = backtick
    Apostrophe = apostrophe
    Prompts = {a, b, c}
    Projects = {home, abroad}
    Tags = {old, new}
    Languages = {es}
    Literals = {word, sentence, dollar, ampersand, backtick, apostrophe}
    RefLength = 2
    MaxDepth = 3
    Editable = TRUE
    Home <- AwayHome
    LengthOf <- MCLengthOf
    Catalogs <- Across
INVARIANTS
    BoundedDepth
    NoSilentFailure
