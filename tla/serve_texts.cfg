\* Every small text, nobody edits: what is answered is a correct text.
SPECIFICATION Spec
CONSTANTS
    NULL = NULL
    a = a
    b = b
    c = c
    home = home
    abroad = abroad
    old = old
    new = new
    es = es
    word = word
    sentence = sentence
    dollar = dollar
    ampersand = ampersand
    backtick = backtick
    apostrophe = apostrophe
    Dollar = dollar
    Ampersand = ampersand
    Backtick = backtick
    Apostrophe = apostrophe
    Prompts = {a, b, c}
    Projects = {home}
    Tags = {old, new}
    Languages = {es}
    Literals = {word, sentence, dollar, ampersand, backtick, apostrophe}
    RefLength = 2
    MaxDepth = 3
    Editable = FALSE
    Home <- AtHome
    LengthOf <- MCLengthOf
    Catalogs <- Mixed
INVARIANTS
    SubstitutionSound
    SimpleIsServed
