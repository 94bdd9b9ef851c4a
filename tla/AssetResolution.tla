---------------------------- MODULE AssetResolution ----------------------------
(***************************************************************************)
(* ServePromptService.resolveAssets (src/src/serve-prompt): the asset,     *)
(* variable and plain placeholders of one text,                            *)
(*                                                                         *)
(*     {{asset:name:tag}}      {{variable:name}}      {{name}}             *)
(*                                                                         *)
(* are replaced in three passes, each by global string replacements over   *)
(* the whole text, one placeholder after the other.  What is inserted may  *)
(* hold placeholders again; whether a later replacement meets them is a    *)
(* matter of order.  In the first two passes it may also hold patterns     *)
(* that String.replace reads (module ReplacementPatterns).                 *)
(*                                                                         *)
(* References to prompts count as plain placeholders here.  Blanks inside  *)
(* the braces are trimmed off the name, but the first two passes put the   *)
(* placeholder together again without them and search for that.            *)
(*                                                                         *)
(* No name here is one of ServePrompt's, so that one module can prove      *)
(* theorems about both, which share their lemmas.                          *)
(***************************************************************************)
EXTENDS ReplacementPatterns

CONSTANTS
    Words,      \* pieces of text without placeholder, the signs of patterns among them
    Names,      \* of assets and of variables
    AssetTags,  \* version tags of assets
    AssetLanguages,
    Inputs,     \* the calls considered
    None

Placeholder ==
    {p \in [kind : {"asset", "variable", "plain"},
            name : Names,
            tag  : AssetTags \cup {None},
            padded : BOOLEAN] : p.kind # "asset" => p.tag = None}

Content == Seq(Words \cup Placeholder)

\* A version of an asset; a translation is None where there is none.
Version == [tag : AssetTags, active : BOOLEAN, value : Content,
            translations : [AssetLanguages -> Content \cup {None}]]

Input == [text      : Content,
          assets    : [Names -> Seq(Version)],      \* the newest first
          language  : AssetLanguages \cup {None},
          variables : [Names -> Content \cup {None}]]  \* None: not provided

ASSUME InputAssumption == Inputs \subseteq Input
ASSUME WordsAssumption == Words \cap Placeholder = {} /\ Signs \subseteq Words
ASSUME NoneAssumption == None \notin Content

VARIABLES
    input,
    pass,           \* the kind of placeholder that is being replaced
    source,         \* the text whose placeholders are the matches of the pass
    at,             \* where the next match is looked for
    text,           \* processedText
    used,           \* resolvedAssetsMetadata: placeholder and index of version
    unresolved      \* unresolvedVariables

resolution == <<input, pass, source, at, text, used, unresolved>>

ResolutionInit ==
    /\ input \in Inputs
    /\ pass = "asset"
    /\ source = input.text
    /\ at = 1
    /\ text = input.text
    /\ used = {}
    /\ unresolved = {}

-------------------------------------------------------------------------------
IsA(kind, token) == token \notin Words /\ token.kind = kind

Provided(token) == input.variables[token.name] # None

Plainly(token) == [token EXCEPT !.padded = FALSE]

\* What an occurrence at place i of s becomes.
Inserted(s, i, replacement) ==
    Reading(replacement, <<s[i]>>, SubSeq(s, 1, i - 1), SubSeq(s, i + 1, Len(s)))

\* Mutant of Replace: the regular expression has lost its g.
ReplaceFirst(s, token, replacement) ==
    LET i == SelectInSeq(s, LAMBDA t : t = token)
    IN  IF i = 0 THEN s
        ELSE SubSeq(s, 1, i - 1) \o Inserted(s, i, replacement) \o SubSeq(s, i + 1, Len(s))

\* replace with a global regular expression: every occurrence, what is inserted
\* not being searched, nor seen by the patterns of the next one.
Replace(s, token, replacement) ==
    FlattenSeq([i \in DOMAIN s |-> IF s[i] = token THEN Inserted(s, i, replacement) ELSE <<s[i]>>])

\* split and join: every occurrence, and what is inserted is not read.
ReplaceVerbatim(s, token, replacement) ==
    FlattenSeq([i \in DOMAIN s |-> IF s[i] = token THEN replacement ELSE <<s[i]>>])

\* Mutant of Chosen: an unknown tag falls back to the newest version.
ChosenNewest(spec) ==
    LET versions == input.assets[spec.name]
        tagged == {i \in DOMAIN versions : versions[i].tag = spec.tag}
    IN  Min(IF tagged # {} THEN tagged ELSE DOMAIN versions)

\* The version with the tag, else the newest active one, else the newest.
Chosen(spec) ==
    LET versions == input.assets[spec.name]
        tagged == {i \in DOMAIN versions : versions[i].tag = spec.tag}
        active == {i \in DOMAIN versions : versions[i].active}
    IN  Min(IF tagged # {} THEN tagged
            ELSE IF active # {} THEN active
            ELSE DOMAIN versions)

ValueOf(spec) ==
    LET version == input.assets[spec.name][Chosen(spec)]
    IN  IF input.language # None /\ version.translations[input.language] # None
        THEN version.translations[input.language]
        ELSE version.value

-------------------------------------------------------------------------------
(***************************************************************************)
(* The passes.                                                             *)
(***************************************************************************)
Current == source[at]

Unfinished == pass # "done" /\ at <= Len(source)

\* The token is a match of the pass.
Reached(kind) == Unfinished /\ pass = kind /\ IsA(kind, Current)

\* The same placeholder was met before: what the first two passes replace are the
\* keys of an object, in the order in which they were first set.
Again == \E i \in 1 .. (at - 1) : IsA(pass, source[i]) /\ Plainly(source[i]) = Plainly(Current)

Resolvable(token) == ~Provided(token) /\ input.assets[token.name] # <<>>

PassOver ==
    /\ Unfinished /\ ~IsA(pass, Current)
    /\ at' = at + 1
    /\ UNCHANGED <<input, pass, source, text, used, unresolved>>

\* A variable of the same name hides an asset from the search; an asset that
\* is missing, or has no version, is only logged.
SkipAsset ==
    /\ Reached("asset") /\ ~Resolvable(Current)
    /\ at' = at + 1
    /\ UNCHANGED <<input, pass, source, text, used, unresolved>>

ReplaceAsset ==
    /\ Reached("asset") /\ Resolvable(Current)
    /\ text' = IF Again THEN text ELSE Replace(text, Plainly(Current), ValueOf(Current))
    /\ used' = used \cup {<<Plainly(Current), Chosen(Current)>>}
    /\ at' = at + 1
    /\ UNCHANGED <<input, pass, source, unresolved>>

ReplaceVariable ==
    /\ Reached("variable") /\ Provided(Current)
    /\ text' = IF Again THEN text ELSE Replace(text, Plainly(Current), input.variables[Current.name])
    /\ at' = at + 1
    /\ UNCHANGED <<input, pass, source, used, unresolved>>

\* As it is written, and once for every match.
ReplacePlain ==
    /\ Reached("plain") /\ Provided(Current)
    /\ text' = ReplaceVerbatim(text, Current, input.variables[Current.name])
    /\ at' = at + 1
    /\ UNCHANGED <<input, pass, source, used, unresolved>>

Report ==
    /\ Reached("variable") \/ Reached("plain")
    /\ ~Provided(Current)
    /\ unresolved' = unresolved \cup {Current.name}
    /\ at' = at + 1
    /\ UNCHANGED <<input, pass, source, text, used>>

\* The variables are looked for in the text as it was handed in, the plain
\* placeholders in what the passes before have made of it.
NextPass ==
    /\ pass # "done" /\ at > Len(source)
    /\ pass' = CASE pass = "asset" -> "variable"
                 [] pass = "variable" -> "plain"
                 [] pass = "plain" -> "done"
    /\ source' = IF pass = "variable" THEN text ELSE source
    /\ at' = 1
    /\ UNCHANGED <<input, text, used, unresolved>>

ResolutionNext == PassOver \/ SkipAsset \/ ReplaceAsset \/ ReplaceVariable \/ ReplacePlain \/ Report \/ NextPass

ResolutionSpec == ResolutionInit /\ [][ResolutionNext]_resolution

-------------------------------------------------------------------------------
(***************************************************************************)
(* What the text should become.                                            *)
(***************************************************************************)
\* The values that the call may insert.
Values ==
    Range(input.variables) \cup
    UNION {{v.value} \cup Range(v.translations) : v \in UNION {Range(input.assets[n]) : n \in Names}}

\* No value has a pattern that brings a part of the text along.
SelfContainedValues == \A value \in Values \ {None} : SelfContained(value)

\* Such values, without placeholders, no blanks in the braces, and no name that is
\* both an asset's and a variable's.
Flat ==
    /\ SelfContainedValues
    /\ \A value \in Values \ {None} : Range(value) \subseteq Words
    /\ \A token \in Range(input.text) : token \notin Words => ~token.padded
    /\ \A name \in Names : input.assets[name] = <<>> \/ input.variables[name] = None

\* The newest of the versions that come into question, by the rules in turn.
Preferred(spec) ==
    LET versions == input.assets[spec.name]
        Rank(i) == IF versions[i].tag = spec.tag THEN 0 ELSE IF versions[i].active THEN 1 ELSE 2
    IN  CHOOSE i \in DOMAIN versions : \A j \in DOMAIN versions :
            Rank(i) < Rank(j) \/ (Rank(i) = Rank(j) /\ i <= j)

\* Two dollars in the value of an asset, or of a variable that is asked for as
\* one, come out as one.
Meaning(token) ==
    IF token \in Words THEN <<token>>
    ELSE IF token.kind = "asset"
         THEN IF input.assets[token.name] = <<>> THEN <<token>>
              ELSE LET version == input.assets[token.name][Preferred(token)]
                   IN  IF input.language = None \/ version.translations[input.language] = None
                       THEN Unescaped(version.value)
                       ELSE Unescaped(version.translations[input.language])
    ELSE IF ~Provided(token) THEN <<token>>
    ELSE IF token.kind = "plain" THEN input.variables[token.name]
    ELSE Unescaped(input.variables[token.name])

-------------------------------------------------------------------------------
\* In the usual case the passes and their order do not show: every placeholder
\* has been replaced by its own meaning, all at once, and the names of those
\* that have none are reported.
FlatIsParallel ==
    Flat /\ pass = "done" =>
        /\ text = FlattenSeq([i \in DOMAIN input.text |-> Meaning(input.text[i])])
        /\ unresolved = {token.name : token \in
              {t \in Range(text) : t \notin Words /\ t.kind # "asset"}}

\* In general, with values that hold placeholders: one that the call has a
\* value for does not stay in the text, unless a value has brought it along.  A
\* plain one that stays is reported, also one that an asset has brought along,
\* but for those that the value of a variable brings.  (A value that brings a
\* part of the text along may bring back the very placeholder it stands for.)
NothingIsForgotten ==
    SelfContainedValues /\ pass = "done" =>
        /\ \A token \in Range(input.text) \cap Range(text) :
              \/ token \in Words
              \/ \E value \in Values \ {None} : token \in Range(value)
              \/ token.padded /\ token.kind # "plain"
              \/ token.kind = "asset" /\ (Provided(token) \/ input.assets[token.name] = <<>>)
              \/ token.kind # "asset" /\ ~Provided(token)
        /\ \A token \in Range(text) :
              \/ token \in Words
              \/ token.kind # "plain"
              \/ token.name \in unresolved
              \/ Provided(token)
              \/ \E value \in Range(input.variables) \ {None} : token \in Range(value)
===============================================================================
