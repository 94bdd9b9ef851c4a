------------------------------ MODULE ServePrompt ------------------------------
(***************************************************************************)
(* ServePromptService (src/src/serve-prompt): executePromptVersion and     *)
(* resolvePromptReferences, which call each other until every reference    *)
(*                                                                         *)
(*     {{prompt:project/name:tag}}                                         *)
(*                                                                         *)
(* of a prompt's text is replaced by the text of the prompt it names.      *)
(*                                                                         *)
(* A text is a sequence of tokens: literals and references.  The service   *)
(* searches with a regular expression whose lastIndex counts characters,   *)
(* keeps lastIndex while it splices in a text of another length, and       *)
(* splices it over the FIRST occurrence of the reference; so tokens have   *)
(* lengths here.  String.replace reads patterns in what is spliced in      *)
(* (module ReplacementPatterns).  The texts of the catalog stand for what  *)
(* resolveAssets makes of them (module AssetResolution).                   *)
(*                                                                         *)
(* The recursion is a stack of frames, one per executePromptVersion in     *)
(* progress.  Each frame read the catalog once, when it was entered, and   *)
(* other services may change the catalog before the next one reads it.     *)
(***************************************************************************)
EXTENDS ReplacementPatterns

CONSTANTS
    Prompts,
    Projects,
    Home,           \* the project of each prompt: prompt ids are unique
    Tags,           \* version tags, "latest" excluded
    Languages,      \* language suffixes of references
    Literals,       \* pieces of text without placeholder, the signs of patterns among them
    LengthOf,       \* their lengths
    RefLength,      \* length of a reference
    MaxDepth,       \* 5 in the code
    Catalogs,       \* the catalogs considered
    Editable,       \* may the catalog change during a request?
    NULL

Reference == [project  : Projects \cup {NULL},
              prompt   : Prompts,
              tag      : Tags \cup {NULL},         \* NULL is "latest"
              language : Languages \cup {NULL}]

Text == Seq(Literals \cup Reference)

\* A prompt's versions, the newest first; active is their status.
Versions == Seq([tag : Tags, active : BOOLEAN, text : Text])

ASSUME HomeAssumption == Home \in [Prompts -> Projects]
ASSUME LengthAssumption == RefLength \in Nat \ {0} /\ LengthOf \in [Literals -> Nat]
ASSUME DepthAssumption == MaxDepth \in Nat \ {0}
ASSUME LiteralAssumption == Literals \cap Reference = {} /\ Signs \subseteq Literals
ASSUME CatalogAssumption == Catalogs \subseteq [Prompts -> Versions]

VARIABLES
    catalog,    \* [Prompts -> Versions]; a prompt without versions is as good as none
    stack,      \* the calls of executePromptVersion in progress, the root first
    failed,     \* history: references whose nested call failed unexpectedly
    outcome     \* the last answer, NULL while a request runs

vars == <<catalog, stack, failed, outcome>>

Frame == [ref     : Reference,      \* what the caller replaces (root: what was asked)
          project : Projects,
          text    : Text,           \* currentText
          pos     : Nat,            \* promptRefRegex.lastIndex
          seen    : SUBSET (Projects \X Prompts),   \* processedPrompts
          errors  : SUBSET Reference]   \* the errors in resolvedPromptsMetadata

Statuses == {"ok", "raw", "circular", "tooDeep", "missing", "error"}

Outcome == [status : Statuses, asked : Reference, text : Text, errors : SUBSET Reference]

Init ==
    /\ catalog \in Catalogs
    /\ stack = <<>>
    /\ failed = {}
    /\ outcome = NULL

-------------------------------------------------------------------------------
(***************************************************************************)
(* Looking up a version.                                                   *)
(***************************************************************************)
\* Where the version meant by r stands among the prompt's versions: the first
\* of these.  Whatever follows the name is the tag, so a language makes it a
\* tag that no version has.
Candidates(r) ==
    LET versions == catalog[r.prompt]
        active == {i \in DOMAIN versions : versions[i].active}
    IN  IF r.language # NULL THEN {}
        ELSE IF r.tag # NULL THEN {i \in DOMAIN versions : versions[i].tag = r.tag}
        ELSE IF active # {} THEN active
        ELSE DOMAIN versions

TextOf(r) == catalog[r.prompt][Min(Candidates(r))].text

\* executePromptVersion finds a version when called for this project.
Found(project, r) == project = Home[r.prompt] /\ Candidates(r) # {}

-------------------------------------------------------------------------------
(***************************************************************************)
(* Searching the text of a frame.                                          *)
(***************************************************************************)
IsReference(token) == token \notin Literals

Width(token) == IF IsReference(token) THEN RefLength ELSE LengthOf[token]

\* The offset of token i.
Start(text, i) ==
    LET before[n \in Nat] == IF n = 0 THEN 0 ELSE before[n - 1] + Width(text[n])
    IN  before[i - 1]

\* The references that begin at or after lastIndex.
Pending(frame) ==
    {i \in DOMAIN frame.text :
        IsReference(frame.text[i]) /\ Start(frame.text, i) >= frame.pos}

Top == Last(stack)

Match == Min(Pending(Top))

Ref == Top.text[Match]

ProjectOf(frame, r) == IF r.project = NULL THEN frame.project ELSE r.project

Key(frame, r) == <<ProjectOf(frame, r), r.prompt>>

\* The frame once its next reference has been taken up.
Advanced ==
    [Top EXCEPT !.pos = Start(Top.text, Match) + RefLength,
                !.seen = @ \cup {Key(Top, Ref)}]

Searching == stack # <<>> /\ Pending(Top) # {}

Circular == Key(Top, Ref) \in Top.seen

\* Mutant of TooDeep: one level less.
TooDeepEarly == Len(stack) + 1 >= MaxDepth

\* currentDepth + 1 of the nested call is the number of calls in progress.
TooDeep == Len(stack) >= MaxDepth

\* Mutant of Child: starts with an empty processedPrompts.
ForgetfulChild(r) ==
    [ref |-> r, project |-> Home[r.prompt], text |-> TextOf(r), pos |-> 0,
     seen |-> {}, errors |-> {}]

\* The nested call gets a copy of the set of prompts seen so far.
Child(r) ==
    [ref |-> r, project |-> Home[r.prompt], text |-> TextOf(r), pos |-> 0,
     seen |-> Advanced.seen, errors |-> {}]

-------------------------------------------------------------------------------
(***************************************************************************)
(* The request, and executePromptVersion for the prompt it names.          *)
(***************************************************************************)
Answer(status, r, text, errors) ==
    [status |-> status, asked |-> r, text |-> text, errors |-> errors]

Request(r) ==
    /\ stack = <<>>
    /\ Found(r.project, r)
    /\ stack' = <<[ref |-> r, project |-> r.project, text |-> TextOf(r), pos |-> 0,
                   seen |-> {}, errors |-> {}]>>
    /\ failed' = {}
    /\ outcome' = NULL
    /\ UNCHANGED catalog

\* With processed = false the text is handed out as it stands.
RequestRaw(r) ==
    /\ stack = <<>>
    /\ Found(r.project, r)
    /\ outcome' = Answer("raw", r, TextOf(r), {})
    /\ failed' = {}
    /\ UNCHANGED <<catalog, stack>>

\* The prompt or its version does not exist, or the database does not answer.
RequestRefused(r) ==
    /\ stack = <<>>
    /\ \/ ~Found(r.project, r) /\ outcome' = Answer("missing", r, <<>>, {})
       \/ outcome' = Answer("error", r, <<>>, {})
    /\ failed' = {}
    /\ UNCHANGED <<catalog, stack>>

\* An HttpException leaves every call in progress.
Refuse(status) ==
    /\ outcome' = Answer(status, Head(stack).ref, <<>>, {})
    /\ stack' = <<>>
    /\ UNCHANGED <<catalog, failed>>

-------------------------------------------------------------------------------
(***************************************************************************)
(* resolvePromptReferences: one turn of its loop.                          *)
(***************************************************************************)
RefuseCircular == Searching /\ Circular /\ Refuse("circular")

RefuseDepth == Searching /\ ~Circular /\ TooDeep /\ Refuse("tooDeep")

RefuseMissing ==
    /\ Searching /\ ~Circular /\ ~TooDeep
    /\ ~Found(ProjectOf(Top, Ref), Ref)
    /\ Refuse("missing")

Enter ==
    /\ Searching /\ ~Circular /\ ~TooDeep
    /\ Found(ProjectOf(Top, Ref), Ref)
    /\ stack' = Append(Front(stack) \o <<Advanced>>, Child(Ref))
    /\ UNCHANGED <<catalog, failed, outcome>>

\* The nested call's reads fail with something else than an HttpException: it
\* is noted in the metadata and the reference stays in the text.
NestedCallFails ==
    /\ Searching /\ ~Circular /\ ~TooDeep
    /\ stack' = Front(stack) \o <<[Advanced EXCEPT !.errors = @ \cup {Ref}]>>
    /\ failed' = failed \cup {Ref}
    /\ UNCHANGED <<catalog, outcome>>

\* Mutant of Splice: the search text is cut off behind the replaced reference.
SpliceAndCut(text, r, replacement) ==
    SubSeq(text, 1, SelectInSeq(text, LAMBDA token : token = r) - 1) \o replacement

\* String.replace: the first occurrence, wherever the search found it, by what
\* is read in the replacement.
Splice(text, r, replacement) ==
    LET i == SelectInSeq(text, LAMBDA token : token = r)
        before == SubSeq(text, 1, i - 1)
        after == SubSeq(text, i + 1, Len(text))
    IN  before \o Reading(replacement, <<r>>, before, after) \o after

\* Mutant of Resumed: the nested call's metadata is dropped.
ResumedQuietly(caller, callee) ==
    [caller EXCEPT !.text = Splice(@, callee.ref, callee.text)]

\* What the caller goes on with when the nested call has returned.
Resumed(caller, callee) ==
    [caller EXCEPT !.text = Splice(@, callee.ref, callee.text),
                   !.errors = @ \cup callee.errors]

Return ==
    /\ Len(stack) > 1
    /\ Pending(Top) = {}
    /\ stack' = Front(Front(stack)) \o <<Resumed(Last(Front(stack)), Top)>>
    /\ UNCHANGED <<catalog, failed, outcome>>

Finish ==
    /\ Len(stack) = 1
    /\ Pending(Top) = {}
    /\ outcome' = Answer("ok", Top.ref, Top.text, Top.errors)
    /\ stack' = <<>>
    /\ UNCHANGED <<catalog, failed>>

\* Another request writes to the versions of one prompt.
Edit ==
    /\ Editable
    /\ stack # <<>>
    /\ catalog' \in Catalogs
    /\ \E p \in Prompts : catalog' = [catalog EXCEPT ![p] = catalog'[p]]
    /\ UNCHANGED <<stack, failed, outcome>>

Next ==
    \/ \E project \in Projects, p \in Prompts, tag \in Tags \cup {NULL} :
          LET r == [project |-> project, prompt |-> p, tag |-> tag, language |-> NULL]
          IN  Request(r) \/ RequestRaw(r) \/ RequestRefused(r)
    \/ RefuseCircular
    \/ RefuseDepth
    \/ RefuseMissing
    \/ Enter
    \/ NestedCallFails
    \/ Return
    \/ Finish
    \/ Edit

Spec == Init /\ [][Next]_vars

-------------------------------------------------------------------------------
(***************************************************************************)
(* What a text should become: references replaced by what they stand for,  *)
(* level by level, for at most n levels below the first.                   *)
(***************************************************************************)
Expansion[n \in Nat] ==
    [r \in Reference |->
        IF Candidates(r) = {} THEN <<r>>
        ELSE LET text == TextOf(r)
             IN  FlattenSeq([i \in DOMAIN text |->
                    IF n = 0 \/ ~IsReference(text[i]) THEN <<text[i]>>
                                                      ELSE Expansion[n - 1][text[i]]])]

\* The references met on the way, a reference met twice being listed twice.
Visits[n \in Nat] ==
    [r \in Reference |->
        IF Candidates(r) = {} THEN <<r>>
        ELSE LET text == TextOf(r)
             IN  <<r>> \o FlattenSeq([i \in DOMAIN text |->
                    IF ~IsReference(text[i]) THEN <<>>
                    ELSE IF n = 0 THEN <<text[i]>> ELSE Visits[n - 1][text[i]]])]

\* A path without repetition is at most this long.
Depth == Cardinality(Prompts)

Expanded(text) ==
    FlattenSeq([i \in DOMAIN text |->
        IF IsReference(text[i]) THEN Expansion[Depth][text[i]] ELSE <<text[i]>>])

Complete(r) == \A visited \in Range(Visits[Depth][r]) : Candidates(visited) # {}

\* Nothing is left to expand after as many levels as there are prompts.
Acyclic(r) == \A token \in Range(Expansion[Depth][r]) : IsReference(token) => Candidates(token) = {}

TotalWidth(text) == Start(text, Len(text) + 1)

\* Each dollar of the text means itself, whatever its references become: a word
\* follows that makes no pattern of it.
Inert(text) ==
    \A i \in DOMAIN text : text[i] = Dollar =>
        i + 1 \in DOMAIN text /\ text[i + 1] \notin Signs /\ ~IsReference(text[i + 1])

\* The texts that may be nested in the one r stands for.
InertBelow(r) ==
    \A token \in Range(TextOf(r)) : IsReference(token) =>
        \A visited \in Range(Visits[Depth][token]) :
            Candidates(visited) # {} => Inert(TextOf(visited))

\* A prompt that names each other prompt once, with nested texts that hold no
\* patterns and are never shorter than the reference they replace, in one project
\* and within the depth.
Simple(r) ==
    LET visits == Visits[Depth][r]
        prompts == [i \in DOMAIN visits |-> visits[i].prompt]
    IN  /\ Complete(r)
        /\ InertBelow(r)
        /\ IsInjective(prompts)
        /\ Len(visits) <= MaxDepth
        /\ \A i \in DOMAIN visits :
              /\ Home[visits[i].prompt] = Home[r.prompt]
              /\ visits[i].project \in {NULL, Home[r.prompt]}
              /\ i > 1 => TotalWidth(Expansion[Depth][visits[i]]) >= RefLength

-------------------------------------------------------------------------------
(***************************************************************************)
(* Safety.                                                                 *)
(***************************************************************************)
\* The recursion is bounded, whatever the texts say and however they change
\* meanwhile: by the depth, and by no prompt being nested in itself (the root
\* is not counted, it may occur once more).
BoundedDepth ==
    /\ Len(stack) <= MaxDepth
    /\ \A i, j \in 2 .. Len(stack) : i # j => stack[i].ref.prompt # stack[j].ref.prompt

\* An answer reports every nested prompt that could not be read, however deep
\* it was nested (the catch clause swallows the error).
NoSilentFailure ==
    outcome # NULL /\ outcome.status = "ok" => outcome.errors = failed

\* While nobody edits the catalog, an answer is a correct text, perhaps not
\* resolved all the way, or not at all: what is still missing completes it to the
\* expansion of the prompt that was asked for.  This takes nested texts without
\* patterns, others do not come out as they are.
SubstitutionSound ==
    outcome # NULL /\ outcome.status \in {"ok", "raw"}
      /\ Acyclic(outcome.asked) /\ InertBelow(outcome.asked)
        => Expanded(outcome.text) = Expansion[Depth][outcome.asked]

\* While nobody edits the catalog and the database answers, a simple prompt that
\* is to be processed is served, and completely.
SimpleIsServed ==
    outcome # NULL /\ Simple(outcome.asked) /\ failed = {} /\ outcome.status \notin {"error", "raw"}
        => /\ outcome.status = "ok"
           /\ outcome.text = Expansion[Depth][outcome.asked]
===============================================================================
