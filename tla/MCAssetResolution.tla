--------------------------- MODULE MCAssetResolution ---------------------------
(***************************************************************************)
(* resolveAssets on texts of up to two tokens, an asset with up to two     *)
(* versions and one that is missing, and two names for variables.  Some    *)
(* values hold patterns, an escaped dollar or the placeholder itself.      *)
(***************************************************************************)
EXTENDS AssetResolution

CONSTANTS x, y, word, other, one, two, es, dollar, ampersand, backtick, apostrophe

Token(kind, name, tag) == [kind |-> kind, name |-> name, tag |-> tag, padded |-> FALSE]

Tokens ==
    {word, Token("asset", x, None), Token("asset", x, one), Token("asset", y, two),
     Token("variable", y, None), Token("plain", x, None), Token("plain", y, None),
     [Token("asset", x, None) EXCEPT !.padded = TRUE],
     [Token("plain", y, None) EXCEPT !.padded = TRUE]}

Contents == {<<other>>, <<Token("variable", y, None)>>, <<Token("plain", y, None), other>>,
             <<dollar, dollar>>, <<dollar, ampersand>>}

VersionOf(tag, active, value, spanish) ==
    [tag |-> tag, active |-> active, value |-> value, translations |-> [l \in AssetLanguages |-> spanish]]

\* None, one, or two versions with the older or none of them active.
Histories ==
    {<<>>} \cup
    {<<VersionOf(two, FALSE, v, spanish), VersionOf(one, active, w, None)>> :
        v \in Contents, w \in {<<other>>, <<word>>}, spanish \in {None, <<word>>}, active \in BOOLEAN}

MCInputs ==
    [text : BoundedSeq(Tokens, 2),
     assets : {[n \in Names |-> IF n = x THEN h ELSE k] :
                  h \in Histories, k \in {<<>>, <<VersionOf(two, TRUE, <<Token("asset", x, None)>>, None)>>}},
     language : {None, es},
     variables : {[n \in Names |-> IF n = x THEN v ELSE w] :
                  v \in {None, <<other>>}, w \in {None, <<word>>, <<Token("plain", x, None)>>,
                                    <<dollar, dollar, ampersand>>, <<dollar, apostrophe>>}}]
===============================================================================
