----------------------------- MODULE MCServePrompt -----------------------------
(***************************************************************************)
(* ServePrompt on small catalogs.  A word is one character, as the signs   *)
(* of patterns are; a sentence is as long as two references.               *)
(***************************************************************************)
EXTENDS ServePrompt

CONSTANTS a, b, c, home, abroad, old, new, es, word, sentence,
          dollar, ampersand, backtick, apostrophe

To(p) == [project |-> NULL, prompt |-> p, tag |-> NULL, language |-> NULL]

Only(text) == <<[tag |-> new, active |-> FALSE, text |-> text]>>

TextsOf(tokens, n) == BoundedSeq(tokens, n)

MCLengthOf == [l \in Literals |-> IF l = sentence THEN 4 ELSE 1]

AtHome == [p \in Prompts |-> home]

\* Every text of at most three tokens for a, two for b, one for c, and some with a
\* pattern, or with a dollar that is none or becomes one when it is nested.
Mixed ==
    {[p \in Prompts |-> CASE p = a -> Only(ta) [] p = b -> Only(tb) [] p = c -> Only(tc)] :
        ta \in TextsOf({word, To(b), To(c)}, 3),
        tb \in TextsOf({word, sentence, To(a), To(c)}, 2) \cup
               {<<dollar, word>>, <<dollar, dollar>>, <<dollar, apostrophe>>, <<dollar, To(c)>>},
        tc \in TextsOf({word, sentence, To(a), To(b)}, 1) \cup {<<dollar, word>>, <<dollar, ampersand>>, <<backtick>>}}

\* Two projects, two versions of b of which either may be the active one, and
\* references with project, tag and language.
Tagged(r, tag) == [r EXCEPT !.tag = tag]

In(r, project) == [r EXCEPT !.project = project]

AwayHome == [p \in Prompts |-> IF p = c THEN abroad ELSE home]

Across ==
    {[p \in Prompts |-> CASE p = a -> Only(ta) [] p = b -> vb [] p = c -> vc] :
        ta \in TextsOf({To(b), Tagged(To(b), old), In(To(c), abroad)}, 2),
        vb \in {<<[tag |-> new, active |-> FALSE, text |-> <<To(c)>>],
                  [tag |-> old, active |-> active, text |-> <<In(To(c), abroad)>>]>> :
                   active \in BOOLEAN} \cup {Only(<<To(b)>>)},
        vc \in {<<>>, Only(<<sentence, To(a)>>), Only(<<In(To(b), home)>>),
               Only(<<[To(b) EXCEPT !.language = es]>>)}}
===============================================================================
