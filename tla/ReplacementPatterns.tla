-------------------------- MODULE ReplacementPatterns --------------------------
(***************************************************************************)
(* String.prototype.replace of JavaScript, as far as serve-prompt relies   *)
(* on it: a replacement that is a string is not inserted as it stands.     *)
(* Two dollars mean one, and a dollar before an ampersand, a backtick or   *)
(* an apostrophe means the match, what stands before it and what stands    *)
(* behind it.  The searches capture no groups, so that every other dollar  *)
(* means itself.                                                           *)
(*                                                                         *)
(* A replacement is a sequence of tokens; these four are one character     *)
(* each, and no other token has one of them within.                        *)
(***************************************************************************)
EXTENDS Naturals, SequencesExt

CONSTANTS Dollar, Ampersand, Backtick, Apostrophe

Signs == {Dollar, Ampersand, Backtick, Apostrophe}

ASSUME SignsAssumption ==
    /\ Dollar \notin {Ampersand, Backtick, Apostrophe}
    /\ Ampersand \notin {Backtick, Apostrophe}
    /\ Backtick # Apostrophe

\* How many dollars stand directly before token i.
DollarsBefore(u, i) == Cardinality({k \in 1 .. (i - 1) : \A j \in k .. (i - 1) : u[j] = Dollar})

\* Dollars are read in pairs from the left; this one begins a pattern.
Active(u, i) ==
    /\ u[i] = Dollar /\ i + 1 \in DOMAIN u /\ u[i + 1] \in Signs
    /\ DollarsBefore(u, i) % 2 = 0

\* What is inserted for the match, between what stands before and behind it.
Reading(u, match, before, after) ==
    FlattenSeq([i \in DOMAIN u |->
        CASE Active(u, i) -> (CASE u[i + 1] = Dollar     -> <<Dollar>>
                                [] u[i + 1] = Ampersand  -> match
                                [] u[i + 1] = Backtick   -> before
                                [] u[i + 1] = Apostrophe -> after)
          [] i > 1 /\ Active(u, i - 1) -> <<>>
          [] OTHER -> <<u[i]>>])

\* Means the same wherever it is inserted.
SelfContained(u) == \A i \in DOMAIN u : Active(u, i) => u[i + 1] = Dollar

Unescaped(u) == Reading(u, <<>>, <<>>, <<>>)
===============================================================================
