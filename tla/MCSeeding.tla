------------------------------- MODULE MCSeeding -------------------------------
(***************************************************************************)
(* Seeding with one prompt and one asset that both examples have, and one  *)
(* of each that only one of them has.                                      *)
(***************************************************************************)
EXTENDS Seeding

MCPrompts ==
    [base |-> {}, codegen |-> {"system-base", "guard-codegen"},
     invoice |-> {"system-base"}]

MCAssets ==
    [base |-> {}, codegen |-> {"response-format", "user-code-request"},
     invoice |-> {"response-format"}]
===============================================================================
