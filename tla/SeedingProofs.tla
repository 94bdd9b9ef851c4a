----------------------------- MODULE SeedingProofs -----------------------------
(***************************************************************************)
(* Proofs about Seeding, for any prompts and assets of the examples and    *)
(* any number of mishaps.                                                  *)
(***************************************************************************)
EXTENDS Seeding, TLAPS

(***************************************************************************)
(* The programs.                                                           *)
(***************************************************************************)
\* The phases of each script.
LEMMA Phases ==
    /\ Program["base"] = <<"empty", "project">>
    /\ Len(Program["base"]) = 2
    /\ Program["codegen"] = <<"project", "prompts", "assets">>
    /\ Len(Program["codegen"]) = 3
    /\ Program["invoice"] = <<"project", "prompts", "assets", "translate", "translateAssets">>
    /\ Len(Program["invoice"]) = 5
  BY DEF Program

\* The calls that each phase makes.
LEMMA Bodies ==
    /\ Calls["base"]["empty"] = Emptying
    /\ Len(Emptying) = 14
    /\ Calls["base"]["project"] =
          <<"tenant", "user", "project", "region", "culturalData", "tag", "aiModel", "environment">>
    /\ Calls["codegen"]["project"] =
          <<"tenant", "user", "project", "region", "culturalData", "environment", "aiModel">>
    /\ Calls["invoice"]["project"] =
          <<"findUser", "project", "region", "culturalData", "environment", "aiModel">>
    /\ Calls["codegen"]["prompts"] = <<"prompt", "version", "spanish">>
    /\ Calls["codegen"]["assets"] = <<"asset", "assetVersion", "assetSpanish">>
    /\ Calls["invoice"]["prompts"] = <<"prompt", "version">>
    /\ Calls["invoice"]["assets"] = <<"asset", "assetVersion">>
    /\ Calls["invoice"]["translate"] = <<"translate">>
    /\ Calls["invoice"]["translateAssets"] = <<"translateAsset">>
<1>1. Len(Emptying) = 14
  BY DEF Emptying
<1>2. Calls["base"] = Base /\ Calls["codegen"] = Codegen /\ Calls["invoice"] = Invoice
  BY DEF Calls
<1>3. QED
  BY <1>1, <1>2 DEF Base, Codegen, Invoice

\* Where the project is seeded.
ProjectAt(x) == IF x = "base" THEN 2 ELSE 1

\* Which phase is where, and that each has a call.
LEMMA Shapes ==
    ASSUME NEW x \in Scripts, NEW p \in 1..Len(Program[x])
    PROVE  /\ Program[x][p] = "empty" <=> x = "base" /\ p = 1
           /\ Program[x][p] = "project" <=> p = ProjectAt(x)
           /\ Program[x][p] = "prompts" <=> x \in Examples /\ p = 2
           /\ Program[x][p] = "assets" <=> x \in Examples /\ p = 3
           /\ Program[x][p] = "translate" <=> x = "invoice" /\ p = 4
           /\ Program[x][p] = "translateAssets" <=> x = "invoice" /\ p = 5
           /\ Program[x][p] \in {"empty", "project", "prompts", "assets", "translate", "translateAssets"}
           /\ Len(Program[x]) \in 2..5 /\ x = "base" => Len(Program[x]) = 2
           /\ x \in Examples => Len(Program[x]) >= 3
           /\ Len(Calls[x][Program[x][p]]) \in Nat \ {0}
<1>1. CASE x = "base"
  <2>1. p \in {1, 2}
    BY <1>1, Phases
  <2>2. CASE p = 1
    <3>1. \A q : q = "empty" => Len(Calls[x][q]) = 14
      BY <1>1, Bodies
    <3>2. Program[x][p] = "empty" /\ Len(Program[x]) = 2
      BY <1>1, <2>2, Phases
    <3>3. Len(Calls[x][Program[x][p]]) \in Nat \ {0}
      BY <3>1, <3>2
    <3>4. x \notin Examples /\ p # ProjectAt(x)
      BY <1>1, <2>2 DEF ProjectAt, Examples
    <3>5. QED
      BY <1>1, <2>2, <3>2, <3>3, <3>4
  <2>3. CASE p = 2
    BY <1>1, <2>3, Phases, Bodies DEF ProjectAt, Examples, Scripts
  <2>4. QED
    BY <2>1, <2>2, <2>3
<1>2. CASE x = "codegen"
  <2>1. p \in {1, 2, 3}
    BY <1>2, Phases
  <2>2. CASE p = 1
    BY <1>2, <2>2, Phases, Bodies DEF ProjectAt, Examples, Scripts
  <2>3. CASE p = 2
    BY <1>2, <2>3, Phases, Bodies DEF ProjectAt, Examples, Scripts
  <2>4. CASE p = 3
    BY <1>2, <2>4, Phases, Bodies DEF ProjectAt, Examples, Scripts
  <2>5. QED
    BY <2>1, <2>2, <2>3, <2>4
<1>3. CASE x = "invoice"
  <2>1. p \in {1, 2, 3, 4, 5}
    BY <1>3, Phases
  <2>2. CASE p = 1
    BY <1>3, <2>2, Phases, Bodies DEF ProjectAt, Examples, Scripts
  <2>3. CASE p = 2
    BY <1>3, <2>3, Phases, Bodies DEF ProjectAt, Examples, Scripts
  <2>4. CASE p = 3
    BY <1>3, <2>4, Phases, Bodies DEF ProjectAt, Examples, Scripts
  <2>5. CASE p = 4
    BY <1>3, <2>5, Phases, Bodies DEF ProjectAt, Examples, Scripts
  <2>6. CASE p = 5
    BY <1>3, <2>6, Phases, Bodies DEF ProjectAt, Examples, Scripts
  <2>7. QED
    BY <2>1, <2>2, <2>3, <2>4, <2>5, <2>6
<1>4. QED
  BY <1>1, <1>2, <1>3 DEF Scripts

\* The calls of the loops.
LEMMA Loops ==
    ASSUME NEW x \in Examples, NEW n \in Nat \ {0}
    PROVE  /\ n <= Len(Calls[x]["prompts"]) =>
                 /\ Calls[x]["prompts"][n] = "prompt" <=> n = 1
                 /\ Calls[x]["prompts"][n] = "version" <=> n = 2
                 /\ Calls[x]["prompts"][n] = "spanish" <=> n = 3
           /\ n <= Len(Calls[x]["assets"]) =>
                 /\ Calls[x]["assets"][n] = "asset" <=> n = 1
                 /\ Calls[x]["assets"][n] = "assetVersion" <=> n = 2
                 /\ Calls[x]["assets"][n] = "assetSpanish" <=> n = 3
           /\ Len(Calls[x]["prompts"]) = IF x = "codegen" THEN 3 ELSE 2
           /\ Len(Calls[x]["assets"]) = IF x = "codegen" THEN 3 ELSE 2
<1>1. CASE x = "codegen"
  <2>1. Len(Calls[x]["prompts"]) = 3 /\ Len(Calls[x]["assets"]) = 3
    BY <1>1, Bodies
  <2>2. n <= 3 => n \in {1, 2, 3}
    OBVIOUS
  <2>3. QED
    BY <1>1, <2>1, <2>2, Bodies
<1>2. CASE x = "invoice"
  <2>1. Len(Calls[x]["prompts"]) = 2 /\ Len(Calls[x]["assets"]) = 2
    BY <1>2, Bodies
  <2>2. n <= 2 => n \in {1, 2}
    OBVIOUS
  <2>3. QED
    BY <1>2, <2>1, <2>2, Bodies
<1>3. QED
  BY <1>1, <1>2 DEF Examples, Scripts

(***************************************************************************)
(* Where a run is, and how it goes on.                                     *)
(***************************************************************************)
\* A run is at a call of its program, for an argument that is left.
RunOK ==
    run # NULL =>
        /\ run.phase \in 1..(Len(Program[s]) + 1)
        /\ Running =>
              /\ run.call \in 1..Len(Body)
              /\ run.handled \subseteq Args /\ run.handled # Args
              /\ run.call > 1 => run.arg \in Args \ run.handled
        /\ done = NULL

\* The iteration for the argument ends.
Iterates(a) ==
    /\ run' \in Run /\ run'.script = s
    /\ run'.call = 1
    /\ \/ /\ run.handled \cup {a} # Args
          /\ run'.phase = run.phase /\ run'.handled = run.handled \cup {a}
       \/ /\ run.handled \cup {a} = Args
          /\ run'.phase = run.phase + 1 /\ run'.handled = {}

\* The next call of the iteration is up.
Continues(a) ==
    /\ run' \in Run /\ run'.script = s
    /\ run.call < Len(Body)
    /\ run'.call = run.call + 1 /\ run'.arg = a
    /\ run'.phase = run.phase /\ run'.handled = run.handled

Steps(a) ==
    \/ Continues(a)
    \/ run.call = Len(Body) /\ Iterates(a)

\* The phase of a run that is under way.
LEMMA Under ==
    ASSUME TypeOK, RunOK, Running
    PROVE  /\ run \in Run /\ s \in Scripts /\ run.phase \in 1..Len(Program[s])
           /\ Phase = "empty" <=> s = "base" /\ run.phase = 1
           /\ Phase = "project" <=> run.phase = ProjectAt(s)
           /\ Phase = "prompts" <=> s \in Examples /\ run.phase = 2
           /\ Phase = "assets" <=> s \in Examples /\ run.phase = 3
           /\ Phase = "translate" <=> s = "invoice" /\ run.phase = 4
           /\ Phase = "translateAssets" <=> s = "invoice" /\ run.phase = 5
           /\ Phase \in {"empty", "project", "prompts", "assets", "translate", "translateAssets"}
           /\ Len(Body) \in Nat \ {0}
           /\ run.call \in 1..Len(Body)
           /\ Len(Program[s]) \in 2..5
<1>1. run \in Run /\ s \in Scripts
  BY DEF TypeOK, Run, s, Running
<1>2. Len(Program[s]) \in 2..5
  BY <1>1, Phases DEF Scripts
<1>3. run.phase \in 1..Len(Program[s])
  BY <1>1, <1>2 DEF RunOK, Running, Run
<1>4. /\ Phase = "empty" <=> s = "base" /\ run.phase = 1
      /\ Phase = "project" <=> run.phase = ProjectAt(s)
      /\ Phase = "prompts" <=> s \in Examples /\ run.phase = 2
      /\ Phase = "assets" <=> s \in Examples /\ run.phase = 3
      /\ Phase = "translate" <=> s = "invoice" /\ run.phase = 4
      /\ Phase = "translateAssets" <=> s = "invoice" /\ run.phase = 5
      /\ Phase \in {"empty", "project", "prompts", "assets", "translate", "translateAssets"}
  <2>1. PICK x \in Scripts : x = s
    BY <1>1
  <2>2. PICK p \in 1..Len(Program[x]) : p = run.phase
    BY <1>3, <2>1
  <2>3. Phase = Program[x][p]
    BY <2>1, <2>2 DEF Phase
  <2>4. /\ Program[x][p] = "empty" <=> x = "base" /\ p = 1
        /\ Program[x][p] = "project" <=> p = ProjectAt(x)
        /\ Program[x][p] = "prompts" <=> x \in Examples /\ p = 2
        /\ Program[x][p] = "assets" <=> x \in Examples /\ p = 3
        /\ Program[x][p] = "translate" <=> x = "invoice" /\ p = 4
        /\ Program[x][p] = "translateAssets" <=> x = "invoice" /\ p = 5
        /\ Program[x][p] \in {"empty", "project", "prompts", "assets", "translate", "translateAssets"}
    BY Shapes
  <2>5. QED
    BY <2>1, <2>2, <2>3, <2>4
<1>5. Len(Body) \in Nat \ {0}
  BY <1>1, <1>3, Shapes DEF Phase, Body
<1>6. run.call \in 1..Len(Body)
  BY DEF RunOK, Running
<1>7. QED
  BY <1>1, <1>2, <1>3, <1>4, <1>5, <1>6

\* What the phases are repeated for.
LEMMA ArgsAre ==
    ASSUME NEW x \in Scripts
    PROVE  /\ ArgsOf(x, "empty") = {NULL} /\ ArgsOf(x, "project") = {NULL}
           /\ ArgsOf(x, "prompts") = Prompts[x] /\ ArgsOf(x, "assets") = Assets[x]
           /\ ArgsOf(x, "translate") = PromptIds /\ ArgsOf(x, "translateAssets") = Keys
           /\ Prompts[x] \subseteq PromptIds /\ Assets[x] \subseteq Keys
           /\ x \in Examples => Prompts[x] # {} /\ Assets[x] # {}
           /\ Shared \in PromptIds /\ Keys # {}
<1>1. Prompts[x] \subseteq PromptIds /\ Assets[x] \subseteq Keys
  BY DEF PromptIds, Keys
<1>2. Shared \in Prompts["codegen"] /\ Assets["codegen"] # {}
  BY PromptsAssumption DEF Examples, Scripts
<1>3. Shared \in PromptIds /\ Keys # {}
  BY <1>2 DEF PromptIds, Keys, Scripts
<1>4. QED
  BY <1>1, <1>3, PromptsAssumption DEF ArgsOf

\* The arguments of a loop, and of what is no loop.
LEMMA ArgsHere ==
    ASSUME TypeOK, RunOK, Running
    PROVE  /\ Phase \in {"empty", "project"} => Args = {NULL} /\ run.handled = {}
           /\ Phase = "prompts" => Args = Prompts[s] /\ Args \subseteq PromptIds
           /\ Phase = "assets" => Args = Assets[s] /\ Args \subseteq Keys
           /\ Phase = "translate" => Args = PromptIds
           /\ Phase = "translateAssets" => Args = Keys
           /\ Args # {} /\ Args \subseteq PromptIds \cup Keys \cup {NULL}
<1>1. s \in Scripts
  BY Under
<1>2. /\ Phase \in {"empty", "project"} => Args = {NULL}
      /\ Phase = "prompts" => Args = Prompts[s] /\ Args \subseteq PromptIds
      /\ Phase = "assets" => Args = Assets[s] /\ Args \subseteq Keys
      /\ Phase = "translate" => Args = PromptIds
      /\ Phase = "translateAssets" => Args = Keys
  BY <1>1, ArgsAre DEF Args
<1>3. run.handled \subseteq Args /\ run.handled # Args
  BY DEF RunOK, Running
<1>4. Args # {}
  BY <1>3
<1>5. QED
  BY <1>2, <1>3, <1>4, Under

\* Run is a set of records with these fields.
LEMMA RunFields ==
    ASSUME NEW r \in Run
    PROVE  /\ r.script \in Scripts /\ r.phase \in 1..6 /\ r.handled \subseteq PromptIds \cup Keys
           /\ r.call \in Nat \ {0} /\ r.arg \in PromptIds \cup Keys \cup {NULL}
           /\ r.made \subseteq PromptIds /\ r.missed \subseteq PromptIds
  BY DEF Run

\* A record of a run, at another place.
LEMMA Replaced ==
    ASSUME NEW r \in Run, NEW p \in 1..6, NEW h \in SUBSET (PromptIds \cup Keys),
           NEW c \in Nat \ {0}, NEW g \in PromptIds \cup Keys \cup {NULL}
    PROVE  /\ [r EXCEPT !.phase = p, !.handled = h, !.call = c, !.arg = g] \in Run
           /\ [r EXCEPT !.handled = h, !.call = c, !.arg = g] \in Run
<1>1. [r EXCEPT !.phase = p, !.handled = h, !.call = c, !.arg = g] \in Run
  BY DEF Run
<1>2. [r EXCEPT !.handled = h, !.call = c, !.arg = g] \in Run
  BY DEF Run
<1>3. QED
  BY <1>1, <1>2

\* Where the run is after an iteration.
LEMMA PassedIs ==
    ASSUME TypeOK, RunOK, Running, NEW a, Taken(a)
    PROVE  /\ Passed(a) \in Run /\ Passed(a).script = s
           /\ Passed(a).made = run.made /\ Passed(a).missed = run.missed
           /\ Passed(a).call = 1
           /\ \/ /\ run.handled \cup {a} # Args
                 /\ Passed(a).phase = run.phase /\ Passed(a).handled = run.handled \cup {a}
              \/ /\ run.handled \cup {a} = Args
                 /\ Passed(a).phase = run.phase + 1 /\ Passed(a).handled = {}
           /\ a \in Args \ run.handled
<1>1. run \in Run /\ run.phase \in 1..5 /\ run.phase + 1 \in 1..6
  <2>1. PICK n \in 2..5 : n = Len(Program[s])
    BY Under
  <2>2. run \in Run /\ run.phase \in 1..n
    BY <2>1, Under
  <2>3. QED
    BY <2>2
<1>2. a \in Args \ run.handled
  BY Under DEF Taken, RunOK, Running
<1>3. CASE run.handled \cup {a} = Args
  <2>1. Passed(a) = [run EXCEPT !.phase = run.phase + 1, !.handled = {}, !.call = 1, !.arg = NULL]
    BY <1>3 DEF Passed
  <2>2. Passed(a) \in Run
    <3>1. /\ {} \in SUBSET (PromptIds \cup Keys) /\ 1 \in Nat \ {0}
          /\ NULL \in PromptIds \cup Keys \cup {NULL}
      OBVIOUS
    <3>2. [run EXCEPT !.phase = run.phase + 1, !.handled = {}, !.call = 1, !.arg = NULL] \in Run
      BY <1>1, <3>1, Replaced, Zenon
    <3>3. QED
      BY <2>1, <3>2
  <2>3. /\ Passed(a).script = run.script /\ Passed(a).made = run.made /\ Passed(a).missed = run.missed
        /\ Passed(a).call = 1 /\ Passed(a).phase = run.phase + 1 /\ Passed(a).handled = {}
    BY <1>1, <2>1 DEF Run
  <2>4. QED
    BY <1>2, <1>3, <2>2, <2>3 DEF s
<1>4. CASE run.handled \cup {a} # Args
  <2>1. Phase \notin {"empty", "project"}
    BY <1>2, <1>4, ArgsHere
  <2>2. a \in PromptIds \cup Keys
    BY <1>2, <2>1, ArgsHere, Under
  <2>3. Passed(a) = [run EXCEPT !.handled = run.handled \cup {a}, !.call = 1, !.arg = NULL]
    BY <1>4 DEF Passed
  <2>4. run.handled \cup {a} \subseteq PromptIds \cup Keys
    BY <1>1, <2>2, RunFields
  <2>5. Passed(a) \in Run
    <3>1. /\ run.handled \cup {a} \in SUBSET (PromptIds \cup Keys) /\ 1 \in Nat \ {0}
          /\ NULL \in PromptIds \cup Keys \cup {NULL}
      BY <2>4
    <3>2. [run EXCEPT !.handled = run.handled \cup {a}, !.call = 1, !.arg = NULL] \in Run
      <4>1. \A p \in 1..6 : [run EXCEPT !.handled = run.handled \cup {a}, !.call = 1, !.arg = NULL] \in Run
        BY <1>1, <3>1, Replaced, Zenon
      <4>2. QED
        BY <1>1, <4>1
    <3>3. QED
      BY <2>3, <3>2
  <2>6. /\ Passed(a).script = run.script /\ Passed(a).made = run.made /\ Passed(a).missed = run.missed
        /\ Passed(a).call = 1 /\ Passed(a).phase = run.phase
        /\ Passed(a).handled = run.handled \cup {a}
    BY <1>1, <2>3 DEF Run
  <2>7. QED
    BY <1>2, <1>4, <2>5, <2>6 DEF s
<1>5. QED
  BY <1>3, <1>4

\* Where the run is after a call.
LEMMA FollowingIs ==
    ASSUME TypeOK, RunOK, Running, NEW a, Taken(a)
    PROVE  /\ Following(a) \in Run /\ Following(a).script = s
           /\ Following(a).made = run.made /\ Following(a).missed = run.missed
           /\ \/ /\ run.call < Len(Body)
                 /\ Following(a).call = run.call + 1 /\ Following(a).arg = a
                 /\ Following(a).phase = run.phase /\ Following(a).handled = run.handled
              \/ run.call = Len(Body) /\ Following(a) = Passed(a)
<1>1. run \in Run /\ Len(Body) \in Nat /\ run.call \in 1..Len(Body)
  BY Under
<1>2. a \in PromptIds \cup Keys \cup {NULL}
  BY PassedIs, ArgsHere
<1>3. CASE run.call < Len(Body)
  <2>1. Following(a) = [run EXCEPT !.call = run.call + 1, !.arg = a]
    BY <1>3 DEF Following
  <2>2. Following(a) \in Run
    <3>1. run.call + 1 \in Nat \ {0}
      BY <1>1, RunFields
    <3>2. QED
      BY <1>1, <1>2, <2>1, <3>1 DEF Run
  <2>3. /\ Following(a).script = run.script /\ Following(a).made = run.made
        /\ Following(a).missed = run.missed /\ Following(a).call = run.call + 1
        /\ Following(a).arg = a /\ Following(a).phase = run.phase
        /\ Following(a).handled = run.handled
    BY <1>1, <2>1 DEF Run
  <2>4. QED
    BY <1>3, <2>2, <2>3 DEF s
<1>4. CASE ~(run.call < Len(Body))
  BY <1>1, <1>4, PassedIs DEF Following
<1>5. QED
  BY <1>3, <1>4

\* A call of the script is a step of its run, which keeps what was made and missed.
LEMMA AdvanceSteps ==
    ASSUME TypeOK, RunOK, Running, NEW a, Taken(a), Advance(a)
    PROVE  /\ Steps(a) /\ run'.made = run.made /\ run'.missed = run.missed
           /\ mishaps' = mishaps /\ done' = done
<1>1. /\ run' = Following(a) /\ mishaps' = mishaps /\ done' = done
      /\ run'.made = run.made /\ run'.missed = run.missed
  BY FollowingIs DEF Advance
<1>2. CASE run.call < Len(Body) /\ Following(a) # Passed(a)
  <2>1. /\ Following(a) \in Run /\ Following(a).script = s
        /\ Following(a).call = run.call + 1 /\ Following(a).arg = a
        /\ Following(a).phase = run.phase /\ Following(a).handled = run.handled
    BY <1>2, FollowingIs
  <2>2. QED
    <3>1. Continues(a)
      BY <1>1, <1>2, <2>1 DEF Continues
    <3>2. QED
      BY <1>1, <3>1 DEF Steps
<1>3. CASE run.call = Len(Body) /\ Following(a) = Passed(a)
  BY <1>1, <1>3, PassedIs DEF Steps, Iterates
<1>4. CASE run.call < Len(Body) /\ Following(a) = Passed(a)
  <2>1. /\ Following(a) \in Run /\ Following(a).script = s
        /\ \/ /\ Following(a).call = run.call + 1 /\ Following(a).arg = a
              /\ Following(a).phase = run.phase /\ Following(a).handled = run.handled
           \/ run.call = Len(Body)
    BY <1>4, FollowingIs
  <2>2. run.call # Len(Body)
    BY <1>4, Under
  <2>3. QED
    <3>1. Continues(a)
      BY <1>1, <1>4, <2>1, <2>2 DEF Continues
    <3>2. QED
      BY <1>1, <3>1 DEF Steps
<1>5. QED
  BY <1>1, <1>2, <1>3, <1>4, FollowingIs

\* A run that went on is at a call again.
LEMMA RunKept ==
    ASSUME TypeOK, RunOK, Running, NEW a, Taken(a), Steps(a) \/ Iterates(a), done' = done
    PROVE  RunOK'
<1>1. /\ run \in Run /\ run' \in Run /\ run # NULL /\ s' = s
      /\ run.phase \in 1..Len(Program[s]) /\ Len(Program[s]) \in 2..5
      /\ done = NULL
  BY Under DEF Steps, Continues, Iterates, s, RunOK, Running
<1>2. run' # NULL
  BY <1>1, NullIsNoRow
<1>3. /\ run.call \in 1..Len(Body) /\ run.handled \subseteq Args /\ run.handled # Args
      /\ Len(Body) \in Nat /\ a \in Args \ run.handled
  BY PassedIs, Under DEF RunOK, Running
<1>4. run'.phase \in 1..(Len(Program[s]) + 1)
  BY <1>1 DEF Steps, Continues, Iterates
<1>5. ASSUME run'.phase = run.phase
      PROVE  Phase' = Phase /\ Body' = Body /\ Args' = Args
  BY <1>1, <1>5 DEF Phase, Body, Args
<1>6. CASE Continues(a)
  BY <1>1, <1>2, <1>3, <1>4, <1>5, <1>6 DEF Continues, RunOK
<1>7. CASE Iterates(a) /\ run'.phase = run.phase
  BY <1>1, <1>2, <1>3, <1>4, <1>5, <1>7 DEF Iterates, RunOK
<1>8. CASE Iterates(a) /\ run'.phase = run.phase + 1
  <2>1. SUFFICES ASSUME Running'
                 PROVE  /\ 1 \in 1..Len(Body') /\ {} # Args'
    BY <1>1, <1>2, <1>4, <1>8, <2>1 DEF Iterates, RunOK
  <2>2. run'.phase \in 1..Len(Program[s])
    BY <1>1, <1>4, <2>1 DEF Running
  <2>3. Len(Body') \in Nat \ {0}
    <3>1. PICK x \in Scripts : x = s
      BY <1>1, Under
    <3>2. PICK p \in 1..Len(Program[x]) : p = run'.phase
      BY <2>2, <3>1
    <3>3. Body' = Calls[x][Program[x][p]]
      BY <1>1, <3>1, <3>2 DEF Body, Phase
    <3>4. QED
      BY <3>3, Shapes
  <2>4. Args' # {}
    <3>1. PICK x \in Scripts : x = s
      BY <1>1, Under
    <3>2. PICK p \in 1..Len(Program[x]) : p = run'.phase
      BY <2>2, <3>1
    <3>3. Args' = ArgsOf(x, Program[x][p])
      BY <1>1, <3>1, <3>2 DEF Args, Phase
    <3>4. /\ Program[x][p] \in {"empty", "project", "prompts", "assets", "translate", "translateAssets"}
          /\ Program[x][p] \in {"prompts", "assets"} => x \in Examples
      BY Shapes
    <3>5. QED
      BY <3>3, <3>4, ArgsAre
  <2>5. QED
    BY <2>3, <2>4
<1>9. QED
  BY <1>1, <1>6, <1>7, <1>8 DEF Steps, Iterates

(***************************************************************************)
(* The inductive invariant: what each phase that is over has left behind.  *)
(***************************************************************************)
\* What was deleted is not there, and the examples are gone for good.
BaseInv ==
    run # NULL /\ s = "base" =>
        /\ run.phase = 1 =>
              /\ run.call > 6 => prompts = None(prompts)
              /\ run.call > 7 => Without("culturalData") = scoped
              /\ run.call > 12 => projects = None(projects) /\ scoped = {}
              /\ run.call > 13 => user = NULL
        /\ run.phase > 1 =>
              /\ prompts = None(prompts)
              /\ \A e \in Examples : projects[e] = NULL
              /\ tenants \subseteq {"uuid"}

\* The call of the project phase is over.
Past(n) ==
    \/ run.phase > ProjectAt(s)
    \/ run.phase = ProjectAt(s) /\ run.call > n

\* What a call of the project phase is for.
Effect(call) ==
    /\ call = "tenant" => Own \in tenants
    /\ call \in {"user", "findUser"} => user # NULL
    /\ call = "project" => projects[s] # NULL
    /\ call \in Kinds => <<s, call>> \in scoped

ProjectInv ==
    run # NULL =>
        \A n \in 1..Len(Calls[s]["project"]) : Past(n) => Effect(Calls[s]["project"][n])

\* The phase is through with the argument.
Handled(phase, a) ==
    \/ run.phase > phase
    \/ run.phase = phase /\ a \in run.handled

Mine(i) == prompts[i] # NULL /\ prompts[i].project = s

Versioned(i) == Mine(i) /\ prompts[i].version = s /\ (s = "codegen" => prompts[i].language = "en-US")

\* A prompt the loop is through with was missed, or is as the script writes it; the
\* translations of the invoice example come later, but for versions in Spanish.
PromptsInv ==
    run # NULL /\ s \in Examples =>
        /\ \A i \in Prompts[s] : Handled(2, i) /\ i \notin run.missed =>
              /\ Versioned(i)
              /\ s = "codegen" \/ (Handled(4, i) /\ prompts[i].language # "es-ES") => prompts[i].spanish = s
        /\ run.phase = 2 /\ run.call > 1 => Mine(run.arg)
        /\ run.phase = 2 /\ run.call > 2 => Versioned(run.arg)
        /\ Shared \in run.made => Mine(Shared)

\* The same of the assets.
AssetsInv ==
    run # NULL /\ s \in Examples =>
        /\ Shared \in run.made =>
              \A k \in Assets[s] : Handled(3, k) =>
                  /\ assets[k] # NULL /\ assets[k].version = s
                  /\ s = "codegen" \/ Handled(5, k) => assets[k].spanish = s
        /\ run.phase = 3 /\ run.call > 1 => Shared \in run.made /\ assets[run.arg] # NULL
        /\ run.phase = 3 /\ run.call > 2 => assets[run.arg].version = s

IInv ==
    /\ TypeOK /\ RunOK
    /\ BaseInv /\ ProjectInv /\ PromptsInv /\ AssetsInv
    /\ SeededIsWhole /\ BaseIsAlone

(***************************************************************************)
(* What a step of a run leaves of the invariant.                           *)
(***************************************************************************)
\* A run between its calls.
LEMMA Ongoing ==
    ASSUME TypeOK, RunOK, Running, NEW a, Taken(a), Steps(a) \/ Iterates(a)
    PROVE  /\ run \in Run /\ run' \in Run /\ run # NULL /\ run' # NULL
           /\ s' = s /\ s \in Scripts
           /\ run.phase \in 1..5 /\ run'.phase \in 1..6 /\ run.call \in Nat \ {0} /\ run'.call \in Nat \ {0}
           /\ ProjectAt(s)' = ProjectAt(s) /\ ProjectAt(s) \in 1..2
           /\ done = NULL
           /\ a \in Args \ run.handled /\ run.handled \subseteq Args
<1>1. /\ run \in Run /\ run' \in Run /\ s' = s /\ s \in Scripts /\ run # NULL /\ done = NULL
      /\ a \in Args \ run.handled /\ run.handled \subseteq Args
  BY Under, PassedIs DEF Steps, Continues, Iterates, s, RunOK, Running
<1>2. run' # NULL
  BY <1>1, NullIsNoRow
<1>3. run.phase \in 1..5
  <2>1. PICK n \in 2..5 : n = Len(Program[s])
    BY Under
  <2>2. run.phase \in 1..n
    BY <2>1, Under
  <2>3. QED
    BY <2>2
<1>4. ProjectAt(s)' = ProjectAt(s) /\ ProjectAt(s) \in 1..2
  BY <1>1 DEF ProjectAt
<1>5. QED
  BY <1>1, <1>2, <1>3, <1>4, RunFields

\* Which calls of the project phase are over after a step.
LEMMA PastAfter ==
    ASSUME TypeOK, RunOK, Running, NEW a, Taken(a), Steps(a) \/ Iterates(a),
           Phase \in {"empty", "project"} => Steps(a),
           NEW n \in 1..Len(Calls[s]["project"]), Past(n)'
    PROVE  /\ Phase # "empty"
           /\ Past(n) \/ (Phase = "project" /\ n = run.call)
<1>1. /\ s' = s /\ s \in Scripts /\ run.phase \in 1..5 /\ run'.phase \in 1..6 /\ run.call \in Nat \ {0}
      /\ run'.call \in Nat \ {0} /\ ProjectAt(s)' = ProjectAt(s) /\ ProjectAt(s) \in 1..2 /\ n \in Nat \ {0}
  BY Ongoing
<1>2. /\ run'.phase > ProjectAt(s) \/ (run'.phase = ProjectAt(s) /\ run'.call > n)
      /\ run'.phase = run.phase \/ (run'.phase = run.phase + 1 /\ run'.call = 1)
  BY <1>1 DEF Past, Steps, Continues, Iterates
<1>3. Phase # "empty"
  <2>1. SUFFICES ASSUME Phase = "empty" PROVE FALSE
    OBVIOUS
  <2>2. run.phase = 1 /\ ProjectAt(s) = 2
    BY <2>1, Under DEF ProjectAt
  <2>3. QED
    BY <1>1, <1>2, <2>2
<1>4. CASE Phase = "project"
  <2>1. run.phase = ProjectAt(s) /\ Body = Calls[s]["project"]
    BY <1>4, Under DEF Body
  <2>2. CASE Continues(a)
    BY <1>1, <1>2, <1>4, <2>1, <2>2 DEF Past, Continues
  <2>3. CASE run.call = Len(Body) /\ Iterates(a)
    <3>1. PICK m \in Nat : m = Len(Body) /\ n \in 1..m /\ run.call = m
      BY <2>1, <2>3, Under
    <3>2. n = run.call \/ run.call > n
      BY <3>1
    <3>3. QED
      BY <1>3, <1>4, <2>1, <3>2 DEF Past
  <2>4. QED
    BY <1>4, <2>2, <2>3 DEF Steps
<1>5. CASE Phase \notin {"empty", "project"}
  <2>1. run.phase # ProjectAt(s)
    BY <1>5, Under
  <2>2. CASE s = "base"
    <3>1. run.phase = 1 /\ ProjectAt(s) = 2
      BY <2>1, <2>2, Under, Phases DEF ProjectAt
    <3>2. QED
      BY <1>1, <1>2, <3>1
  <2>3. CASE s # "base"
    BY <1>1, <1>2, <1>3, <2>1, <2>3 DEF Past, ProjectAt
  <2>4. QED
    BY <2>2, <2>3
<1>6. QED
  BY <1>3, <1>4, <1>5

\* What the project phase has done stays.
LEMMA ProjectKept ==
    ASSUME TypeOK, RunOK, ProjectInv, Running, NEW a, Taken(a), Steps(a) \/ Iterates(a),
           Phase \in {"empty", "project"} => Steps(a),
           NEW d, d = Body[run.call], Phase = "project" => Effect(d)',
           Phase # "empty" => \A c : Effect(c) => Effect(c)'
    PROVE  ProjectInv'
<1>1. s' = s /\ run # NULL
  BY Ongoing
<1>2. SUFFICES ASSUME NEW n \in 1..Len(Calls[s]["project"]), Past(n)'
               PROVE  Effect(Calls[s]["project"][n])'
  BY <1>1 DEF ProjectInv
<1>3. /\ Phase # "empty"
      /\ Past(n) \/ (Phase = "project" /\ n = run.call)
  BY <1>2, PastAfter
<1>4. CASE Past(n)
  BY <1>1, <1>3, <1>4 DEF ProjectInv
<1>5. CASE Phase = "project" /\ n = run.call
  <2>1. Calls[s]["project"][n] = d
    BY <1>5 DEF Body
  <2>2. PICK c : c = Calls[s]["project"][n]
    OBVIOUS
  <2>3. Effect(c)'
    BY <1>5, <2>1, <2>2
  <2>4. c = Calls[s']["project"][n]
    BY <1>1, <2>2
  <2>5. QED
    BY <2>3, <2>4
<1>6. QED
  BY <1>3, <1>4, <1>5

\* Which arguments a loop is through with after a step.
LEMMA HandledAfter ==
    ASSUME TypeOK, RunOK, Running, NEW a, Taken(a), Steps(a) \/ Iterates(a),
           NEW p \in 1..5, NEW i, run.phase = p => i \in Args, Handled(p, i)'
    PROVE  Handled(p, i) \/ (run.phase = p /\ i = a /\ Iterates(a))
<1>1. run.phase \in 1..5 /\ run'.phase \in 1..6
  BY Ongoing
<1>2. CASE Continues(a)
  BY <1>1, <1>2 DEF Continues, Handled
<1>3. CASE Iterates(a)
  BY <1>1, <1>3 DEF Iterates, Handled
<1>4. QED
  BY <1>2, <1>3 DEF Steps

\* Prompts that nothing was done to are still as they were left.
LEMMA PromptsKept ==
    ASSUME TypeOK, RunOK, PromptsInv, Running, NEW a, Taken(a), Steps(a) \/ Iterates(a),
           Phase \in {"empty", "project", "assets", "translateAssets"},
           prompts' = prompts, run'.made = run.made, run'.missed = run.missed
    PROVE  PromptsInv'
<1>1. s' = s /\ run # NULL /\ run.phase \in 1..5 /\ run'.phase \in 1..6 /\ run.call \in Nat \ {0}
  BY Ongoing
<1>2. SUFFICES ASSUME s \in Examples
               PROVE  PromptsInv'
  BY <1>1 DEF PromptsInv
<1>3. run.phase \in {1, 3, 5} /\ s # "base"
  BY <1>2, Under DEF ProjectAt, Examples
<1>4. ~(run'.phase = 2 /\ run'.call > 1)
  BY <1>1, <1>3 DEF Steps, Continues, Iterates
<1>5. ~(run'.phase = 2 /\ run'.call > 2)
  BY <1>1, <1>4, Ongoing
<1>6. \A i : Mine(i)' = Mine(i) /\ Versioned(i)' = Versioned(i)
  BY <1>1 DEF Mine, Versioned
<1>7. \A i : Handled(2, i)' => Handled(2, i)
  BY <1>3, HandledAfter
<1>8. \A i : Handled(4, i)' => Handled(4, i)
  BY <1>3, HandledAfter
<1>9. QED
  BY <1>1, <1>2, <1>4, <1>5, <1>6, <1>7, <1>8 DEF PromptsInv

\* The same of assets.
LEMMA AssetsKept ==
    ASSUME TypeOK, RunOK, AssetsInv, Running, NEW a, Taken(a), Steps(a) \/ Iterates(a),
           Phase \in {"empty", "project", "prompts", "translate"},
           assets' = assets, Phase # "prompts" => run'.made = run.made
    PROVE  AssetsInv'
<1>1. s' = s /\ run # NULL /\ run.phase \in 1..5 /\ run'.phase \in 1..6 /\ run.call \in Nat \ {0}
  BY Ongoing
<1>2. SUFFICES ASSUME s \in Examples
               PROVE  AssetsInv'
  BY <1>1 DEF AssetsInv
<1>3. run.phase \in {1, 2, 4} /\ s # "base"
  BY <1>2, Under DEF ProjectAt, Examples
<1>4. ~(run'.phase = 3 /\ run'.call > 1)
  BY <1>1, <1>3 DEF Steps, Continues, Iterates
<1>5. ~(run'.phase = 3 /\ run'.call > 2)
  BY <1>1, <1>4, Ongoing
<1>6. \A k : Handled(3, k)' => Handled(3, k)
  BY <1>3, HandledAfter
<1>7. \A k : Handled(5, k)' => Handled(5, k)
  BY <1>3, HandledAfter
<1>8. \A k : Handled(3, k) => run.phase > 2
  BY <1>1 DEF Handled
<1>9. Phase = "prompts" => run.phase = 2
  BY Under
<1>10. QED
  BY <1>1, <1>2, <1>4, <1>5, <1>6, <1>7, <1>8, <1>9 DEF AssetsInv

\* The same of what the base seed has deleted, once it seeds.
LEMMA BaseKept ==
    ASSUME TypeOK, RunOK, BaseInv, Running, NEW a, Taken(a), Steps(a) \/ Iterates(a),
           Phase # "empty",
           s = "base" => /\ prompts' = prompts /\ tenants' \subseteq tenants \cup {"uuid"}
                         /\ \A e \in Examples : projects'[e] = projects[e]
    PROVE  BaseInv'
<1>1. s' = s /\ run # NULL /\ run.phase \in 1..5 /\ run'.phase \in 1..6
  BY Ongoing
<1>2. SUFFICES ASSUME s = "base"
               PROVE  BaseInv'
  BY <1>1 DEF BaseInv
<1>3. run.phase > 1
  BY <1>1, <1>2, Under
<1>4. run'.phase > 1 /\ run'.phase # 1
  BY <1>1, <1>3 DEF Steps, Continues, Iterates
<1>5. QED
  BY <1>1, <1>2, <1>3, <1>4 DEF BaseInv, None

\* While a script runs there is no last run to speak of.
LEMMA NoneDone ==
    ASSUME done' = NULL
    PROVE  SeededIsWhole' /\ BaseIsAlone'
  BY DEF SeededIsWhole, BaseIsAlone

(***************************************************************************)
(* The project phase.                                                      *)
(***************************************************************************)
\* A call of the project phase keeps the invariant if it has its effect, undoes no
\* other, and keeps the tables as their types say.
LEMMA ProjectPhase ==
    ASSUME IInv, Running, Phase = "project", Taken(NULL), Advance(NULL),
           UNCHANGED <<prompts, assets, deployed>>,
           run' \in Run /\ done' = done /\ mishaps' = mishaps => TypeOK',
           NEW d, d = Body[run.call], s' = s => Effect(d)',
           s' = s => \A c : Effect(c) => Effect(c)',
           s = "base" => /\ tenants' \subseteq tenants \cup {"uuid"}
                         /\ \A e \in Examples : projects'[e] = projects[e]
    PROVE  IInv'
<1>1. /\ Steps(NULL) /\ run'.made = run.made /\ run'.missed = run.missed
      /\ mishaps' = mishaps /\ done' = done
  BY AdvanceSteps DEF IInv
<1>2. run' \in Run /\ s' = s /\ done = NULL
  BY <1>1, Ongoing DEF IInv
<1>3. RunOK'
  BY <1>1, RunKept DEF IInv
<1>4. ProjectInv'
  BY <1>1, <1>2, ProjectKept DEF IInv
<1>5. PromptsInv'
  BY <1>1, PromptsKept DEF IInv
<1>6. AssetsInv'
  BY <1>1, AssetsKept DEF IInv
<1>7. BaseInv'
  BY <1>1, BaseKept DEF IInv
<1>8. TypeOK'
  BY <1>1, <1>2
<1>9. SeededIsWhole' /\ BaseIsAlone'
  BY <1>1, <1>2, NoneDone
<1>10. QED
  BY <1>3, <1>4, <1>5, <1>6, <1>7, <1>8, <1>9 DEF IInv

\* Which calls the project phase has.
LEMMA ProjectCalls ==
    ASSUME NEW x \in Scripts, NEW n \in 1..Len(Calls[x]["project"])
    PROVE  LET c == Calls[x]["project"][n] IN
           /\ c = "tenant" => x \in {"base", "codegen"} /\ n = 1
           /\ c = "findUser" => x = "invoice" /\ n = 1
           /\ c = "user" => x \in {"base", "codegen"} /\ n = 2
           /\ c = "project" => n = IF x = "invoice" THEN 2 ELSE 3
           /\ c \in Kinds => n > IF x = "invoice" THEN 2 ELSE 3
           /\ x \in {"base", "codegen"} => Calls[x]["project"][1] = "tenant" /\ Calls[x]["project"][2] = "user"
                                           /\ Calls[x]["project"][3] = "project"
           /\ x = "invoice" => Calls[x]["project"][1] = "findUser" /\ Calls[x]["project"][2] = "project"
           /\ Len(Calls[x]["project"]) \in 6..8
<1>1. CASE x = "base"
  <2>1. n \in {1, 2, 3, 4, 5, 6, 7, 8}
    BY <1>1, Bodies
  <2>2. QED
    BY <1>1, <2>1, Bodies DEF Kinds
<1>2. CASE x = "codegen"
  <2>1. n \in {1, 2, 3, 4, 5, 6, 7}
    BY <1>2, Bodies
  <2>2. QED
    BY <1>2, <2>1, Bodies DEF Kinds
<1>3. CASE x = "invoice"
  <2>1. n \in {1, 2, 3, 4, 5, 6}
    BY <1>3, Bodies
  <2>2. QED
    BY <1>3, <2>1, Bodies DEF Kinds
<1>4. QED
  BY <1>1, <1>2, <1>3 DEF Scripts

\* What the calls before have done.
LEMMA Before ==
    ASSUME IInv, NEW c, At("project", c, NULL)
    PROVE  /\ Running /\ Phase = "project" /\ Taken(NULL) /\ c = Body[run.call] /\ s \in Scripts
           /\ c = "tenant" => s \in {"base", "codegen"}
           /\ c = "user" => s \in {"base", "codegen"} /\ Own \in tenants
           /\ c = "project" => user # NULL /\ (s # "invoice" => Own \in tenants)
           /\ c \in Kinds => user # NULL /\ projects[s] # NULL
           /\ c = "findUser" => s = "invoice"
<1>1. /\ Running /\ Phase = "project" /\ Taken(NULL) /\ c = Body[run.call] /\ s \in Scripts
      /\ run.phase = ProjectAt(s) /\ Body = Calls[s]["project"] /\ run.call \in 1..Len(Body)
  BY Under DEF At, IInv, Body
<1>2. ASSUME NEW n \in 1..Len(Body), n < run.call
      PROVE  Effect(Calls[s]["project"][n])
  BY <1>1, <1>2, Under DEF IInv, ProjectInv, Past, Running
<1>3. PICK m \in 6..8 : m = Len(Body)
  BY <1>1, ProjectCalls
<1>4. run.call \in 1..m
  BY <1>1, <1>3
<1>5. CASE s \in {"base", "codegen"}
  <2>1. /\ c = "user" => run.call = 2
        /\ c = "project" => run.call = 3
        /\ c \in Kinds => run.call > 3
        /\ c # "findUser"
        /\ Calls[s]["project"][1] = "tenant" /\ Calls[s]["project"][2] = "user"
        /\ Calls[s]["project"][3] = "project"
    BY <1>1, <1>5, ProjectCalls
  <2>2. run.call > 1 => Effect("tenant")
    BY <1>2, <1>3, <1>4, <2>1
  <2>3. run.call > 2 => Effect("user")
    BY <1>2, <1>3, <1>4, <2>1
  <2>4. run.call > 3 => Effect("project")
    BY <1>2, <1>3, <1>4, <2>1
  <2>5. QED
    BY <1>1, <1>4, <1>5, <2>1, <2>2, <2>3, <2>4 DEF Effect
<1>6. CASE s = "invoice"
  <2>1. /\ c \notin {"tenant", "user"}
        /\ c = "project" => run.call = 2
        /\ c \in Kinds => run.call > 2
        /\ Calls[s]["project"][1] = "findUser" /\ Calls[s]["project"][2] = "project"
    BY <1>1, <1>6, ProjectCalls
  <2>2. run.call > 1 => Effect("findUser")
    BY <1>2, <1>3, <1>4, <2>1
  <2>3. run.call > 2 => Effect("project")
    BY <1>2, <1>3, <1>4, <2>1
  <2>4. QED
    BY <1>1, <1>4, <1>6, <2>1, <2>2, <2>3 DEF Effect
<1>7. QED
  BY <1>1, <1>5, <1>6 DEF Scripts

\* The tenant is found or made.
LEMMA PutTenantKeeps ==
    ASSUME IInv, PutTenant
    PROVE  IInv'
<1>1. /\ At("project", "tenant", NULL) /\ tenants' = tenants \cup {Own} /\ Advance(NULL)
      /\ UNCHANGED <<user, projects, scoped, prompts, assets, deployed>>
  BY DEF PutTenant
<1>2. /\ Running /\ Phase = "project" /\ Taken(NULL) /\ "tenant" = Body[run.call]
      /\ s \in {"base", "codegen"}
  BY <1>1, Before
<1>3. tenants \subseteq Tenants
  BY DEF IInv, TypeOK
<1>4. Own \in Tenants /\ (s = "base" /\ tenants \subseteq {"uuid"} => Own = "uuid")
  BY <1>2, <1>3 DEF Own, Tenants
<1>5. s' = s => Own' = Own
  BY <1>1, <1>2, <1>3 DEF Own, Tenants
<1>6. s = "base" => tenants \subseteq {"uuid"}
  BY <1>2, Under, Ongoing DEF IInv, BaseInv, Running, ProjectAt
<1>7. QED
  <2>1. s' = s => Effect("tenant")'
    BY <1>1, <1>5 DEF Effect, Kinds
  <2>2. s' = s => \A c : Effect(c) => Effect(c)'
    BY <1>1, <1>5 DEF Effect
  <2>3. run' \in Run /\ done' = done /\ mishaps' = mishaps => TypeOK'
    BY <1>1, <1>4 DEF IInv, TypeOK
  <2>4. QED
    BY <1>1, <1>2, <1>4, <1>6, <2>1, <2>2, <2>3, ProjectPhase

\* A user that is made is in the tenant the script goes on with, which is there.
LEMMA PutUserKeeps ==
    ASSUME IInv, PutUser
    PROVE  IInv'
<1>1. /\ At("project", "user", NULL) /\ user' = (IF user = NULL THEN Own ELSE user) /\ Advance(NULL)
      /\ UNCHANGED <<tenants, projects, scoped, prompts, assets, deployed>>
  BY DEF PutUser
<1>2. /\ Running /\ Phase = "project" /\ Taken(NULL) /\ "user" = Body[run.call]
      /\ s \in {"base", "codegen"} /\ Own \in tenants
  BY <1>1, Before
<1>3. tenants \subseteq Tenants /\ user \in tenants \cup {NULL}
  BY DEF IInv, TypeOK
<1>4. user' # NULL /\ user' \in tenants
  BY <1>1, <1>2, <1>3, NullAssumption
<1>5. s' = s => Own' = Own
  BY <1>1, <1>2 DEF Own
<1>6. s' = s => Effect("user")'
  BY <1>4 DEF Effect, Kinds
<1>7. s' = s => \A c : Effect(c) => Effect(c)'
  BY <1>1, <1>4, <1>5 DEF Effect
<1>8. run' \in Run /\ done' = done /\ mishaps' = mishaps => TypeOK'
  BY <1>1, <1>4 DEF IInv, TypeOK
<1>9. QED
  BY <1>1, <1>2, <1>6, <1>7, <1>8, ProjectPhase

\* The invoice example goes on only with a user.
LEMMA FindUserKeeps ==
    ASSUME IInv, FindUser
    PROVE  IInv'
<1>1. /\ At("project", "findUser", NULL) /\ user # NULL /\ Advance(NULL)
      /\ UNCHANGED <<tenants, user, projects, scoped, prompts, assets, deployed>>
  BY DEF FindUser, tables
<1>2. /\ Running /\ Phase = "project" /\ Taken(NULL) /\ "findUser" = Body[run.call]
      /\ s = "invoice"
  BY <1>1, Before
<1>3. s' = s => Own' = Own
  BY <1>1, <1>2 DEF Own
<1>4. s' = s => Effect("findUser")'
  BY <1>1 DEF Effect, Kinds
<1>5. s' = s => \A c : Effect(c) => Effect(c)'
  BY <1>1, <1>3 DEF Effect
<1>6. run' \in Run /\ done' = done /\ mishaps' = mishaps => TypeOK'
  BY <1>1 DEF IInv, TypeOK
<1>7. QED
  BY <1>1, <1>2, <1>4, <1>5, <1>6, ProjectPhase

\* The project is of a tenant that is there.
LEMMA PutProjectKeeps ==
    ASSUME IInv, PutProject
    PROVE  IInv'
<1>1. /\ At("project", "project", NULL) /\ Advance(NULL)
      /\ projects' = [projects EXCEPT ![s] = IF @ = NULL THEN Own ELSE @]
      /\ UNCHANGED <<tenants, user, scoped, prompts, assets, deployed>>
  BY DEF PutProject
<1>2. /\ Running /\ Phase = "project" /\ Taken(NULL) /\ "project" = Body[run.call]
      /\ s \in Scripts /\ user # NULL /\ (s # "invoice" => Own \in tenants)
  BY <1>1, Before
<1>3. tenants \subseteq Tenants /\ user \in tenants \cup {NULL} /\ projects \in [Scripts -> tenants \cup {NULL}]
  BY DEF IInv, TypeOK
<1>4. Own \in tenants
  BY <1>2, <1>3 DEF Own
<1>5. /\ projects' \in [Scripts -> tenants \cup {NULL}] /\ projects'[s] # NULL
      /\ \A x \in Scripts : projects[x] # NULL => projects'[x] # NULL
      /\ \A x \in Scripts : x # s => projects'[x] = projects[x]
  BY <1>1, <1>2, <1>3, <1>4, NullAssumption
<1>6. s' = s => Own' = Own
  BY <1>1, <1>2 DEF Own
<1>7. s' = s => Effect("project")'
  BY <1>5 DEF Effect, Kinds
<1>8. s' = s => \A c : Effect(c) => Effect(c)'
  BY <1>1, <1>2, <1>5, <1>6 DEF Effect
<1>9. run' \in Run /\ done' = done /\ mishaps' = mishaps => TypeOK'
  <2>1. SUFFICES ASSUME run' \in Run, done' = done, mishaps' = mishaps
                 PROVE  TypeOK'
    OBVIOUS
  <2>2. \A r \in scoped : r[1] \in Scripts
    BY DEF IInv, TypeOK
  <2>3. \A i \in PromptIds : prompts[i] # NULL => prompts[i].project \in Scripts
    BY DEF IInv, TypeOK, Prompt
  <2>4. QED
    BY <1>1, <1>5, <2>1, <2>2, <2>3 DEF IInv, TypeOK
<1>10. \A e \in Examples : s = "base" => projects'[e] = projects[e]
  BY <1>5 DEF Examples
<1>11. QED
  BY <1>1, <1>2, <1>7, <1>8, <1>9, <1>10, ProjectPhase

\* The rows of a project are made when the project is there.
LEMMA PutScopedKeeps ==
    ASSUME IInv, NEW kind \in Kinds, PutScoped(kind)
    PROVE  IInv'
<1>1. /\ At("project", kind, NULL) /\ scoped' = scoped \cup {<<s, kind>>} /\ Advance(NULL)
      /\ UNCHANGED <<tenants, user, projects, prompts, assets, deployed>>
  BY DEF PutScoped
<1>2. /\ Running /\ Phase = "project" /\ Taken(NULL) /\ kind = Body[run.call]
      /\ s \in Scripts /\ user # NULL /\ projects[s] # NULL
  BY <1>1, Before
<1>3. s' = s => Own' = Own
  BY <1>1, <1>2 DEF Own, Scripts
<1>4. s' = s => Effect(kind)'
  BY <1>1 DEF Effect, Kinds
<1>5. s' = s => \A c : Effect(c) => Effect(c)'
  BY <1>1, <1>3 DEF Effect
<1>6. run' \in Run /\ done' = done /\ mishaps' = mishaps => TypeOK'
  BY <1>1, <1>2 DEF IInv, TypeOK
<1>7. QED
  BY <1>1, <1>2, <1>4, <1>5, <1>6, ProjectPhase

\* Once the project phase is over, the project and its rows are there.
LEMMA HasAllAfter ==
    ASSUME TypeOK, ProjectInv, run # NULL, run.phase > ProjectAt(s)
    PROVE  HasAll(s)
<1>1. s \in Scripts
  BY RunFields DEF TypeOK, s
<1>2. \A n \in 1..Len(Calls[s]["project"]) : Effect(Calls[s]["project"][n])
  BY DEF ProjectInv, Past
<1>3. CASE s = "base"
  <2>1. \A n \in 1..8 : Effect(Calls[s]["project"][n])
    BY <1>2, <1>3, Bodies
  <2>2. \A n \in {2, 3, 4, 5, 6, 7, 8} : n \in 1..8
    OBVIOUS
  <2>3. /\ Calls[s]["project"][2] = "user" /\ Calls[s]["project"][3] = "project"
        /\ Calls[s]["project"][4] = "region" /\ Calls[s]["project"][5] = "culturalData"
        /\ Calls[s]["project"][6] = "tag" /\ Calls[s]["project"][7] = "aiModel"
        /\ Calls[s]["project"][8] = "environment"
    BY <1>3, Bodies
  <2>4. /\ Effect("user") /\ Effect("project") /\ Effect("region") /\ Effect("culturalData")
        /\ Effect("tag") /\ Effect("aiModel") /\ Effect("environment")
    BY <2>1, <2>2, <2>3
  <2>5. QED
    BY <1>3, <2>4 DEF Effect, HasAll, KindsOf, Kinds
<1>4. CASE s = "codegen"
  <2>1. \A n \in 1..7 : Effect(Calls[s]["project"][n])
    BY <1>2, <1>4, Bodies
  <2>2. \A n \in {2, 3, 4, 5, 6, 7} : n \in 1..7
    OBVIOUS
  <2>3. /\ Calls[s]["project"][2] = "user" /\ Calls[s]["project"][3] = "project"
        /\ Calls[s]["project"][4] = "region" /\ Calls[s]["project"][5] = "culturalData"
        /\ Calls[s]["project"][6] = "environment" /\ Calls[s]["project"][7] = "aiModel"
    BY <1>4, Bodies
  <2>4. /\ Effect("user") /\ Effect("project") /\ Effect("region") /\ Effect("culturalData")
        /\ Effect("aiModel") /\ Effect("environment")
    BY <2>1, <2>2, <2>3
  <2>5. QED
    BY <1>4, <2>4 DEF Effect, HasAll, KindsOf, Kinds
<1>5. CASE s = "invoice"
  <2>1. \A n \in 1..6 : Effect(Calls[s]["project"][n])
    BY <1>2, <1>5, Bodies
  <2>2. \A n \in {1, 2, 3, 4, 5, 6} : n \in 1..6
    OBVIOUS
  <2>3. /\ Calls[s]["project"][1] = "findUser" /\ Calls[s]["project"][2] = "project"
        /\ Calls[s]["project"][3] = "region" /\ Calls[s]["project"][4] = "culturalData"
        /\ Calls[s]["project"][5] = "environment" /\ Calls[s]["project"][6] = "aiModel"
    BY <1>5, Bodies
  <2>4. /\ Effect("findUser") /\ Effect("project") /\ Effect("region") /\ Effect("culturalData")
        /\ Effect("aiModel") /\ Effect("environment")
    BY <2>1, <2>2, <2>3
  <2>5. QED
    BY <1>5, <2>4 DEF Effect, HasAll, KindsOf, Kinds
<1>6. QED
  BY <1>1, <1>3, <1>4, <1>5 DEF Scripts

(***************************************************************************)
(* The loop over the prompts.                                              *)
(***************************************************************************)
\* Where the loop over the prompts is.
LEMMA InPrompts ==
    ASSUME IInv, Running, Phase = "prompts", NEW a, Taken(a)
    PROVE  /\ s \in Examples /\ run.phase = 2 /\ Args = Prompts[s] /\ a \in PromptIds
           /\ user # NULL /\ projects[s] # NULL
           /\ run.call > 1 => a = run.arg /\ Mine(a)
           /\ run.call > 2 => Versioned(a)
           /\ Body[run.call] = "prompt" => run.call = 1 /\ run.call < Len(Body)
           /\ Body[run.call] = "version" => run.call = 2 /\ (s = "codegen" => run.call < Len(Body))
           /\ Body[run.call] = "spanish" => run.call = 3
<1>1. s \in Examples /\ run.phase = 2 /\ Args = Prompts[s] /\ a \in PromptIds
  BY Under, ArgsHere, PassedIs DEF IInv
<1>2. run # NULL /\ run.call \in Nat \ {0} /\ run.phase > ProjectAt(s) /\ run.call <= Len(Body)
  BY <1>1, Under DEF IInv, ProjectAt, Running, Examples
<1>3. user # NULL /\ projects[s] # NULL
  BY <1>2, HasAllAfter DEF IInv, HasAll
<1>4. run.call > 1 => a = run.arg
  BY <1>2 DEF Taken
<1>5. (run.call > 1 => Mine(run.arg)) /\ (run.call > 2 => Versioned(run.arg))
  BY <1>1, <1>2 DEF IInv, PromptsInv
<1>6. Body = Calls[s]["prompts"]
  BY DEF Body
<1>7. /\ Body[run.call] = "prompt" => run.call = 1 /\ run.call < Len(Body)
      /\ Body[run.call] = "version" => run.call = 2 /\ (s = "codegen" => run.call < Len(Body))
      /\ Body[run.call] = "spanish" => run.call = 3
  BY <1>1, <1>2, <1>6, Loops
<1>8. QED
  BY <1>1, <1>2, <1>3, <1>4, <1>5, <1>7

\* A step of the loop keeps the invariant if it does what the place of the run after it
\* says of the prompt, and nothing to the others.
LEMMA PromptsPhase ==
    ASSUME IInv, Running, Phase = "prompts", NEW a, Taken(a), Steps(a) \/ Iterates(a),
           UNCHANGED <<tenants, user, projects, scoped, assets, deployed, done>>,
           mishaps' \in 0..MaxMishaps,
           prompts' \in [PromptIds -> Prompt \cup {NULL}],
           \A i \in PromptIds \ {a} : prompts'[i] = prompts[i],
           prompts'[a] = prompts[a] \/ Mine(a)',
           Continues(a) => Mine(a)' /\ (run.call > 1 => Versioned(a)'),
           Iterates(a) /\ a \notin run'.missed =>
               Versioned(a)' /\ (s = "codegen" => prompts'[a].spanish = s),
           run.missed \subseteq run'.missed,
           Shared \in run'.made => Mine(Shared)'
    PROVE  IInv'
<1>1. /\ s \in Examples /\ run.phase = 2 /\ Args = Prompts[s] /\ a \in PromptIds
      /\ user # NULL /\ projects[s] # NULL
  BY InPrompts
<1>2. /\ run' \in Run /\ s' = s /\ run # NULL /\ done' = NULL /\ a \in Args \ run.handled
      /\ run.call \in Nat \ {0} /\ run'.phase \in 1..6
  BY Ongoing DEF IInv
<1>3. RunOK'
  BY RunKept DEF IInv
<1>4. ProjectInv'
  <2>1. s' = s => \A c : Effect(c) => Effect(c)'
    <3>1. s' = s => Own' = Own
      BY DEF Own
    <3>2. QED
      BY <3>1 DEF Effect
  <2>2. QED
    BY <1>2, <2>1, ProjectKept DEF IInv
<1>5. AssetsInv'
  BY AssetsKept DEF IInv
<1>6. BaseInv'
  BY <1>1, <1>2, BaseKept DEF IInv, Examples
<1>7. TypeOK'
  <2>1. /\ TypeOK /\ Shared \in PromptIds
    BY ArgsAre DEF IInv, Scripts
  <2>2. \A i \in PromptIds : prompts'[i] # NULL => projects[prompts'[i].project] # NULL
    <3>1. SUFFICES ASSUME NEW i \in PromptIds, prompts'[i] # NULL
                   PROVE  projects[prompts'[i].project] # NULL
      OBVIOUS
    <3>2. CASE prompts'[i] = prompts[i]
      BY <2>1, <3>1, <3>2 DEF TypeOK
    <3>3. CASE i = a /\ Mine(a)'
      BY <1>1, <1>2, <3>3 DEF Mine
    <3>4. QED
      BY <3>2, <3>3
  <2>3. prompts'[Shared] = NULL => prompts[Shared] = NULL
    BY <2>1 DEF Mine
  <2>4. QED
    BY <1>1, <1>2, <2>1, <2>2, <2>3 DEF TypeOK, None
<1>8. PromptsInv'
  <2>1. ASSUME NEW i \in Prompts[s], Handled(2, i)', i \notin run'.missed
        PROVE  Versioned(i)' /\ (s = "codegen" => prompts'[i].spanish = s)
    <3>1. i \in PromptIds
      BY <1>1, <2>1, ArgsAre DEF Examples
    <3>2. Handled(2, i) \/ (i = a /\ Iterates(a))
      BY <1>1, <2>1, HandledAfter DEF IInv
    <3>3. CASE i = a
      BY <1>1, <1>2, <2>1, <3>2, <3>3 DEF Handled
    <3>4. CASE i # a
      <4>1. Versioned(i) /\ (s = "codegen" => prompts[i].spanish = s)
        BY <1>1, <1>2, <2>1, <3>2, <3>4 DEF IInv, PromptsInv
      <4>2. QED
        BY <1>2, <3>1, <3>4, <4>1 DEF Versioned, Mine
    <3>5. QED
      BY <3>3, <3>4
  <2>2. \A i : ~Handled(4, i)'
    BY <1>1, <1>2 DEF Handled, Steps, Continues, Iterates
  <2>3. run'.phase = 2 /\ run'.call > 1 => Mine(run.arg)'
    BY <1>2 DEF Steps, Continues, Iterates, Mine
  <2>4. run'.phase = 2 /\ run'.call > 2 => Versioned(run.arg)'
    BY <1>2 DEF Steps, Continues, Iterates, Versioned, Mine
  <2>5. QED
    BY <1>2, <2>1, <2>2, <2>3, <2>4 DEF PromptsInv
<1>9. SeededIsWhole' /\ BaseIsAlone'
  BY <1>2, NoneDone
<1>10. QED
  BY <1>3, <1>4, <1>5, <1>6, <1>7, <1>8, <1>9 DEF IInv

\* A prompt becomes the project's, wherever it was.
LEMMA PutPromptKeeps ==
    ASSUME IInv, NEW i \in PromptIds, PutPrompt(i)
    PROVE  IInv'
<1>1. /\ Running /\ Phase = "prompts" /\ Taken(i) /\ Body[run.call] = "prompt"
      /\ run' = [Following(i) EXCEPT !.made = @ \cup {i}]
      /\ UNCHANGED <<tenants, user, projects, scoped, assets, deployed, mishaps, done>>
  BY DEF PutPrompt, At
<1>2. /\ s \in Examples /\ run.call = 1 /\ run.call < Len(Body) /\ run \in Run
  BY <1>1, InPrompts, Under DEF IInv
<1>3. /\ Following(i) \in Run /\ Following(i).script = s
      /\ Following(i).made = run.made /\ Following(i).missed = run.missed
      /\ Following(i).call = run.call + 1 /\ Following(i).arg = i
      /\ Following(i).phase = run.phase /\ Following(i).handled = run.handled
  BY <1>1, <1>2, FollowingIs DEF IInv
<1>4. /\ run' \in Run /\ run'.script = s /\ run'.made = run.made \cup {i} /\ run'.missed = run.missed
      /\ run'.call = run.call + 1 /\ run'.arg = i
      /\ run'.phase = run.phase /\ run'.handled = run.handled
  BY <1>1, <1>2, <1>3 DEF Run
<1>5. Continues(i) /\ ~Iterates(i)
  BY <1>2, <1>4 DEF Continues, Iterates
<1>6. prompts \in [PromptIds -> Prompt \cup {NULL}] /\ mishaps \in 0..MaxMishaps
  BY DEF IInv, TypeOK
<1>7. PICK row \in Prompt : row.project = s /\ prompts' = [prompts EXCEPT ![i] = row]
  <2>1. CASE prompts[i] = NULL
    <3>1. Bare(s) \in Prompt /\ Bare(s).project = s
      BY <1>2 DEF Bare, Prompt, Author, Languages, Examples
    <3>2. QED
      BY <2>1, <3>1 DEF PutPrompt
  <2>2. CASE prompts[i] # NULL
    <3>1. [prompts[i] EXCEPT !.project = s] \in Prompt /\ [prompts[i] EXCEPT !.project = s].project = s
      BY <1>2, <1>6, <2>2 DEF Prompt, Examples
    <3>2. QED
      BY <2>2, <3>1 DEF PutPrompt
  <2>3. QED
    BY <2>1, <2>2
<1>8. prompts' \in [PromptIds -> Prompt \cup {NULL}] /\ prompts'[i] = row
  BY <1>6, <1>7
<1>9. Mine(i)' /\ s' = s
  BY <1>4, <1>7, <1>8, NullIsNoRow DEF Mine, s
<1>10. Shared \in run'.made => Mine(Shared)'
  <2>1. Shared \in run.made => Mine(Shared)
    BY <1>1, <1>2 DEF IInv, PromptsInv, Running
  <2>2. Shared \in PromptIds
    BY ArgsAre DEF Scripts
  <2>3. CASE Shared # i
    BY <1>4, <1>6, <1>7, <1>9, <2>1, <2>2, <2>3 DEF Mine
  <2>4. QED
    BY <1>9, <2>3
<1>11. QED
  BY <1>1, <1>2, <1>4, <1>5, <1>6, <1>7, <1>8, <1>9, <1>10, PromptsPhase DEF Steps

\* The version of a prompt becomes the script's.
LEMMA PutVersionKeeps ==
    ASSUME IInv, NEW i \in PromptIds, PutVersion(i)
    PROVE  IInv'
<1>1. /\ Running /\ Phase = "prompts" /\ Taken(i) /\ Body[run.call] = "version" /\ Advance(i)
      /\ prompts' = [prompts EXCEPT ![i].version = s,
                                    ![i].language = IF s = "codegen" THEN "en-US" ELSE prompts[i].language]
      /\ UNCHANGED <<tenants, user, projects, scoped, assets, deployed>>
  BY DEF PutVersion, At
<1>2. /\ s \in Examples /\ run.call = 2 /\ Mine(i) /\ (s = "codegen" => run.call < Len(Body))
  BY <1>1, InPrompts
<1>3. /\ Steps(i) /\ run'.made = run.made /\ run'.missed = run.missed
      /\ mishaps' = mishaps /\ done' = done /\ s' = s
  BY <1>1, AdvanceSteps, Ongoing DEF IInv
<1>4. prompts \in [PromptIds -> Prompt \cup {NULL}] /\ mishaps \in 0..MaxMishaps
  BY DEF IInv, TypeOK
<1>5. prompts[i] \in Prompt /\ prompts[i].project = s
  BY <1>2, <1>4 DEF Mine
<1>6. PICK language \in Languages : language = IF s = "codegen" THEN "en-US" ELSE prompts[i].language
  BY <1>5 DEF Prompt, Languages
<1>7. PICK row \in Prompt : row = [prompts[i] EXCEPT !.version = s, !.language = language]
  BY <1>2, <1>5 DEF Prompt, Author, Examples
<1>8. row.project = s /\ row.version = s /\ row.language = language /\ row # NULL
  BY <1>5, <1>7, NullIsNoRow DEF Prompt
<1>9. prompts' = [prompts EXCEPT ![i] = row]
  BY <1>1, <1>4, <1>6, <1>7
<1>10. /\ prompts'[i] = row
       /\ prompts' \in [PromptIds -> Prompt \cup {NULL}]
       /\ \A j \in PromptIds \ {i} : prompts'[j] = prompts[j]
  BY <1>4, <1>9
<1>11. Versioned(i)' /\ Mine(i)'
  BY <1>3, <1>6, <1>8, <1>10 DEF Versioned, Mine
<1>12. Shared \in run'.made => Mine(Shared)'
  <2>1. Shared \in run.made => Mine(Shared)
    BY <1>1, <1>2 DEF IInv, PromptsInv, Running
  <2>2. Shared \in PromptIds
    BY ArgsAre DEF Scripts
  <2>3. QED
    BY <1>3, <1>11, <1>10, <2>1, <2>2 DEF Mine
<1>13. Iterates(i) => s # "codegen"
  <2>1. Iterates(i) => run'.call = 1
    BY DEF Iterates
  <2>2. s = "codegen" => run.call # Len(Body)
    <3>1. PICK n \in Nat : n = Len(Body)
      BY <1>1, Under DEF IInv
    <3>2. s = "codegen" => 2 < n
      BY <1>2, <3>1
    <3>3. QED
      BY <1>2, <3>1, <3>2
  <2>3. s = "codegen" => Continues(i)
    BY <1>3, <2>2 DEF Steps
  <2>4. Continues(i) => run'.call = 3
    BY <1>2 DEF Continues
  <2>5. QED
    BY <2>1, <2>3, <2>4
<1>14. QED
  BY <1>1, <1>2, <1>3, <1>4, <1>11, <1>12, <1>13, <1>10, PromptsPhase

\* So does its translation.
LEMMA PutSpanishKeeps ==
    ASSUME IInv, NEW i \in PromptIds, PutSpanish(i)
    PROVE  IInv'
<1>1. /\ Running /\ Phase = "prompts" /\ Taken(i) /\ Body[run.call] = "spanish" /\ Advance(i)
      /\ prompts' = [prompts EXCEPT ![i].spanish = s]
      /\ UNCHANGED <<tenants, user, projects, scoped, assets, deployed>>
  BY DEF PutSpanish, At
<1>2. /\ s \in Examples /\ run.call = 3 /\ Mine(i) /\ Versioned(i)
  BY <1>1, InPrompts
<1>3. /\ Steps(i) /\ run'.made = run.made /\ run'.missed = run.missed
      /\ mishaps' = mishaps /\ done' = done /\ s' = s
  BY <1>1, AdvanceSteps, Ongoing DEF IInv
<1>4. prompts \in [PromptIds -> Prompt \cup {NULL}] /\ mishaps \in 0..MaxMishaps
  BY DEF IInv, TypeOK
<1>5. /\ prompts[i] \in Prompt /\ prompts[i].project = s /\ prompts[i].version = s
      /\ s = "codegen" => prompts[i].language = "en-US"
  BY <1>2, <1>4 DEF Mine, Versioned
<1>6. [prompts[i] EXCEPT !.spanish = s] \in Prompt
  BY <1>2, <1>5 DEF Prompt, Author, Examples
<1>7. /\ prompts'[i] = [prompts[i] EXCEPT !.spanish = s]
      /\ prompts' \in [PromptIds -> Prompt \cup {NULL}]
      /\ \A j \in PromptIds \ {i} : prompts'[j] = prompts[j]
  BY <1>1, <1>4, <1>6
<1>8. /\ prompts'[i].project = s /\ prompts'[i].version = s /\ prompts'[i].spanish = s
      /\ prompts'[i] # NULL /\ prompts'[i].language = prompts[i].language
  BY <1>5, <1>6, <1>7, NullIsNoRow DEF Prompt
<1>9. Versioned(i)' /\ Mine(i)'
  BY <1>3, <1>5, <1>8 DEF Versioned, Mine
<1>10. Shared \in run'.made => Mine(Shared)'
  <2>1. Shared \in run.made => Mine(Shared)
    BY <1>1, <1>2 DEF IInv, PromptsInv, Running
  <2>2. Shared \in PromptIds
    BY ArgsAre DEF Scripts
  <2>3. QED
    BY <1>3, <1>7, <1>9, <2>1, <2>2 DEF Mine
<1>11. QED
  BY <1>1, <1>2, <1>3, <1>4, <1>7, <1>8, <1>9, <1>10, PromptsPhase

\* An error costs no more than the prompt it is about.
LEMMA PromptFailsKeeps ==
    ASSUME IInv, NEW i \in PromptIds, PromptFails(i)
    PROVE  IInv'
<1>1. /\ Running /\ Phase = "prompts" /\ Taken(i) /\ mishaps < MaxMishaps /\ mishaps' = mishaps + 1
      /\ run' = [Passed(i) EXCEPT !.missed = @ \cup {i}]
      /\ UNCHANGED <<tenants, user, projects, scoped, prompts, assets, deployed, done>>
  BY DEF PromptFails, Mishap, tables
<1>2. s \in Examples /\ run \in Run
  BY <1>1, InPrompts, Under DEF IInv
<1>3. /\ Passed(i) \in Run /\ Passed(i).script = s
      /\ Passed(i).made = run.made /\ Passed(i).missed = run.missed
      /\ Passed(i).call = 1
      /\ \/ /\ run.handled \cup {i} # Args
            /\ Passed(i).phase = run.phase /\ Passed(i).handled = run.handled \cup {i}
         \/ /\ run.handled \cup {i} = Args
            /\ Passed(i).phase = run.phase + 1 /\ Passed(i).handled = {}
  BY <1>1, PassedIs DEF IInv
<1>4. /\ run' \in Run /\ run'.script = Passed(i).script /\ run'.made = Passed(i).made
      /\ run'.missed = Passed(i).missed \cup {i} /\ run'.call = Passed(i).call
      /\ run'.phase = Passed(i).phase /\ run'.handled = Passed(i).handled
  BY <1>1, <1>3 DEF Run
<1>5. Iterates(i) /\ ~Continues(i)
  <2>1. Iterates(i)
    BY <1>3, <1>4 DEF Iterates
  <2>2. run.call \in Nat \ {0} /\ run'.call = 1
    BY <1>2, <1>3, <1>4, RunFields
  <2>3. QED
    BY <2>1, <2>2 DEF Continues
<1>6. prompts \in [PromptIds -> Prompt \cup {NULL}] /\ mishaps' \in 0..MaxMishaps
  BY <1>1, MishapsAssumption DEF IInv, TypeOK
<1>7. Shared \in run'.made => Mine(Shared)'
  <2>1. Shared \in run.made => Mine(Shared)
    BY <1>1, <1>2 DEF IInv, PromptsInv, Running
  <2>2. s' = s
    BY <1>3, <1>4 DEF s
  <2>3. QED
    BY <1>1, <1>3, <1>4, <2>1, <2>2 DEF Mine
<1>8. QED
  BY <1>1, <1>2, <1>3, <1>4, <1>5, <1>6, <1>7, PromptsPhase

(***************************************************************************)
(* The loop over the assets.                                               *)
(***************************************************************************)
\* Where the loop over the assets is.
LEMMA InAssets ==
    ASSUME IInv, Running, Phase = "assets", NEW k, Taken(k)
    PROVE  /\ s \in Examples /\ run.phase = 3 /\ Args = Assets[s] /\ k \in Keys
           /\ run.call > 1 => k = run.arg /\ Shared \in run.made /\ assets[k] # NULL
           /\ run.call > 2 => assets[k].version = s
           /\ Body[run.call] = "asset" => run.call = 1 /\ run.call < Len(Body)
           /\ Body[run.call] = "assetVersion" => run.call = 2 /\ (s = "codegen" => run.call < Len(Body))
           /\ Body[run.call] = "assetSpanish" => run.call = 3
<1>1. s \in Examples /\ run.phase = 3 /\ Args = Assets[s] /\ k \in Keys
  BY Under, ArgsHere, PassedIs DEF IInv
<1>2. run # NULL /\ run.call \in Nat \ {0} /\ run.call <= Len(Body)
  BY <1>1, Under DEF IInv, Running
<1>3. run.call > 1 => k = run.arg
  BY <1>2 DEF Taken
<1>4. /\ run.call > 1 => Shared \in run.made /\ assets[run.arg] # NULL
      /\ run.call > 2 => assets[run.arg].version = s
  BY <1>1, <1>2 DEF IInv, AssetsInv
<1>5. Body = Calls[s]["assets"]
  BY DEF Body
<1>6. /\ Body[run.call] = "asset" => run.call = 1 /\ run.call < Len(Body)
      /\ Body[run.call] = "assetVersion" => run.call = 2 /\ (s = "codegen" => run.call < Len(Body))
      /\ Body[run.call] = "assetSpanish" => run.call = 3
  BY <1>1, <1>2, <1>5, Loops
<1>7. QED
  BY <1>1, <1>2, <1>3, <1>4, <1>6

\* A step of the loop keeps the invariant if it does what the place of the run after it
\* says of the asset, and nothing to the others.
LEMMA AssetsPhase ==
    ASSUME IInv, Running, Phase = "assets", NEW k, Taken(k), Steps(k) \/ Iterates(k),
           UNCHANGED <<tenants, user, projects, scoped, prompts, deployed, mishaps, done>>,
           run'.made = run.made, run'.missed = run.missed,
           assets' \in [Keys -> Asset \cup {NULL}],
           \A j \in Keys \ {k} : assets'[j] = assets[j],
           assets' = assets \/ Shared \in run.made,
           Continues(k) => Shared \in run.made /\ assets'[k] # NULL
                           /\ (run.call > 1 => assets'[k].version = s),
           Iterates(k) /\ Shared \in run.made =>
               /\ assets'[k] # NULL /\ assets'[k].version = s
               /\ s = "codegen" => assets'[k].spanish = s
    PROVE  IInv'
<1>1. s \in Examples /\ run.phase = 3 /\ Args = Assets[s] /\ k \in Keys
  BY InAssets
<1>2. /\ run' \in Run /\ s' = s /\ run # NULL /\ done' = NULL /\ k \in Args \ run.handled
      /\ run.call \in Nat \ {0} /\ run'.phase \in 1..6
  BY Ongoing DEF IInv
<1>3. RunOK'
  BY RunKept DEF IInv
<1>4. ProjectInv'
  <2>1. s' = s => \A c : Effect(c) => Effect(c)'
    <3>1. s' = s => Own' = Own
      BY DEF Own
    <3>2. QED
      BY <3>1 DEF Effect
  <2>2. QED
    BY <1>2, <2>1, ProjectKept DEF IInv
<1>5. PromptsInv'
  BY PromptsKept DEF IInv
<1>6. BaseInv'
  BY <1>1, <1>2, BaseKept DEF IInv, Examples
<1>7. TypeOK'
  <2>1. Shared \in run.made => prompts[Shared] # NULL
    BY <1>1, <1>2 DEF IInv, PromptsInv, Mine
  <2>2. QED
    BY <1>2, <2>1 DEF IInv, TypeOK, None
<1>8. AssetsInv'
  <2>1. ASSUME Shared \in run.made, NEW j \in Assets[s], Handled(3, j)'
        PROVE  /\ assets'[j] # NULL /\ assets'[j].version = s
               /\ s = "codegen" => assets'[j].spanish = s
    <3>1. j \in Keys
      BY <1>1, <2>1, ArgsAre DEF Examples
    <3>2. Handled(3, j) \/ (j = k /\ Iterates(k))
      BY <1>1, <2>1, HandledAfter DEF IInv
    <3>3. CASE j = k
      BY <1>1, <1>2, <2>1, <3>2, <3>3 DEF Handled
    <3>4. CASE j # k
      <4>1. /\ assets[j] # NULL /\ assets[j].version = s
            /\ s = "codegen" => assets[j].spanish = s
        BY <1>1, <1>2, <2>1, <3>2, <3>4 DEF IInv, AssetsInv
      <4>2. QED
        BY <1>2, <3>1, <3>4, <4>1
    <3>5. QED
      BY <3>3, <3>4
  <2>2. \A j : ~Handled(5, j)'
    BY <1>1, <1>2 DEF Handled, Steps, Continues, Iterates
  <2>3. run'.phase = 3 /\ run'.call > 1 => Shared \in run'.made /\ assets'[run'.arg] # NULL
    BY <1>2 DEF Steps, Continues, Iterates
  <2>4. run'.phase = 3 /\ run'.call > 2 => assets'[run'.arg].version = s
    BY <1>2 DEF Steps, Continues, Iterates
  <2>5. QED
    BY <1>2, <2>1, <2>2, <2>3, <2>4 DEF AssetsInv
<1>9. SeededIsWhole' /\ BaseIsAlone'
  BY <1>2, NoneDone
<1>10. QED
  BY <1>3, <1>4, <1>5, <1>6, <1>7, <1>8, <1>9 DEF IInv

\* Without the shared prompt, nothing is promised of an asset.
LEMMA PassOverKeeps ==
    ASSUME IInv, NEW k \in Keys, PassOver(k)
    PROVE  IInv'
<1>1. /\ Running /\ Phase = "assets" /\ Taken(k) /\ Body[run.call] = "asset"
      /\ Shared \notin run.made /\ run' = Passed(k)
      /\ UNCHANGED <<tenants, user, projects, scoped, prompts, assets, deployed, mishaps, done>>
  BY DEF PassOver, At, tables
<1>2. Iterates(k) /\ run'.made = run.made /\ run'.missed = run.missed
  BY <1>1, PassedIs DEF IInv, Iterates
<1>3. ~Continues(k)
  <2>1. run.call \in Nat \ {0} /\ run'.call = 1
    BY <1>1, <1>2, Under DEF IInv, Iterates
  <2>2. QED
    BY <2>1 DEF Continues
<1>4. assets \in [Keys -> Asset \cup {NULL}]
  BY DEF IInv, TypeOK
<1>5. QED
  BY <1>1, <1>2, <1>3, <1>4, AssetsPhase

\* An asset is there before its version.
LEMMA PutAssetKeeps ==
    ASSUME IInv, NEW k \in Keys, PutAsset(k)
    PROVE  IInv'
<1>1. /\ Running /\ Phase = "assets" /\ Taken(k) /\ Body[run.call] = "asset"
      /\ Shared \in run.made /\ Advance(k)
      /\ assets' = [assets EXCEPT ![k] =
            IF assets[k] = NULL THEN BareAsset ELSE assets[k]]
      /\ UNCHANGED <<tenants, user, projects, scoped, prompts, deployed>>
  BY DEF PutAsset, At
<1>2. run.call = 1 /\ run.call < Len(Body)
  BY <1>1, InAssets
<1>3. /\ Steps(k) /\ run'.made = run.made /\ run'.missed = run.missed
      /\ mishaps' = mishaps /\ done' = done
  BY <1>1, AdvanceSteps DEF IInv
<1>4. ~Iterates(k)
  <2>1. PICK n \in Nat : n = Len(Body)
    BY <1>1, Under DEF IInv
  <2>2. Continues(k)
    BY <1>2, <1>3, <2>1 DEF Steps
  <2>3. QED
    BY <1>2, <2>2 DEF Continues, Iterates
<1>5. assets \in [Keys -> Asset \cup {NULL}]
  BY DEF IInv, TypeOK
<1>6. BareAsset \in Asset
  BY DEF BareAsset, Asset, Author
<1>7. /\ assets' \in [Keys -> Asset \cup {NULL}] /\ assets'[k] # NULL
      /\ \A j \in Keys \ {k} : assets'[j] = assets[j]
  BY <1>1, <1>5, <1>6, NullIsNoRow
<1>8. QED
  BY <1>1, <1>2, <1>3, <1>4, <1>7, AssetsPhase

\* The version of an asset becomes the script's.
LEMMA PutAssetVersionKeeps ==
    ASSUME IInv, NEW k \in Keys, PutAssetVersion(k)
    PROVE  IInv'
<1>1. /\ Running /\ Phase = "assets" /\ Taken(k) /\ Body[run.call] = "assetVersion" /\ Advance(k)
      /\ assets' = [assets EXCEPT ![k].version = s]
      /\ UNCHANGED <<tenants, user, projects, scoped, prompts, deployed>>
  BY DEF PutAssetVersion, At
<1>2. /\ s \in Examples /\ run.call = 2 /\ Shared \in run.made /\ assets[k] # NULL
      /\ s = "codegen" => run.call < Len(Body)
  BY <1>1, InAssets
<1>3. /\ Steps(k) /\ run'.made = run.made /\ run'.missed = run.missed
      /\ mishaps' = mishaps /\ done' = done
  BY <1>1, AdvanceSteps DEF IInv
<1>4. assets \in [Keys -> Asset \cup {NULL}] /\ assets[k] \in Asset
  BY <1>2 DEF IInv, TypeOK
<1>5. [assets[k] EXCEPT !.version = s] \in Asset
  BY <1>2, <1>4 DEF Asset, Author, Examples
<1>6. /\ assets'[k] = [assets[k] EXCEPT !.version = s]
      /\ assets' \in [Keys -> Asset \cup {NULL}]
      /\ \A j \in Keys \ {k} : assets'[j] = assets[j]
  BY <1>1, <1>4, <1>5
<1>7. assets'[k].version = s /\ assets'[k] # NULL
  BY <1>4, <1>5, <1>6, NullIsNoRow DEF Asset
<1>8. Iterates(k) => s # "codegen"
  <2>1. PICK n \in Nat : n = Len(Body)
    BY <1>1, Under DEF IInv
  <2>2. s = "codegen" => Continues(k)
    BY <1>2, <1>3, <2>1 DEF Steps
  <2>3. ~(Continues(k) /\ Iterates(k))
    BY <1>2 DEF Continues, Iterates
  <2>4. QED
    BY <2>2, <2>3
<1>9. QED
  BY <1>1, <1>2, <1>3, <1>6, <1>7, <1>8, AssetsPhase

\* So does its translation.
LEMMA PutAssetSpanishKeeps ==
    ASSUME IInv, NEW k \in Keys, PutAssetSpanish(k)
    PROVE  IInv'
<1>1. /\ Running /\ Phase = "assets" /\ Taken(k) /\ Body[run.call] = "assetSpanish" /\ Advance(k)
      /\ assets' = [assets EXCEPT ![k].spanish = s]
      /\ UNCHANGED <<tenants, user, projects, scoped, prompts, deployed>>
  BY DEF PutAssetSpanish, At
<1>2. /\ s \in Examples /\ run.call = 3 /\ Shared \in run.made /\ assets[k] # NULL
      /\ assets[k].version = s
  BY <1>1, InAssets
<1>3. /\ Steps(k) /\ run'.made = run.made /\ run'.missed = run.missed
      /\ mishaps' = mishaps /\ done' = done
  BY <1>1, AdvanceSteps DEF IInv
<1>4. assets \in [Keys -> Asset \cup {NULL}] /\ assets[k] \in Asset
  BY <1>2 DEF IInv, TypeOK
<1>5. [assets[k] EXCEPT !.spanish = s] \in Asset
  BY <1>2, <1>4 DEF Asset, Author, Examples
<1>6. /\ assets'[k] = [assets[k] EXCEPT !.spanish = s]
      /\ assets' \in [Keys -> Asset \cup {NULL}]
      /\ \A j \in Keys \ {k} : assets'[j] = assets[j]
  BY <1>1, <1>4, <1>5
<1>7. assets'[k].version = s /\ assets'[k].spanish = s /\ assets'[k] # NULL
  BY <1>2, <1>4, <1>5, <1>6, NullIsNoRow DEF Asset
<1>8. QED
  BY <1>1, <1>2, <1>3, <1>6, <1>7, AssetsPhase

(***************************************************************************)
(* The translations of the invoice example.                                *)
(***************************************************************************)
\* The script translates its own prompts, and what else it finds changes only its translation.
LEMMA TranslateKeeps ==
    ASSUME IInv, NEW i \in PromptIds, Translate(i)
    PROVE  IInv'
<1>1. /\ Running /\ Phase = "translate" /\ Taken(i) /\ Advance(i)
      /\ prompts' =
            IF ~Translated(i) THEN prompts
            ELSE [prompts EXCEPT ![i].spanish = TranslatedBy(i \in Prompts[s], prompts[i].version)]
      /\ UNCHANGED <<tenants, user, projects, scoped, assets, deployed>>
  BY DEF Translate, At
<1>2. s = "invoice" /\ run.phase = 4 /\ Args = PromptIds
  BY <1>1, Under, ArgsHere DEF IInv
<1>3. /\ Steps(i) /\ run'.made = run.made /\ run'.missed = run.missed
      /\ mishaps' = mishaps /\ done' = done
  BY <1>1, AdvanceSteps DEF IInv
<1>4. /\ run' \in Run /\ s' = s /\ run # NULL /\ done = NULL /\ i \in Args \ run.handled
      /\ run.call \in Nat \ {0} /\ run'.phase \in 1..6
  BY <1>1, <1>3, Ongoing DEF IInv
<1>5. prompts \in [PromptIds -> Prompt \cup {NULL}]
  BY DEF IInv, TypeOK
<1>6. /\ prompts' \in [PromptIds -> Prompt \cup {NULL}]
      /\ \A j \in PromptIds : prompts[j] = NULL <=> prompts'[j] = NULL
      /\ \A j \in PromptIds : prompts[j] # NULL =>
            /\ prompts'[j].project = prompts[j].project /\ prompts'[j].version = prompts[j].version
            /\ prompts'[j].language = prompts[j].language
      /\ \A j \in PromptIds \ {i} : prompts'[j] = prompts[j]
  <2>1. CASE prompts' = prompts
    BY <1>5, <2>1
  <2>2. CASE prompts' # prompts
    <3>1. /\ prompts[i] # NULL /\ prompts[i] \in Prompt
          /\ prompts' = [prompts EXCEPT ![i].spanish = TranslatedBy(i \in Prompts[s], prompts[i].version)]
      BY <1>1, <1>5, <2>2 DEF Translated
    <3>2. TranslatedBy(i \in Prompts[s], prompts[i].version) \in Author
      BY <1>2, <3>1 DEF TranslatedBy, Author, Prompt, Scripts
    <3>3. PICK text \in Author : prompts' = [prompts EXCEPT ![i].spanish = text]
      BY <3>1, <3>2
    <3>4. [prompts[i] EXCEPT !.spanish = text] \in Prompt
      BY <3>1 DEF Prompt
    <3>5. /\ [prompts[i] EXCEPT !.spanish = text].project = prompts[i].project
          /\ [prompts[i] EXCEPT !.spanish = text].version = prompts[i].version
          /\ [prompts[i] EXCEPT !.spanish = text].language = prompts[i].language
      BY <3>1 DEF Prompt
    <3>6. prompts' = [prompts EXCEPT ![i] = [prompts[i] EXCEPT !.spanish = text]]
      BY <3>3
    <3>7. PICK row \in Prompt : /\ prompts' = [prompts EXCEPT ![i] = row]
                                /\ row.project = prompts[i].project /\ row.version = prompts[i].version
                                /\ row.language = prompts[i].language
      BY <3>4, <3>5, <3>6
    <3>8. QED
      BY <1>5, <3>1, <3>7, NullIsNoRow
  <2>3. QED
    BY <2>1, <2>2
<1>7. i \in Prompts[s] /\ Versioned(i) /\ prompts[i].language # "es-ES" => prompts'[i].spanish = s
  <2>1. SUFFICES ASSUME i \in Prompts[s], Versioned(i), prompts[i].language # "es-ES"
                 PROVE  prompts'[i].spanish = s
    OBVIOUS
  <2>2. s # NULL
    BY <1>2, NullAssumption DEF Scripts
  <2>3. /\ prompts[i] # NULL /\ prompts[i] \in Prompt /\ prompts[i].project = s
        /\ prompts[i].version # NULL
    BY <1>5, <2>1, <2>2 DEF Versioned, Mine
  <2>4. prompts' = [prompts EXCEPT ![i].spanish = s]
    BY <1>1, <2>1, <2>3 DEF Translated, TranslatedBy
  <2>5. QED
    BY <1>5, <2>3, <2>4 DEF Prompt
<1>8. RunOK'
  BY <1>1, <1>3, RunKept DEF IInv
<1>9. ProjectInv'
  <2>1. s' = s => \A c : Effect(c) => Effect(c)'
    <3>1. s' = s => Own' = Own
      BY <1>1 DEF Own
    <3>2. QED
      BY <1>1, <3>1 DEF Effect
  <2>2. QED
    BY <1>1, <1>3, <1>4, <2>1, ProjectKept DEF IInv
<1>10. AssetsInv'
  BY <1>1, <1>3, AssetsKept DEF IInv
<1>11. BaseInv'
  BY <1>1, <1>2, <1>3, BaseKept DEF IInv
<1>12. TypeOK'
  <2>1. TypeOK /\ Shared \in PromptIds
    BY ArgsAre DEF IInv, Scripts
  <2>2. \A j \in PromptIds : prompts'[j] # NULL => projects[prompts'[j].project] # NULL /\ user # NULL
    BY <1>6, <2>1 DEF TypeOK
  <2>3. prompts'[Shared] = NULL => prompts[Shared] = NULL
    BY <1>6, <2>1
  <2>4. QED
    BY <1>1, <1>3, <1>4, <1>6, <2>1, <2>2, <2>3 DEF TypeOK, None
<1>13. PromptsInv'
  <2>1. \A j \in PromptIds : (Mine(j) => Mine(j)') /\ (Versioned(j) => Versioned(j)')
    BY <1>4, <1>6 DEF Mine, Versioned
  <2>2. ASSUME NEW j \in Prompts[s], Handled(2, j)', j \notin run'.missed
        PROVE  /\ Versioned(j)'
               /\ Handled(4, j)' /\ prompts'[j].language # "es-ES" => prompts'[j].spanish = s
    <3>1. j \in PromptIds
      BY <1>2, ArgsAre DEF Scripts
    <3>2. Handled(2, j)
      BY <1>2 DEF Handled
    <3>3. Versioned(j) /\ (Handled(4, j) /\ prompts[j].language # "es-ES" => prompts[j].spanish = s)
      BY <1>2, <1>3, <1>4, <2>2, <3>2 DEF IInv, PromptsInv, Examples, Scripts
    <3>4. Handled(4, j)' => Handled(4, j) \/ j = i
      BY <1>1, <1>2, <1>3, <3>1, HandledAfter DEF IInv
    <3>5. j # i => prompts'[j] = prompts[j]
      BY <1>6, <3>1
    <3>6. prompts'[j].language = prompts[j].language
      BY <1>6, <3>1, <3>3 DEF Versioned, Mine
    <3>7. QED
      BY <1>2, <1>4, <1>7, <2>1, <3>1, <3>3, <3>4, <3>5, <3>6 DEF Handled
  <2>3. run'.phase # 2
    BY <1>2, <1>4, <1>3 DEF Steps, Continues, Iterates
  <2>4. Shared \in run'.made => Mine(Shared)'
    BY <1>2, <1>3, <1>4, <2>1, ArgsAre DEF IInv, PromptsInv, Examples, Scripts
  <2>5. QED
    BY <1>2, <1>4, <2>2, <2>3, <2>4 DEF PromptsInv
<1>14. SeededIsWhole' /\ BaseIsAlone'
  BY <1>3, <1>4, NoneDone
<1>15. QED
  BY <1>8, <1>9, <1>10, <1>11, <1>12, <1>13, <1>14 DEF IInv

\* The same of assets.
LEMMA TranslateAssetKeeps ==
    ASSUME IInv, NEW k \in Keys, TranslateAsset(k)
    PROVE  IInv'
<1>1. /\ Running /\ Phase = "translateAssets" /\ Taken(k) /\ Advance(k)
      /\ assets' =
            IF assets[k] = NULL \/ prompts[Shared].project # s \/ assets[k].version = NULL THEN assets
            ELSE [assets EXCEPT ![k].spanish = TranslatedBy(k \in Assets[s], assets[k].version)]
      /\ UNCHANGED <<tenants, user, projects, scoped, prompts, deployed>>
  BY DEF TranslateAsset, At
<1>2. s = "invoice" /\ run.phase = 5 /\ Args = Keys
  BY <1>1, Under, ArgsHere DEF IInv
<1>3. /\ Steps(k) /\ run'.made = run.made /\ run'.missed = run.missed
      /\ mishaps' = mishaps /\ done' = done
  BY <1>1, AdvanceSteps DEF IInv
<1>4. /\ run' \in Run /\ s' = s /\ run # NULL /\ done = NULL /\ k \in Args \ run.handled
      /\ run.call \in Nat \ {0} /\ run'.phase \in 1..6
  BY <1>1, <1>3, Ongoing DEF IInv
<1>5. assets \in [Keys -> Asset \cup {NULL}]
  BY DEF IInv, TypeOK
<1>6. /\ assets' \in [Keys -> Asset \cup {NULL}]
      /\ \A j \in Keys : assets[j] = NULL <=> assets'[j] = NULL
      /\ \A j \in Keys : assets[j] # NULL => assets'[j].version = assets[j].version
      /\ \A j \in Keys \ {k} : assets'[j] = assets[j]
  <2>1. CASE assets' = assets
    BY <1>5, <2>1
  <2>2. CASE assets' # assets
    <3>1. /\ assets[k] # NULL /\ assets[k] \in Asset
          /\ assets' = [assets EXCEPT ![k].spanish = TranslatedBy(k \in Assets[s], assets[k].version)]
      BY <1>1, <1>5, <2>2
    <3>2. TranslatedBy(k \in Assets[s], assets[k].version) \in Author
      BY <1>2, <3>1 DEF TranslatedBy, Author, Asset, Scripts
    <3>3. PICK text \in Author : assets' = [assets EXCEPT ![k].spanish = text]
      BY <3>1, <3>2
    <3>4. /\ [assets[k] EXCEPT !.spanish = text] \in Asset
          /\ [assets[k] EXCEPT !.spanish = text].version = assets[k].version
      BY <3>1 DEF Asset
    <3>5. assets' = [assets EXCEPT ![k] = [assets[k] EXCEPT !.spanish = text]]
      BY <3>3
    <3>6. PICK row \in Asset : assets' = [assets EXCEPT ![k] = row] /\ row.version = assets[k].version
      BY <3>4, <3>5
    <3>7. QED
      BY <1>5, <3>1, <3>6, NullIsNoRow
  <2>3. QED
    BY <2>1, <2>2
<1>7. /\ k \in Assets[s] /\ Shared \in run.made /\ assets[k] # NULL /\ assets[k].version = s
      => assets'[k].spanish = s
  <2>1. SUFFICES ASSUME k \in Assets[s], Shared \in run.made, assets[k] # NULL, assets[k].version = s
                 PROVE  assets'[k].spanish = s
    OBVIOUS
  <2>2. s # NULL
    BY <1>2, NullAssumption DEF Scripts
  <2>3. prompts[Shared].project = s
    BY <1>2, <1>4, <2>1 DEF IInv, PromptsInv, Mine, Examples, Scripts
  <2>4. assets' = [assets EXCEPT ![k].spanish = s] /\ assets[k] \in Asset
    BY <1>1, <1>5, <2>1, <2>2, <2>3 DEF TranslatedBy
  <2>5. QED
    BY <1>5, <2>4 DEF Asset
<1>8. RunOK'
  BY <1>1, <1>3, RunKept DEF IInv
<1>9. ProjectInv'
  <2>1. s' = s => \A c : Effect(c) => Effect(c)'
    <3>1. s' = s => Own' = Own
      BY <1>1 DEF Own
    <3>2. QED
      BY <1>1, <3>1 DEF Effect
  <2>2. QED
    BY <1>1, <1>3, <1>4, <2>1, ProjectKept DEF IInv
<1>10. PromptsInv'
  BY <1>1, <1>3, PromptsKept DEF IInv
<1>11. BaseInv'
  BY <1>1, <1>2, <1>3, BaseKept DEF IInv
<1>12. TypeOK'
  <2>1. prompts[Shared] = NULL => assets' = None(assets')
    <3>1. SUFFICES ASSUME prompts[Shared] = NULL
                   PROVE  assets' = None(assets')
      OBVIOUS
    <3>2. \A j \in Keys : assets[j] = NULL
      BY <1>5, <3>1 DEF IInv, TypeOK, None
    <3>3. QED
      BY <1>6, <3>2 DEF None
  <2>2. QED
    BY <1>1, <1>3, <1>4, <1>6, <2>1 DEF IInv, TypeOK
<1>13. AssetsInv'
  <2>1. ASSUME NEW j \in Assets[s], Handled(3, j)', Shared \in run.made
        PROVE  /\ assets'[j] # NULL /\ assets'[j].version = s
               /\ Handled(5, j)' => assets'[j].spanish = s
    <3>1. j \in Keys
      BY <1>2, ArgsAre DEF Scripts
    <3>2. Handled(3, j)
      BY <1>2 DEF Handled
    <3>3. assets[j] # NULL /\ assets[j].version = s /\ (Handled(5, j) => assets[j].spanish = s)
      BY <1>2, <1>4, <2>1, <3>2 DEF IInv, AssetsInv, Examples, Scripts
    <3>4. Handled(5, j)' => Handled(5, j) \/ j = k
      BY <1>1, <1>2, <1>3, <3>1, HandledAfter DEF IInv
    <3>5. j # k => assets'[j] = assets[j]
      BY <1>6, <3>1
    <3>6. QED
      BY <1>2, <1>4, <1>6, <1>7, <2>1, <3>1, <3>3, <3>4, <3>5 DEF Handled
  <2>2. run'.phase # 3
    BY <1>2, <1>4, <1>3 DEF Steps, Continues, Iterates
  <2>3. QED
    BY <1>2, <1>3, <1>4, <2>1, <2>2 DEF AssetsInv
<1>14. SeededIsWhole' /\ BaseIsAlone'
  BY <1>3, <1>4, NoneDone
<1>15. QED
  BY <1>8, <1>9, <1>10, <1>11, <1>12, <1>13, <1>14 DEF IInv

(***************************************************************************)
(* The deletions.                                                          *)
(***************************************************************************)
\* Which deletion is where.
LEMMA Deletions ==
    ASSUME NEW n \in 1..14
    PROVE  /\ Emptying[n] = "prompt" <=> n = 6
           /\ Emptying[n] = "culturalData" <=> n = 7
           /\ Emptying[n] = "region" <=> n = 8
           /\ Emptying[n] = "environment" <=> n = 9
           /\ Emptying[n] = "project" <=> n = 12
           /\ Emptying[n] = "user" <=> n = 13
           /\ Emptying[n] = "tenant" <=> n = 14
           /\ Emptying[n] \in {"promptTranslation", "promptVersion"} => n < 6
<1>1. n \in {1, 2, 3, 4, 5, 6, 7, 8, 9, 10, 11, 12, 13, 14}
  OBVIOUS
<1>2. CASE n \in {1, 2, 3, 4, 5}
  BY <1>2 DEF Emptying
<1>3. CASE n \in {6, 7, 8, 9}
  BY <1>3 DEF Emptying
<1>4. CASE n \in {10, 11, 12, 13, 14}
  BY <1>4 DEF Emptying
<1>5. QED
  BY <1>1, <1>2, <1>3, <1>4

\* Where the script is when it deletes.
LEMMA InEmpty ==
    ASSUME IInv, Running, Phase = "empty"
    PROVE  /\ s = "base" /\ run.phase = 1 /\ Body = Emptying /\ Len(Body) = 14 /\ run.call \in 1..14
           /\ Taken(NULL)
           /\ run.call > 6 => prompts = None(prompts)
           /\ run.call > 7 => Without("culturalData") = scoped
           /\ run.call > 12 => projects = None(projects) /\ scoped = {}
           /\ run.call > 13 => user = NULL
<1>1. s = "base" /\ run.phase = 1 /\ run.call \in 1..Len(Body)
  BY Under DEF IInv
<1>2. Body = Emptying /\ Len(Body) = 14
  BY <1>1, Bodies DEF Body
<1>3. Taken(NULL)
  BY ArgsHere DEF IInv, Taken, RunOK, Running
<1>4. QED
  BY <1>1, <1>2, <1>3 DEF IInv, BaseInv, Running

\* What a deletion does to the texts.
LEMMA TextsDeleted ==
    ASSUME IInv, DeleteAll
    PROVE  /\ assets' \in [Keys -> Asset \cup {NULL}]
           /\ assets = None(assets) => assets' = None(assets')
           /\ prompts' \in [PromptIds -> Prompt \cup {NULL}]
           /\ \A i \in PromptIds : prompts'[i] # NULL =>
                 prompts[i] # NULL /\ prompts'[i].project = prompts[i].project
           /\ Emptied = "prompt" => assets' = None(assets') /\ prompts' = None(prompts')
           /\ Emptied # "prompt" /\ prompts'[Shared] = NULL => prompts[Shared] = NULL
           /\ Emptied \notin {"promptTranslation", "promptVersion", "prompt"} => prompts' = prompts
<1>1. prompts \in [PromptIds -> Prompt \cup {NULL}] /\ assets \in [Keys -> Asset \cup {NULL}]
  BY DEF IInv, TypeOK
<1>2. Shared \in PromptIds
  BY ArgsAre DEF Scripts
<1>3. /\ \A row \in Prompt : /\ [row EXCEPT !.spanish = NULL] \in Prompt
                             /\ [row EXCEPT !.spanish = NULL].project = row.project
      /\ \A row \in Asset : [row EXCEPT !.spanish = NULL] \in Asset
  BY DEF Prompt, Asset, Author
<1>4. PICK bareP : bareP = [i \in PromptIds |-> IF prompts[i] = NULL THEN NULL ELSE Bare(prompts[i].project)]
  OBVIOUS
<1>5. PICK bareA : bareA = [k \in Keys |-> IF assets[k] = NULL THEN NULL ELSE BareAsset]
  OBVIOUS
<1>6. /\ \A row \in Prompt : Bare(row.project) \in Prompt /\ Bare(row.project).project = row.project
      /\ BareAsset \in Asset
  BY DEF Bare, BareAsset, Prompt, Asset, Author, Languages
<1>7. /\ Untranslated(assets) \in [Keys -> Asset \cup {NULL}]
       /\ bareA \in [Keys -> Asset \cup {NULL}]
       /\ None(assets) \in [Keys -> Asset \cup {NULL}]
  BY <1>1, <1>3, <1>5, <1>6 DEF Untranslated, None
<1>8. ASSUME assets = None(assets)
       PROVE  /\ Untranslated(assets) = None(Untranslated(assets))
              /\ bareA = None(bareA)
  <2>1. \A k \in Keys : assets[k] = NULL
    BY <1>1, <1>8 DEF None
  <2>2. QED
    BY <1>1, <1>5, <2>1 DEF Untranslated, None
<1>9. /\ None(None(assets)) = None(assets) /\ None(None(prompts)) = None(prompts)
      /\ \A i \in PromptIds : None(prompts)[i] = NULL
      /\ None(prompts) \in [PromptIds -> Prompt \cup {NULL}]
  BY <1>1 DEF None
<1>10. /\ Untranslated(prompts) \in [PromptIds -> Prompt \cup {NULL}]
      /\ \A i \in PromptIds :
            /\ prompts[i] = NULL <=> Untranslated(prompts)[i] = NULL
            /\ prompts[i] # NULL => Untranslated(prompts)[i].project = prompts[i].project
  BY <1>1, <1>3, NullIsNoRow DEF Untranslated
<1>11. /\ bareP \in [PromptIds -> Prompt \cup {NULL}]
      /\ \A i \in PromptIds :
            /\ prompts[i] = NULL <=> bareP[i] = NULL
            /\ prompts[i] # NULL => bareP[i].project = prompts[i].project
  BY <1>1, <1>4, <1>6, NullIsNoRow
<1>12. /\ assets' \in {assets, Untranslated(assets), bareA, None(assets)}
       /\ Emptied = "prompt" => assets' = None(assets)
  BY <1>5 DEF DeleteAll
<1>13. /\ Emptied = "promptTranslation" => prompts' = Untranslated(prompts)
       /\ Emptied = "promptVersion" => prompts' = bareP
       /\ Emptied = "prompt" => prompts' = None(prompts)
       /\ Emptied \notin {"promptTranslation", "promptVersion", "prompt"} => prompts' = prompts
  BY <1>4 DEF DeleteAll
<1>14. assets' \in [Keys -> Asset \cup {NULL}] /\ (assets = None(assets) => assets' = None(assets'))
  BY <1>1, <1>7, <1>8, <1>9, <1>12
<1>15. Emptied = "prompt" => assets' = None(assets') /\ prompts' = None(prompts')
  BY <1>9, <1>12, <1>13
<1>16. /\ prompts' \in [PromptIds -> Prompt \cup {NULL}]
       /\ \A i \in PromptIds : prompts'[i] # NULL =>
             prompts[i] # NULL /\ prompts'[i].project = prompts[i].project
       /\ Emptied # "prompt" /\ prompts'[Shared] = NULL => prompts[Shared] = NULL
  BY <1>1, <1>2, <1>9, <1>10, <1>11, <1>13
<1>17. QED
  BY <1>13, <1>14, <1>15, <1>16

\* What a deletion does to the other tables.
LEMMA RowsDeleted ==
    ASSUME IInv, DeleteAll
    PROVE  /\ scoped' \subseteq scoped
           /\ Emptied = "culturalData" => scoped' = Without("culturalData")
           /\ Emptied \notin {"project", "environment"} =>
                 \A p \in deployed : <<p, "environment">> \in scoped'
           /\ Emptied \in {"project", "environment"} => deployed = {}
           /\ Emptied = "project" => scoped' = {} /\ prompts = None(prompts)
           /\ Emptied = "user" => projects = None(projects) /\ prompts = None(prompts)
           /\ projects' = (IF Emptied \in {"project", "tenant"} THEN None(projects) ELSE projects)
           /\ user' = (IF Emptied \in {"user", "tenant"} THEN NULL ELSE user)
           /\ tenants' = (IF Emptied = "tenant" THEN {} ELSE tenants)
           /\ deployed' = deployed /\ Advance(NULL) /\ Running /\ Phase = "empty"
<1>1. scoped' \in {Without(Emptied), {}, scoped} /\ Deletable(Emptied)
  BY DEF DeleteAll
<1>2. /\ Emptied = "culturalData" => scoped' = Without("culturalData")
      /\ Emptied = "project" => scoped' = {}
      /\ Emptied \in Kinds => scoped' = Without(Emptied)
      /\ Emptied \notin Kinds \cup {"project"} => scoped' = scoped
  BY DEF DeleteAll, Kinds
<1>3. /\ Emptied \in {"project", "environment"} => deployed = {}
      /\ Emptied = "project" => prompts = None(prompts)
      /\ Emptied = "user" => projects = None(projects) /\ prompts = None(prompts)
  BY <1>1 DEF Deletable
<1>4. scoped' \subseteq scoped
  BY <1>1 DEF Without
<1>5. Emptied \notin {"project", "environment"} => \A p \in deployed : <<p, "environment">> \in scoped'
  <2>1. \A p \in deployed : <<p, "environment">> \in scoped
    BY DEF IInv, TypeOK
  <2>2. QED
    BY <1>2, <2>1 DEF Without
<1>6. /\ projects' = (IF Emptied \in {"project", "tenant"} THEN None(projects) ELSE projects)
      /\ user' = (IF Emptied \in {"user", "tenant"} THEN NULL ELSE user)
      /\ tenants' = (IF Emptied = "tenant" THEN {} ELSE tenants)
      /\ deployed' = deployed /\ Advance(NULL) /\ Running /\ Phase = "empty"
  BY DEF DeleteAll
<1>7. QED
  BY <1>2, <1>3, <1>4, <1>5, <1>6

\* A deletion keeps the types.
LEMMA DeletionTypes ==
    ASSUME IInv, DeleteAll, run' \in Run, done' = done, mishaps' = mishaps
    PROVE  TypeOK'
<1>1. /\ s = "base" /\ run.call \in 1..14
      /\ run.call > 12 => projects = None(projects) /\ scoped = {}
      /\ run.call > 6 => prompts = None(prompts)
  BY RowsDeleted, InEmpty
<1>2. TypeOK /\ Shared \in PromptIds
  BY ArgsAre DEF IInv, Scripts
<1>3. /\ Emptied = "tenant" => run.call = 14
      /\ Emptied \in {"promptTranslation", "promptVersion", "prompt"} => run.call < 7
  BY <1>1, Deletions DEF Emptied
<1>4. \A i \in PromptIds : None(prompts)[i] = NULL
  BY <1>2 DEF None, TypeOK
<1>5. \A x \in Scripts : None(projects)[x] = NULL
  BY <1>2 DEF None, TypeOK
<1>6. None(projects) \in [Scripts -> {NULL}]
  BY <1>2 DEF None, TypeOK
<1>7. tenants' \subseteq Tenants /\ user' \in tenants' \cup {NULL}
  BY <1>2, RowsDeleted DEF TypeOK
<1>8. projects' \in [Scripts -> tenants' \cup {NULL}]
  BY <1>2, <1>6, RowsDeleted DEF TypeOK
<1>9. scoped' \subseteq Scripts \X Kinds /\ \A r \in scoped' : projects'[r[1]] # NULL
  BY <1>1, <1>2, <1>3, RowsDeleted DEF TypeOK
<1>10. Emptied \in {"project", "user", "tenant"} => \A i \in PromptIds : prompts'[i] = NULL
  <2>1. Emptied \in {"project", "user", "tenant"} => prompts = None(prompts) /\ prompts' = prompts
    BY <1>1, <1>3, RowsDeleted, TextsDeleted
  <2>2. QED
    BY <1>4, <2>1
<1>11. \A i \in PromptIds : prompts'[i] # NULL => projects'[prompts'[i].project] # NULL /\ user' # NULL
  BY <1>2, <1>10, TextsDeleted, RowsDeleted DEF TypeOK
<1>12. prompts'[Shared] = NULL => assets' = None(assets')
  BY <1>2, TextsDeleted DEF TypeOK
<1>13. \A p \in deployed' : <<p, "environment">> \in scoped'
  BY RowsDeleted
<1>14. QED
  BY <1>2, <1>7, <1>8, <1>9, <1>11, <1>12, <1>13, TextsDeleted DEF TypeOK

\* A deletion leaves what it has deleted empty.
LEMMA DeleteAllKeeps ==
    ASSUME IInv, DeleteAll
    PROVE  IInv'
<1>1. /\ s = "base" /\ run.phase = 1 /\ Len(Body) = 14 /\ run.call \in 1..14 /\ Taken(NULL)
      /\ run.call > 6 => prompts = None(prompts)
      /\ run.call > 7 => Without("culturalData") = scoped
      /\ run.call > 12 => projects = None(projects) /\ scoped = {}
      /\ run.call > 13 => user = NULL
      /\ Advance(NULL) /\ Running /\ Phase = "empty" /\ deployed' = deployed
  BY RowsDeleted, InEmpty
<1>2. /\ Steps(NULL) /\ run'.made = run.made /\ run'.missed = run.missed
      /\ mishaps' = mishaps /\ done' = done
  BY <1>1, AdvanceSteps DEF IInv
<1>3. /\ run' \in Run /\ s' = s /\ run # NULL /\ done = NULL
      /\ run.call \in Nat \ {0} /\ run'.phase \in 1..6
  BY <1>1, <1>2, Ongoing DEF IInv
<1>4. TypeOK'
  BY <1>2, <1>3, DeletionTypes
<1>5. RunOK'
  BY <1>1, <1>2, RunKept DEF IInv
<1>6. ProjectInv'
  BY <1>1, <1>2, ProjectKept DEF IInv
<1>7. PromptsInv' /\ AssetsInv'
  BY <1>1, <1>3 DEF PromptsInv, AssetsInv, Examples
<1>8. BaseInv'
  <2>1. /\ run.call >= 6 => prompts' = None(prompts')
        /\ run.call >= 7 => Without("culturalData")' = scoped'
        /\ run.call >= 12 => projects' = None(projects') /\ scoped' = {}
        /\ run.call >= 13 => user' = NULL
        /\ run.call >= 14 => tenants' = {}
    <3>1. /\ Emptied = "prompt" <=> run.call = 6
          /\ Emptied = "culturalData" <=> run.call = 7
          /\ Emptied = "project" <=> run.call = 12
          /\ Emptied = "user" <=> run.call = 13
          /\ Emptied = "tenant" <=> run.call = 14
          /\ Emptied \in {"promptTranslation", "promptVersion"} => run.call < 6
      BY <1>1, Deletions DEF Emptied
    <3>2. run.call >= 6 => prompts' = None(prompts')
      BY <1>1, <3>1, TextsDeleted
    <3>3. run.call >= 7 => Without("culturalData")' = scoped'
      BY <1>1, <3>1, RowsDeleted DEF Without
    <3>4. None(None(projects)) = None(projects)
      BY DEF None
    <3>5. run.call >= 12 => projects' = None(projects') /\ scoped' = {}
      BY <1>1, <3>1, <3>4, RowsDeleted
    <3>6. run.call >= 13 => user' = NULL
      BY <1>1, <3>1, RowsDeleted
    <3>7. run.call >= 14 => tenants' = {}
      BY <1>1, <3>1, RowsDeleted
    <3>8. QED
      BY <3>2, <3>3, <3>5, <3>6, <3>7
  <2>2. CASE Continues(NULL)
    <3>1. run'.call = run.call + 1 /\ run'.phase = 1
      BY <1>1, <2>2 DEF Continues
    <3>2. QED
      BY <1>1, <1>3, <2>1, <3>1 DEF BaseInv
  <2>3. CASE run.call = Len(Body) /\ Iterates(NULL)
    <3>1. run.call = 14 /\ run'.call = 1 /\ run'.phase = 2
      <4>1. Args = {NULL} /\ run.handled = {}
        BY <1>1, ArgsHere DEF IInv
      <4>2. QED
        BY <1>1, <2>3, <4>1 DEF Iterates
    <3>2. \A e \in Examples : projects'[e] = NULL
      BY <1>4, <2>1, <3>1 DEF TypeOK, None, Examples
    <3>3. QED
      BY <1>1, <1>3, <2>1, <3>1, <3>2 DEF BaseInv
  <2>4. QED
    BY <1>2, <2>2, <2>3 DEF Steps
<1>9. SeededIsWhole' /\ BaseIsAlone'
  BY <1>2, <1>3, NoneDone
<1>10. QED
  BY <1>4, <1>5, <1>6, <1>7, <1>8, <1>9 DEF IInv

(***************************************************************************)
(* The ends of runs, and what happens between them.                        *)
(***************************************************************************)
\* With no run there is nothing to say of where it is.
LEMMA NoRun ==
    ASSUME run' = NULL
    PROVE  RunOK' /\ BaseInv' /\ ProjectInv' /\ PromptsInv' /\ AssetsInv'
  BY DEF RunOK, BaseInv, ProjectInv, PromptsInv, AssetsInv

\* Starting a script keeps the invariant.
LEMMA StartKeeps ==
    ASSUME IInv, NEW script \in Scripts, Start(script)
    PROVE  IInv'
<1>1. /\ run' = [script |-> script, phase |-> 1, handled |-> {}, call |-> 1, arg |-> NULL,
                 made |-> {}, missed |-> {}]
      /\ done' = NULL
      /\ UNCHANGED <<tenants, user, projects, scoped, prompts, assets, deployed, mishaps>>
  BY DEF Start, tables
<1>2. run' \in Run /\ run'.phase = 1 /\ run'.handled = {} /\ run'.call = 1 /\ run'.made = {}
  BY <1>1 DEF Run
<1>3. s' = script
  BY <1>1 DEF s
<1>4. RunOK'
  <2>1. 1 \in 1..Len(Program[script])
    <3>1. PICK n \in 2..5 : n = Len(Program[script])
      BY Phases DEF Scripts
    <3>2. 1 \in 1..n
      OBVIOUS
    <3>3. QED
      BY <3>1, <3>2
  <2>2. Phase' = Program[script][1] /\ Body' = Calls[script][Program[script][1]]
    BY <1>2, <1>3 DEF Phase, Body
  <2>3. Len(Body') \in Nat \ {0}
    BY <2>1, <2>2, Shapes
  <2>4. Program[script][1] \in {"empty", "project"}
    BY <2>1, Shapes DEF ProjectAt
  <2>5. Args' = {NULL}
    BY <1>3, <2>2, <2>4, ArgsAre DEF Args
  <2>6. 1 \in 1..Len(Body')
    BY <2>3
  <2>7. 1 \in 1..(Len(Program[script]) + 1)
    <3>1. PICK n \in 2..5 : n = Len(Program[script])
      BY Phases DEF Scripts
    <3>2. 1 \in 1..(n + 1)
      OBVIOUS
    <3>3. QED
      BY <3>1, <3>2
  <2>8. QED
    BY <1>1, <1>2, <1>3, <2>5, <2>6, <2>7 DEF RunOK
<1>5. TypeOK'
  BY <1>1, <1>2 DEF IInv, TypeOK
<1>6. BaseInv'
  BY <1>2 DEF BaseInv
<1>7. ProjectInv'
  <2>1. \A n \in 1..Len(Calls[script]["project"]) : ~Past(n)'
    BY <1>2, <1>3 DEF Past, ProjectAt
  <2>2. QED
    BY <1>3, <2>1 DEF ProjectInv
<1>8. PromptsInv' /\ AssetsInv'
  <2>1. \A a : ~Handled(2, a)' /\ ~Handled(3, a)'
    BY <1>2 DEF Handled
  <2>2. QED
    BY <1>2, <2>1 DEF PromptsInv, AssetsInv
<1>9. SeededIsWhole' /\ BaseIsAlone'
  BY <1>1, NoneDone
<1>10. QED
  BY <1>4, <1>5, <1>6, <1>7, <1>8, <1>9 DEF IInv

\* A script that has ended has left what it is to seed.
LEMMA FinishKeeps ==
    ASSUME IInv, Finish
    PROVE  IInv'
<1>1. /\ run # NULL /\ ~Running /\ run' = NULL /\ done' = run
      /\ UNCHANGED <<tenants, user, projects, scoped, prompts, assets, deployed, mishaps>>
  BY DEF Finish, tables
<1>2. run \in Run /\ s \in Scripts /\ run.script = s
  BY <1>1, RunFields DEF IInv, TypeOK, s
<1>3. run.phase = (CASE s = "base" -> 3 [] s = "codegen" -> 4 [] s = "invoice" -> 6)
  <2>1. PICK n \in 2..5 : n = Len(Program[s])
    BY <1>2, Phases DEF Scripts
  <2>2. run.phase \in 1..(n + 1) /\ ~(run.phase <= n)
    BY <1>1, <2>1 DEF IInv, RunOK, Running
  <2>3. run.phase = n + 1
    BY <2>2
  <2>4. (s = "base" => n = 2) /\ (s = "codegen" => n = 3) /\ (s = "invoice" => n = 5)
    BY <2>1, Phases
  <2>5. QED
    BY <1>2, <2>3, <2>4 DEF Scripts
<1>4. HasAll(s)
  <2>1. run.phase > ProjectAt(s)
    BY <1>2, <1>3 DEF ProjectAt, Scripts
  <2>2. QED
    BY <1>1, <2>1, HasAllAfter DEF IInv
<1>5. TypeOK'
  BY <1>1, <1>2 DEF IInv, TypeOK
<1>6. ASSUME s \in Examples, NEW i \in Prompts[s] \ run.missed
      PROVE  Seeded(s, prompts[i])
  <2>1. i \in PromptIds
    BY <1>2, <1>6, ArgsAre
  <2>2. Handled(2, i) /\ (s = "invoice" => Handled(4, i))
    BY <1>2, <1>3, <1>6 DEF Handled, Examples, Scripts
  <2>3. /\ prompts[i] # NULL /\ prompts[i].project = s /\ prompts[i].version = s
        /\ s = "codegen" => prompts[i].language = "en-US"
        /\ s = "codegen" \/ prompts[i].language # "es-ES" => prompts[i].spanish = s
    BY <1>1, <1>6, <2>2 DEF IInv, PromptsInv, Versioned, Mine, Examples, Scripts
  <2>4. prompts[i] \in Prompt
    BY <2>1, <2>3 DEF IInv, TypeOK
  <2>5. CASE prompts[i].language = "es-ES"
    BY <1>6, <2>3, <2>5 DEF Seeded, Examples, Scripts
  <2>6. CASE prompts[i].language # "es-ES"
    <3>1. prompts[i].language = "en-US" /\ prompts[i].spanish = s
      BY <2>3, <2>4, <2>6 DEF Prompt, Languages
    <3>2. prompts[i] = [project |-> s, version |-> s, language |-> "en-US", spanish |-> s]
      BY <2>3, <2>4, <3>1 DEF Prompt
    <3>3. QED
      BY <3>2 DEF Seeded
  <2>7. QED
    BY <2>5, <2>6
<1>7. ASSUME s \in Examples, Shared \in run.made, NEW k \in Assets[s]
      PROVE  assets[k] = [version |-> s, spanish |-> s]
  <2>1. k \in Keys
    BY <1>2, <1>7, ArgsAre
  <2>2. Handled(3, k) /\ (s = "invoice" => Handled(5, k))
    BY <1>2, <1>3, <1>7 DEF Handled, Examples, Scripts
  <2>3. assets[k] # NULL /\ assets[k].version = s /\ assets[k].spanish = s
    BY <1>1, <1>7, <2>2 DEF IInv, AssetsInv, Examples, Scripts
  <2>4. assets[k] \in Asset
    BY <2>1, <2>3 DEF IInv, TypeOK
  <2>5. QED
    BY <2>3, <2>4 DEF Asset
<1>8. SeededIsWhole'
  <2>1. s \notin Examples => Prompts[s] = {} /\ Assets[s] = {}
    BY <1>2, PromptsAssumption DEF Examples
  <2>2. QED
    BY <1>1, <1>2, <1>4, <1>6, <1>7, <2>1 DEF SeededIsWhole, Seeded, HasAll
<1>9. BaseIsAlone'
  <2>1. SUFFICES ASSUME s = "base"
                 PROVE  BaseIsAlone'
    BY <1>1, <1>2 DEF BaseIsAlone
  <2>2. /\ prompts = None(prompts) /\ \A e \in Examples : projects[e] = NULL
        /\ tenants \subseteq {"uuid"}
    BY <1>1, <1>3, <2>1 DEF IInv, BaseInv
  <2>3. user # NULL /\ projects["base"] # NULL
    BY <1>4, <2>1 DEF HasAll
  <2>4. user \in tenants \cup {NULL} /\ projects["base"] \in tenants \cup {NULL}
    BY DEF IInv, TypeOK, Scripts
  <2>5. tenants = {"uuid"} /\ projects["base"] = user
    BY <2>2, <2>3, <2>4
  <2>6. QED
    BY <1>1, <2>2, <2>5 DEF BaseIsAlone, None
<1>10. QED
  BY <1>1, <1>5, <1>8, <1>9, NoRun DEF IInv

\* A run that stops keeps the invariant.
LEMMA StopKeeps ==
    ASSUME IInv, Stop \/ Refuse
    PROVE  IInv'
<1>1. /\ run # NULL /\ run' = NULL /\ done' = done /\ mishaps' \in 0..MaxMishaps
      /\ UNCHANGED <<tenants, user, projects, scoped, prompts, assets, deployed>>
  BY MishapsAssumption DEF Stop, Refuse, Refused, At, Mishap, Running, tables, IInv, TypeOK
<1>2. done = NULL
  BY <1>1 DEF IInv, RunOK
<1>3. TypeOK'
  BY <1>1 DEF IInv, TypeOK
<1>4. QED
  BY <1>1, <1>2, <1>3, NoRun, NoneDone DEF IInv

\* What is done between two runs keeps the invariant: neither a deployment, an edited
\* version nor a removed prompt breaks a reference.
LEMMA BetweenKeeps ==
    ASSUME IInv,
           \/ \E project \in Scripts : Deploy(project)
           \/ \E i \in PromptIds : Edit(i) \/ RemovePrompt(i)
    PROVE  IInv'
<1>1. /\ run = NULL /\ run' = NULL /\ done' = NULL /\ mishaps' \in 0..MaxMishaps
      /\ UNCHANGED <<tenants, user, projects, scoped>>
  <2>1. /\ run = NULL /\ run' = run /\ done' = NULL /\ Mishap
        /\ UNCHANGED <<tenants, user, projects, scoped>>
    BY DEF Deploy, Edit, RemovePrompt
  <2>2. mishaps' \in 0..MaxMishaps
    BY <2>1, MishapsAssumption DEF Mishap, IInv, TypeOK
  <2>3. QED
    BY <2>1, <2>2
<1>2. prompts \in [PromptIds -> Prompt \cup {NULL}] /\ Shared \in PromptIds
  BY ArgsAre DEF IInv, TypeOK, Scripts
<1>3. TypeOK'
  <2>1. ASSUME NEW project \in Scripts, Deploy(project)
        PROVE  TypeOK'
    BY <1>1, <2>1 DEF Deploy, IInv, TypeOK
  <2>2. ASSUME NEW i \in PromptIds, Edit(i)
        PROVE  TypeOK'
    <3>1. prompts[i] \in Prompt
      BY <1>2, <2>2 DEF Edit
    <3>2. PICK version \in {NULL, "user", prompts[i].version}, spanish \in {NULL, "user", prompts[i].spanish},
               language \in Languages :
          prompts' = [prompts EXCEPT ![i] =
              IF version = NULL THEN Bare(prompts[i].project)
              ELSE [project |-> prompts[i].project, version |-> version, language |-> language,
                    spanish |-> spanish]]
      BY <2>2 DEF Edit
    <3>3. /\ Bare(prompts[i].project) \in Prompt /\ Bare(prompts[i].project).project = prompts[i].project
          /\ [project |-> prompts[i].project, version |-> version, language |-> language,
              spanish |-> spanish] \in Prompt
      BY <3>1, <3>2 DEF Bare, Prompt, Author, Languages
    <3>4. PICK row \in Prompt : prompts' = [prompts EXCEPT ![i] = row] /\ row.project = prompts[i].project
      BY <3>2, <3>3
    <3>5. /\ prompts' \in [PromptIds -> Prompt \cup {NULL}]
          /\ \A j \in PromptIds : prompts'[j] # NULL =>
                prompts[j] # NULL /\ prompts'[j].project = prompts[j].project
          /\ prompts'[Shared] = NULL => prompts[Shared] = NULL
      BY <1>2, <2>2, <3>4, NullIsNoRow DEF Edit
    <3>6. QED
      BY <1>1, <2>2, <3>5 DEF Edit, IInv, TypeOK
  <2>3. ASSUME NEW i \in PromptIds, RemovePrompt(i)
        PROVE  TypeOK'
    <3>1. /\ prompts' = [prompts EXCEPT ![i] = NULL]
          /\ assets' = (IF i = Shared THEN None(assets) ELSE assets)
          /\ deployed' = deployed
      BY <2>3 DEF RemovePrompt
    <3>2. assets' \in [Keys -> Asset \cup {NULL}] /\ None(None(assets)) = None(assets)
      BY <3>1 DEF IInv, TypeOK, None
    <3>3. prompts'[Shared] = NULL => assets' = None(assets')
      BY <1>2, <3>1, <3>2 DEF IInv, TypeOK
    <3>4. /\ prompts' \in [PromptIds -> Prompt \cup {NULL}]
          /\ \A j \in PromptIds : prompts'[j] # NULL => prompts'[j] = prompts[j]
      BY <1>2, <3>1
    <3>5. QED
      BY <1>1, <3>1, <3>2, <3>3, <3>4 DEF IInv, TypeOK
  <2>4. QED
    BY <2>1, <2>2, <2>3
<1>4. QED
  BY <1>1, <1>3, NoRun, NoneDone DEF IInv

(***************************************************************************)
(* The theorems.                                                           *)
(***************************************************************************)
\* The invariant holds at first.
LEMMA InitIInv == Init => IInv
<1>1. SUFFICES ASSUME Init
               PROVE  IInv
  OBVIOUS
<1>2. TypeOK
  <2>1. /\ prompts \in [PromptIds -> Prompt \cup {NULL}] /\ \A i \in PromptIds : prompts[i] = NULL
        /\ assets \in [Keys -> Asset \cup {NULL}] /\ assets = None(assets)
        /\ projects \in [Scripts -> tenants \cup {NULL}] /\ mishaps \in 0..MaxMishaps
    BY <1>1, MishapsAssumption DEF Init, None
  <2>2. QED
    BY <1>1, <2>1 DEF Init, TypeOK
<1>3. run = NULL /\ done = NULL
  BY <1>1 DEF Init
<1>4. RunOK /\ BaseInv /\ ProjectInv /\ PromptsInv /\ AssetsInv /\ SeededIsWhole /\ BaseIsAlone
  BY <1>3 DEF RunOK, BaseInv, ProjectInv, PromptsInv, AssetsInv, SeededIsWhole, BaseIsAlone
<1>5. QED
  BY <1>2, <1>4 DEF IInv

\* Every step keeps it.
LEMMA NextIInv == IInv /\ [Next]_vars => IInv'
<1>1. SUFFICES ASSUME IInv, [Next]_vars
               PROVE  IInv'
  OBVIOUS
<1>2. CASE \E script \in Scripts : Start(script) \/ Deploy(script)
  BY <1>1, <1>2, StartKeeps, BetweenKeeps
<1>3. CASE DeleteAll
  BY <1>1, <1>3, DeleteAllKeeps
<1>4. CASE PutTenant \/ PutUser \/ FindUser \/ PutProject
  BY <1>1, <1>4, PutTenantKeeps, PutUserKeeps, FindUserKeeps, PutProjectKeeps
<1>5. CASE \E kind \in Kinds : PutScoped(kind)
  BY <1>1, <1>5, PutScopedKeeps
<1>6. CASE \E i \in PromptIds :
              PutPrompt(i) \/ PutVersion(i) \/ PutSpanish(i) \/ PromptFails(i) \/ Translate(i)
  BY <1>1, <1>6, PutPromptKeeps, PutVersionKeeps, PutSpanishKeeps, PromptFailsKeeps, TranslateKeeps
<1>7. CASE \E k \in Keys :
              PassOver(k) \/ PutAsset(k) \/ PutAssetVersion(k) \/ PutAssetSpanish(k) \/ TranslateAsset(k)
  BY <1>1, <1>7, PassOverKeeps, PutAssetKeeps, PutAssetVersionKeeps, PutAssetSpanishKeeps,
     TranslateAssetKeeps
<1>8. CASE Finish
  BY <1>1, <1>8, FinishKeeps
<1>9. CASE Refuse \/ Stop
  BY <1>1, <1>9, StopKeeps
<1>10. CASE \E i \in PromptIds : Edit(i) \/ RemovePrompt(i)
  BY <1>1, <1>10, BetweenKeeps
<1>11. CASE UNCHANGED vars
  <2>1. /\ UNCHANGED <<tenants, user, projects, scoped, prompts, assets, deployed, run, mishaps, done>>
        /\ s' = s
    BY <1>11 DEF vars, tables, s
  <2>2. TypeOK' /\ RunOK'
    BY <1>1, <2>1 DEF IInv, TypeOK, RunOK, Running, Body, Phase, Args
  <2>3. BaseInv' /\ PromptsInv' /\ AssetsInv'
    BY <1>1, <2>1 DEF IInv, BaseInv, PromptsInv, AssetsInv, Without, Handled, Versioned, Mine
  <2>4. ProjectInv'
    <3>1. \A n : Past(n)' <=> Past(n)
      BY <2>1 DEF Past, ProjectAt
    <3>2. \A c : Effect(c)' <=> Effect(c)
      BY <2>1 DEF Effect, Own
    <3>3. QED
      BY <1>1, <2>1, <3>1, <3>2 DEF IInv, ProjectInv
  <2>5. SeededIsWhole' /\ BaseIsAlone'
    BY <1>1, <2>1 DEF IInv, SeededIsWhole, Seeded, BaseIsAlone, HasAll
  <2>6. QED
    BY <2>2, <2>3, <2>4, <2>5 DEF IInv
<1>12. QED
  BY <1>1, <1>2, <1>3, <1>4, <1>5, <1>6, <1>7, <1>8, <1>9, <1>10, <1>11 DEF Next

\* What every reachable state is like.
THEOREM Invariant == Spec => []IInv
<1>1. QED
  BY InitIInv, NextIInv, PTL DEF Spec

\* The types of the tables and of the run, and what the foreign keys promise.
THEOREM Typed == Spec => []TypeOK
<1>1. IInv => TypeOK
  BY DEF IInv
<1>2. QED
  BY <1>1, Invariant, PTL

\* A script that ended without an error has left all that it is to seed, whatever was
\* there before, but for the prompts whose errors were swallowed; the invoice example
\* leaves a version that was made Spanish without its translation.
THEOREM SeedsAreWhole == Spec => []SeededIsWhole
<1>1. IInv => SeededIsWhole
  BY DEF IInv
<1>2. QED
  BY <1>1, Invariant, PTL

\* Nothing of the examples survives the base seed.
THEOREM BaseStandsAlone == Spec => []BaseIsAlone
<1>1. IInv => BaseIsAlone
  BY DEF IInv
<1>2. QED
  BY <1>1, Invariant, PTL

\* However earlier runs ended, none of them is in the way of the next.
THEOREM RerunsArePossible == Spec => []RerunIsPossible
<1>1. ASSUME IInv, Running, Phase = "empty", ~Deletable(Emptied)
      PROVE  s = "base" /\ deployed # {}
  <2>1. /\ s = "base" /\ run.call \in 1..14
        /\ run.call > 6 => prompts = None(prompts)
        /\ run.call > 7 => Without("culturalData") = scoped
        /\ run.call > 12 => projects = None(projects)
    BY <1>1, InEmpty
  <2>2. /\ Emptied = "region" <=> run.call = 8
        /\ Emptied = "project" <=> run.call = 12
        /\ Emptied = "user" <=> run.call = 13
    BY <2>1, Deletions DEF Emptied
  <2>3. QED
    BY <1>1, <2>1, <2>2 DEF Deletable
<1>2. ASSUME IInv, At("project", "findUser", NULL)
      PROVE  s = "invoice"
  BY <1>2, Before
<1>3. IInv => RerunIsPossible
  BY <1>1, <1>2 DEF Refused, RerunIsPossible
<1>4. QED
  BY <1>3, Invariant, PTL
===============================================================================
