------------------------------ MODULE MCRouting ------------------------------
(* Two agent files and one hardcoded agent with one alias. *)
EXTENDS Routing

MCFiles == <<"a.json", "b.json">>
Blank == [form |-> "agent", id |-> "", named |-> TRUE, category |-> "alpha", exact |-> FALSE,
          context |-> FALSE, fuzzy |-> 0, hits |-> 0, keywords |-> 4]
MCHardcoded == << [Blank EXCEPT !.id = "debugger", !.category = "debugging", !.fuzzy = 850] >>
MCAliases == [bug |-> "debugging"]
MCContents ==
  { [Blank EXCEPT !.exact = TRUE], [Blank EXCEPT !.context = TRUE, !.fuzzy = 850],
    [Blank EXCEPT !.category = "beta", !.fuzzy = 960, !.hits = 4],
    [Blank EXCEPT !.category = "beta", !.exact = TRUE],
    [Blank EXCEPT !.category = "debugging", !.hits = 2],
    [Blank EXCEPT !.category = "", !.named = FALSE, !.fuzzy = 780],
    [Blank EXCEPT !.form = "mistyped"],
    [Blank EXCEPT !.form = "array", !.category = ""],
    [Blank EXCEPT !.form = "absent"] }
=============================================================================
