------------------------------- MODULE Routing -------------------------------
(***************************************************************************)
(* The choice of an agent for a prompt, on its two surfaces: the prompt    *)
(* hook, which reads the agent files afresh for every prompt, and the      *)
(* library (src/omnicursor/agents.py), which reads them when it is         *)
(* imported or told to reload, and reads them twice: once for the contexts *)
(* it hands out and once for the pool it scores.                           *)
(*                                                                         *)
(* One prompt is fixed, so an agent is what its triggers make of it:       *)
(*   exact, context  does an explicit or a context trigger occur in it?    *)
(*   fuzzy           the best ratio, in thousandths, of an explicit        *)
(*                   trigger and a word that passes the threshold of its   *)
(*                   length; 0 if none does                                *)
(*   hits, keywords  how many of how many keywords occur in it             *)
(* and its file is an "agent", valid JSON of another shape ("array"), an   *)
(* agent with a field of the wrong type ("mistyped"), "garbled", "absent". *)
(***************************************************************************)
EXTENDS Integers, Sequences, FiniteSets, SequencesExt, Ranking

CONSTANTS
  Files,       \* the agent files, in the order of their names
  Contents,    \* what such a file may hold
  Hardcoded,   \* AGENT_CONTEXTS with the triggers made for them
  Categories,  \* the categories of agents, "" for none
  Aliases,     \* other names of categories
  Default,     \* DEFAULT_CONTEXT of the library
  Polymorphic  \* the name the hook falls back to

HARD_FLOOR == 550
MAX_RESULTS == 5

Forms == {"agent", "mistyped", "array", "garbled", "absent"}
File == ToSet(Files)
BuiltIn == {Hardcoded[i].id : i \in DOMAIN Hardcoded}

\* A file is read before it has a name.
Agent == [form : Forms, id : {""} \cup File \cup BuiltIn, named : BOOLEAN, category : Categories,
          exact : BOOLEAN, context : BOOLEAN, fuzzy : 0..1000, hits : Nat, keywords : Nat]

ASSUME FilesAssumption == Files \in Seq(File) /\ IsInjective(Files)
ASSUME ContentsAssumption == Contents \subseteq Agent /\ \A c \in Contents : c.hits <= c.keywords
\* AGENT_CONTEXTS has each of its categories once.
ASSUME HardcodedAssumption ==
  /\ Hardcoded \in Seq(Agent)
  /\ \A i \in DOMAIN Hardcoded : Hardcoded[i].hits <= Hardcoded[i].keywords /\ Hardcoded[i].category # ""
  /\ \A i, j \in DOMAIN Hardcoded : Hardcoded[i].category = Hardcoded[j].category => i = j
ASSUME NamesAssumption ==
  "" \in Categories /\ File \cap BuiltIn = {} /\ Default \notin File \cup BuiltIn /\ Polymorphic \notin File \cup BuiltIn

VARIABLES
  disk,      \* the contents of each file
  json,      \* the contexts of the first read of a load under way
  phase,     \* where the library is in a load
  contexts,  \* _MERGED_CONTEXTS: per category, whose context it is
  pool,      \* _ALL_RAW_AGENTS
  loaded,    \* has the library been imported?
  moved,     \* did the files change since the first read of the load?
  split,     \* did the two reads behind the registry see different files?
  stale      \* did the files change since the registry was read?

registry == <<contexts, pool, loaded, split>>
routingVars == <<disk, json, phase, registry, moved, stale>>

\* From 0.55 for no keyword to 0.85 for all of them.
Scaled(a) == 550 + (300 * a.hits) \div a.keywords

\* score_agent: each strategy is tried only while the earlier ones have left room.
ScoreAgent(a) ==
  LET substring == IF a.exact THEN 950 ELSE IF a.context THEN 800 ELSE 0
      fuzzy == IF substring < 900 /\ a.fuzzy > substring THEN a.fuzzy ELSE substring
  IN IF fuzzy < 700 /\ a.hits >= 2 /\ Scaled(a) > fuzzy THEN Scaled(a) ELSE fuzzy

\* The agents of the files in order, those of the given forms.
Agents(d, forms) ==
  LET order == Filtered(Files, {k \in DOMAIN Files : d[Files[k]].form \in forms})
  IN [i \in DOMAIN order |-> [d[order[i]] EXCEPT !.id = order[i]]]

JsonObjects == {"agent", "mistyped"}
JsonValues == JsonObjects \cup {"array"}

LoadAgentConfigs(d) == Agents(d, JsonObjects)

\* Mutant of Beats: a later agent wins a tie.
BeatsOrTies(a, leader) == a.named /\ ScoreAgent(a) >= HARD_FLOOR /\ ScoreAgent(a) >= leader.score

Beats(a, leader) == a.named /\ ScoreAgent(a) >= HARD_FLOOR /\ ScoreAgent(a) > leader.score
Lead(leader, a) == IF Beats(a, leader) THEN [id |-> a.id, score |-> ScoreAgent(a)] ELSE leader

\* classify_prompt of the hook: the first of the best-scoring agents with a name.
ClassifyPrompt(agents) == FoldLeft(Lead, [id |-> Polymorphic, score |-> 0], agents).id

\* A stable sort by descending score of the agents that have a category and fit.
Fitting ==
  LET score == [i \in DOMAIN pool |-> ScoreAgent(pool[i])]
  IN Sorted(pool, {i \in DOMAIN pool : pool[i].category # "" /\ score[i] >= HARD_FLOOR}, score)

MatchAgentCandidates ==
  SubSeq(Fitting, 1, IF Len(Fitting) > MAX_RESULTS THEN MAX_RESULTS ELSE Len(Fitting))

ContextOf(category) == IF category \in DOMAIN contexts THEN contexts[category] ELSE Default

MatchAgent == IF MatchAgentCandidates = <<>> THEN Default
              ELSE ContextOf(MatchAgentCandidates[1].category)

GetAgentContext(category) ==
  ContextOf(IF category \in DOMAIN Aliases THEN Aliases[category] ELSE category)

\* _load_json_agents: per category the last file that names it.
LoadJsonAgents(d) ==
  LET agents == Agents(d, JsonObjects)
      last(c) == Max({i \in DOMAIN agents : agents[i].category = c})
  IN [c \in {agents[i].category : i \in DOMAIN agents} \ {""} |-> agents[last(c)].id]

\* Neither an AttributeError nor the ValidationError of a field is caught.
LoadRaises(d) ==
  \E f \in File : d[f].form = "array" \/ (d[f].form = "mistyped" /\ d[f].category # "")

\* Mutant of Merged: the files replace the hardcoded contexts.
MergedFilesOnly(fromFiles) == fromFiles

\* The hardcoded contexts, overlaid with those of the files.
Merged(fromFiles) ==
  LET own == {Hardcoded[i].category : i \in DOMAIN Hardcoded}
  IN [c \in DOMAIN fromFiles \cup own |->
        IF c \in DOMAIN fromFiles THEN fromFiles[c]
        ELSE Hardcoded[CHOOSE i \in DOMAIN Hardcoded : Hardcoded[i].category = c].id]

\* Mutant of AllRawAgents: the hardcoded agents stay beside the files that replace them.
AllRawAgentsTwice(d) == Agents(d, JsonValues) \o Hardcoded

\* The agents of the files, then the hardcoded ones of categories no file names.
AllRawAgents(d) ==
  LET ofFiles == Agents(d, JsonValues)
      free == {k \in DOMAIN Hardcoded :
                 \A i \in DOMAIN ofFiles : ofFiles[i].category # Hardcoded[k].category}
  IN ofFiles \o Filtered(Hardcoded, free)

RoutingInit ==
  /\ disk \in [File -> Contents]
  /\ json = <<>> /\ phase = "idle"
  /\ contexts = <<>> /\ pool = <<>>
  /\ loaded = FALSE /\ moved = FALSE /\ split = FALSE /\ stale = FALSE

\* Someone edits, adds or removes an agent file.
EditFile(f) ==
  /\ \E c \in Contents \ {disk[f]} : disk' = [disk EXCEPT ![f] = c]
  /\ moved' = (phase = "pool")
  /\ stale' = loaded
  /\ UNCHANGED <<json, phase, registry>>

\* The import of agents.py, or reload_agents: the first read.  What it raises leaves
\* everything as it was.
ReadContexts ==
  /\ phase = "idle"
  /\ ~LoadRaises(disk)
  /\ json' = LoadJsonAgents(disk)
  /\ phase' = "pool"
  /\ moved' = FALSE
  /\ UNCHANGED <<disk, registry, stale>>

\* The second read, which takes any JSON, and fails over an array after it.
ReadPool ==
  /\ phase = "pool"
  /\ phase' = "idle" /\ json' = <<>> /\ moved' = FALSE
  /\ IF \E f \in File : disk[f].form = "array" THEN UNCHANGED <<registry, stale>>
     ELSE /\ contexts' = Merged(json)
          /\ pool' = AllRawAgents(disk)
          /\ loaded' = TRUE
          /\ split' = moved
          /\ stale' = FALSE
  /\ UNCHANGED disk

RoutingNext == (\E f \in File : EditFile(f)) \/ ReadContexts \/ ReadPool

RoutingSpec == RoutingInit /\ [][RoutingNext]_routingVars

-----------------------------------------------------------------------------

Owner == File \cup BuiltIn

RoutingTypeOK ==
  /\ disk \in [File -> Contents]
  /\ phase \in {"idle", "pool"}
  /\ \A c \in DOMAIN json : json[c] \in File
  /\ \A c \in DOMAIN contexts : contexts[c] \in Owner
  /\ \A i, j \in DOMAIN pool :
       /\ pool[i].id \in Owner
       /\ (pool[i].id \in BuiltIn /\ pool[i].category = pool[j].category) => i = j
  /\ loaded \in BOOLEAN /\ moved \in BOOLEAN /\ split \in BOOLEAN /\ stale \in BOOLEAN

\* Every file that loads has a name and a category of its own.
WellFormed(d) ==
  LET agents == Agents(d, JsonObjects) IN
  \A i, j \in DOMAIN agents :
    /\ agents[i].named /\ agents[i].category # ""
    /\ agents[i].category = agents[j].category => i = j

\* The hook scans for a maximum, the library sorts, filters and looks a context up:
\* on the same well-formed files they choose the same agent, unless the library
\* chooses a hardcoded one, which the hook does not have.
SurfacesAgree ==
  (loaded /\ ~split /\ ~stale /\ WellFormed(disk)) =>
    \/ MatchAgent \in BuiltIn
    \/ MatchAgent = ClassifyPrompt(LoadAgentConfigs(disk))
    \/ MatchAgent = Default /\ ClassifyPrompt(LoadAgentConfigs(disk)) = Polymorphic

\* Whatever the files went through, a match has the context of its category and not
\* the default, unless they changed between the two reads of a load; and every alias
\* of a hardcoded category leads to a context.
MatchesHaveContexts ==
  loaded =>
    /\ ~split => \A i \in DOMAIN MatchAgentCandidates :
                    ContextOf(MatchAgentCandidates[i].category) # Default
    /\ \A a \in DOMAIN Aliases :
         (\E i \in DOMAIN Hardcoded : Hardcoded[i].category = Aliases[a]) =>
           GetAgentContext(a) # Default

=============================================================================
