-------------------------------- MODULE Missions --------------------------------
(***************************************************************************)
(* The mission builder of the dashboard, the saved missions, and the       *)
(* configurations that runs are started with (dashboard/ui/views/          *)
(* new_run.py, MissionStore, RunLauncher.start, `eaiv pipeline`, and what  *)
(* the pipeline and the orchestrator read of a configuration).             *)
(*                                                                         *)
(* Configurations are objects: a run is given a copy of the top level      *)
(* only, so that it reads the sections that its page goes on editing, and  *)
(* the lists of a preset are held by every configuration built from it.    *)
(* Streamlit runs each session's script on a thread of its own, drawing    *)
(* the page again after every interaction; pipelines run on other threads. *)
(* The Launch button is disabled in the browser only: a click on the page  *)
(* as it was drawn may reach the script with edits made since, and starts  *)
(* the run whatever the validation of that pass says.                      *)
(***************************************************************************)
EXTENDS ConfigSpec

CONSTANTS
  Pages,      \* browser sessions with the mission builder open
  Offered,    \* the presets that are loaded
  Chosen,     \* the selections of the form that are chosen
  Edited,     \* the sections that are edited
  Advanced,   \* the settings of the toggle for advanced fields
  Files,      \* mission files and the files they inherit
  Named,      \* the files that the sessions' missions are named for
  Written,    \* what the files may hold at the start
  MaxBuilds,  \* bound on configurations built
  MaxEdits,   \* bound on edits
  MaxRuns     \* bound on runs

ASSUME ConstantsAssumption ==
  /\ Offered \subseteq DOMAIN PRESETS
  /\ Chosen \subseteq {{"all"}} \cup {{s} : s \in Suites}
  /\ Edited \subseteq Sections /\ Advanced \subseteq BOOLEAN /\ Named \subseteq Files
  /\ IsFiniteSet(Files) /\ "none" \notin Files
  /\ \A table \in Written : FilesTyped(table, Files)
  /\ "command line" \notin Pages
  /\ MaxBuilds \in Nat /\ MaxEdits \in Nat /\ MaxRuns \in Nat

VARIABLES
  held,     \* the lists in the overlays of PRESETS
  configs,  \* every configuration built or loaded
  page,     \* the sessions
  edits,    \* number of edits
  files,
  runs

vars == <<held, configs, page, edits, files, runs>>

NoPage == [config |-> 0, suite |-> {"all"}, saved |-> "none", review |-> "stale"]

\* What the review that the user sees found: errors, or none, which enables the
\* Launch button; "outdated" when the mission was changed since it found none.
Reviews == {"stale", "errors", "ok", "outdated"}

Changed(review) == IF review \in {"ok", "outdated"} THEN "outdated" ELSE "stale"

\* The object that a configuration's list is.
ItemsOf(ref, s) == IF ref.of = "own" THEN ref.items ELSE held[ref.of][s]

\* What is read from the sections of a configuration.
Read(config) ==
  [s \in DOMAIN config |->
     [k \in DOMAIN config[s] |->
        IF k = "list" THEN ItemsOf(config[s].list, s) ELSE config[s].value]]

Contents(c) == Read(configs[c])

Init ==
  /\ held = [id \in Offered \cup {DEFAULT_PRESET_ID} |-> PRESETS[id].lists]
  /\ configs = <<>>
  /\ page = [p \in Pages |-> NoPage]
  /\ edits = 0
  /\ files \in Written
  /\ runs = <<>>

-----------------------------------------------------------------------------
(* The page.                                                               *)

\* _config: the first time a session opens the builder.
Open(p) ==
  /\ page[p].config = 0 /\ Len(configs) < MaxBuilds
  /\ configs' = Append(configs, build(DEFAULT_PRESET_ID))
  /\ page' = [page EXCEPT ![p].config = Len(configs) + 1]
  /\ UNCHANGED <<held, edits, files, runs>>

\* Faulty variant: the preset is loaded into the configuration at hand.
LoadPresetInPlace(p, id) ==
  /\ page[p].config # 0 /\ Len(configs) < MaxBuilds
  /\ configs' = [configs EXCEPT ![page[p].config] = build(id)]
  /\ page' = [page EXCEPT ![p].suite = PRESETS[id].suite,
                          ![p].review = Changed(@)]
  /\ UNCHANGED <<held, edits, files, runs>>

LoadPreset(p, id) ==
  /\ page[p].config # 0 /\ Len(configs) < MaxBuilds
  /\ configs' = Append(configs, build(id))
  /\ page' = [page EXCEPT ![p].config = Len(configs) + 1, ![p].suite = PRESETS[id].suite,
                          ![p].review = Changed(@)]
  /\ UNCHANGED <<held, edits, files, runs>>

ChooseSuite(p) ==
  /\ page[p].config # 0 /\ edits < MaxEdits
  /\ \E parts \in Chosen :
       /\ parts # page[p].suite
       /\ page' = [page EXCEPT ![p].suite = parts, ![p].review = Changed(@)]
  /\ edits' = edits + 1
  /\ UNCHANGED <<held, configs, files, runs>>

\* The limits and editors of a section are drawn when its suite is selected.
Limits(p) ==
  {s \in Sections : SCHEMA[s].suite # "" /\ selection_includes(page[p].suite, SCHEMA[s].suite)}

\* Values that can be typed into the fields drawn of a section.
Typed(p, s) ==
  {"set" : x \in {s} \cap ({"target"} \cup Limits(p) \cup {t \in Sections : SCHEMA[t].input})}
    \cup {"wrong" : x \in {s} \cap {t \in Limits(p) : SCHEMA[t].unbounded}}
    \cup {"wrong" : x \in {t \in {s} : SCHEMA[t].input /\ "value" \in SCHEMA[t].required}}

EditField(p, s) ==
  /\ page[p].config # 0 /\ edits < MaxEdits
  /\ \E v \in Typed(p, s) : configs' = [configs EXCEPT ![page[p].config][s].value = v]
  /\ page' = [page EXCEPT ![p].review = Changed(@)]
  /\ edits' = edits + 1
  /\ UNCHANGED <<held, files, runs>>

\* The list is changed where it is, in the configuration or in the preset.
SetItems(c, s, items) ==
  LET ref == configs[c][s].list
  IN  IF ref.of = "own"
      THEN configs' = [configs EXCEPT ![c][s].list = Own(items)] /\ UNCHANGED held
      ELSE held' = [held EXCEPT ![ref.of][s] = items] /\ UNCHANGED configs

\* _fault_editor, _task_editor.
EditList(p, s) ==
  LET c == page[p].config
      items == ItemsOf(configs[c][s].list, s)
      added == IF s = "hil" THEN {"fault"} ELSE {"task", "task over its deadline"}
  IN  /\ c # 0 /\ edits < MaxEdits /\ s \in Listed \cap Limits(p)
      /\ \/ \E item \in added : SetItems(c, s, Append(items, item))
         \/ \E i \in DOMAIN items : SetItems(c, s, RemoveAt(items, i))
      /\ page' = [page EXCEPT ![p].review = Changed(@)]
      /\ edits' = edits + 1
      /\ UNCHANGED <<files, runs>>

\* The form writes back every field that it draws.
Filled(p, advanced) ==
  [s \in DOMAIN configs[page[p].config] |->
     IF s \in Limits(p) /\ configs[page[p].config][s].value = "default"
          /\ SCHEMA[s].empty \in {"always"} \cup {"advanced" : x \in {a \in {TRUE} : advanced}}
     THEN [configs[page[p].config][s] EXCEPT !.value = "filled"]
     ELSE configs[page[p].config][s]]

\* render, down to _step_review.
Draw(p) ==
  /\ page[p].config # 0
  /\ \E advanced \in Advanced :
       LET errors == validate_for_suite(Read(Filled(p, advanced)), page[p].suite)
       IN  /\ configs' = [configs EXCEPT ![page[p].config] = Filled(p, advanced)]
           /\ page' = [page EXCEPT ![p].review = IF errors = {} THEN "ok" ELSE "errors"]
  /\ UNCHANGED <<held, edits, files, runs>>

-----------------------------------------------------------------------------
(* Saved missions.                                                         *)

\* Any file: two names may be one name once they are made safe for a path.
Save(p, f) ==
  /\ page[p].review \in {"ok", "errors"}
  /\ files' = [files EXCEPT ![f] = Mapping("none", Contents(page[p].config))]
  /\ page' = [page EXCEPT ![p].saved = f]
  /\ UNCHANGED <<held, configs, edits, runs>>

\* The file is truncated and then written; an empty file is an empty mapping.
SaveFails(p, f) ==
  /\ page[p].review \in {"ok", "errors"}
  /\ files' = [files EXCEPT ![f] = Mapping("none", <<>>)]
  /\ UNCHANGED <<held, configs, page, edits, runs>>

-----------------------------------------------------------------------------
(* Runs.                                                                   *)

NewRun(by, c, parts) ==
  [by |-> by, config |-> c, suites |-> selected_suites(parts), target |-> needs_target(parts),
   at |-> "queued", done |-> 0, recorded |-> {}, used |-> <<>>]

\* A click on a page that showed no error, which may be outdated.  The pass of
\* the click fills the form in; what its own review finds only disables the
\* button for the next click.
Launch(p) ==
  /\ page[p].review \in {"ok", "outdated"} /\ Len(runs) < MaxRuns
  /\ \E advanced \in Advanced :
       configs' = [configs EXCEPT ![page[p].config] = Filled(p, advanced)]
  /\ runs' = Append(runs, NewRun(p, page[p].config, page[p].suite))
  /\ page' = [page EXCEPT ![p].review = "stale"]
  /\ UNCHANGED <<held, edits, files>>

\* The command line that the page shows for its mission.
preview_command(p) == [config |-> page[p].saved, suite |-> page[p].suite]

\* `eaiv pipeline`: by that command line, or by hand.
RunFromFile(command) ==
  /\ command.config # "none" /\ Len(runs) < MaxRuns /\ Len(configs) < MaxBuilds
  /\ \E raw \in load_config(files, command.config) :
       configs' = Append(configs,
         [s \in DOMAIN raw |-> [k \in DOMAIN raw[s] |->
            IF k = "list" THEN Own(raw[s].list) ELSE raw[s].value]])
  /\ runs' = Append(runs, NewRun("command line", Len(configs) + 1, command.suite))
  /\ UNCHANGED <<held, page, edits, files>>

\* _write_resolved_config, which may fail and leave no record.
WriteResolved(r) ==
  /\ runs[r].at = "queued"
  /\ \E recorded \in {{}, {Contents(runs[r].config)}} :
       runs' = [runs EXCEPT ![r].recorded = recorded, ![r].at = "written"]
  /\ UNCHANGED <<held, configs, page, edits, files>>

\* A section read: what it held is what the run used.
Uses(r, s) == Over(runs[r].used, [x \in {s} |-> Contents(runs[r].config)[s]])

\* cfg["target"] raises without the section.
BuildTarget(r) ==
  /\ runs[r].at = "written"
  /\ runs' =
       IF ~runs[r].target THEN [runs EXCEPT ![r].at = "suites"]
       ELSE IF "target" \in DOMAIN configs[runs[r].config]
            THEN [runs EXCEPT ![r].used = Uses(r, "target"), ![r].at = "suites"]
            ELSE [runs EXCEPT ![r].at = "done"]
  /\ UNCHANGED <<held, configs, page, edits, files>>

\* hil and memory do without their sections, the others raise.
RunSuite(r) ==
  LET suite == runs[r].suites[runs[r].done + 1]
      s == SUITE_CONFIG_SECTION[suite]
  IN  /\ runs[r].at = "suites" /\ runs[r].done < Len(runs[r].suites)
      /\ runs' =
           IF s \in DOMAIN configs[runs[r].config]
           THEN [runs EXCEPT ![r].used = Uses(r, s), ![r].done = @ + 1]
           ELSE IF suite \in {"hil", "memory"} THEN [runs EXCEPT ![r].done = @ + 1]
           ELSE [runs EXCEPT ![r].at = "done"]
      /\ UNCHANGED <<held, configs, page, edits, files>>

Finish(r) ==
  /\ runs[r].at = "suites" /\ runs[r].done = Len(runs[r].suites)
  /\ runs' = [runs EXCEPT ![r].at = "done"]
  /\ UNCHANGED <<held, configs, page, edits, files>>

-----------------------------------------------------------------------------

Edit(p) == \E s \in Edited : EditField(p, s) \/ EditList(p, s)

Next ==
  \/ \E p \in Pages :
       \/ Open(p) \/ ChooseSuite(p) \/ Edit(p) \/ Draw(p) \/ Launch(p)
       \/ \E id \in Offered : LoadPreset(p, id)
       \/ \E f \in Named : Save(p, f) \/ SaveFails(p, f)
       \/ RunFromFile(preview_command(p))
  \/ \E f \in Named : RunFromFile([config |-> f, suite |-> {"all"}])
  \/ \E r \in DOMAIN runs : WriteResolved(r) \/ BuildTarget(r) \/ RunSuite(r) \/ Finish(r)

Spec == Init /\ [][Next]_vars

-----------------------------------------------------------------------------
(* Properties.                                                             *)

\* Every configuration has sections of the schema only, with values and items
\* that the form or a file can give, also one that a page loads or a run got
\* from files over others; pages and runs refer to configurations that exist.
TypeOK ==
  /\ held \in [Offered \cup {DEFAULT_PRESET_ID} -> [{"hil", "rt_perf"} -> Seq(Items)]]
  /\ \A c \in DOMAIN configs :
       /\ DOMAIN configs[c] \subseteq Sections
       /\ \A s \in DOMAIN configs[c] :
            /\ "value" \in DOMAIN configs[c][s] => configs[c][s].value \in Values
            /\ "list" \in DOMAIN configs[c][s] =>
                 configs[c][s].list \in [of : {"own"} \cup DOMAIN PRESETS, items : Seq(Items)]
  /\ page \in [Pages -> [config : 0..Len(configs), suite : Selections,
                         saved : Files \cup {"none"}, review : Reviews]]
  /\ FilesTyped(files, Files)
  /\ \A r \in DOMAIN runs : runs[r].config \in DOMAIN configs

Live(r) == runs[r].at # "done"

\* The list of a section is a preset's: any session that loaded the preset
\* may change it, also between the validation and the launch of a page.
Shared(c, s) == s \in Listed /\ configs[c][s].list.of # "own"

\* The target's section and those of the suites that run are there and without
\* an error, but for the items of a list that is a preset's.
Runnable(c, parts) ==
  \A s \in {"target"} \cup {SUITE_CONFIG_SECTION[x] : x \in Range(selected_suites(parts))} :
    /\ s \in DOMAIN configs[c]
    /\ configs[c][s].value # "wrong"
    /\ SectionErrors(s, Contents(c)[s]) => Shared(c, s)

LaunchedBy(p) == Len(runs') > Len(runs) /\ runs'[Len(runs')].by = p

\* What a page launches is runnable when the run comes into being, although the
\* pass of the click fills fields in, other sessions edit and load presets
\* meanwhile, and the validation of that pass is not asked (new_run.py, the
\* disabled button and `if launch`): a mission that was seen to be valid still
\* is, unless its own page changed it between that drawing and the click.
LaunchedIsRunnable ==
  [][\A p \in Pages : LaunchedBy(p) /\ page[p].review = "ok" =>
       Runnable(page[p].config, page[p].suite)']_vars

\* A run reads the sections of the page that launched it (runner.py copies
\* the top level only).  What it will read changes by an edit of that page's
\* mission, by the form being drawn, also for the next launch, or by an edit of
\* a list of the same preset, and never by a preset being loaded, a mission
\* being saved, a file being read, or another run.
OnlyEditsReachRuns ==
  [][\A r \in DOMAIN runs :
       (Live(r) /\ Contents(runs[r].config)' # Contents(runs[r].config)) =>
         \E p \in Pages :
           \/ page[p].config = runs[r].config /\ (Edit(p) \/ Draw(p) \/ Launch(p))
           \/ Edit(p) /\ \E s \in Listed \cap DOMAIN configs[runs[r].config] :
                configs[runs[r].config][s].list.of = configs[page[p].config][s].list.of]_vars

\* "Configuration after inheritance, exactly as this run used it": each
\* section that a suite was given is as resolved-config.yaml records it.
RunUsesItsRecord ==
  \A r \in DOMAIN runs : \A recorded \in runs[r].recorded :
    \A s \in DOMAIN runs[r].used : runs[r].used[s] = recorded[s]

=============================================================================
