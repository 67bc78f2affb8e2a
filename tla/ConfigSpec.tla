------------------------------- MODULE ConfigSpec -------------------------------
(***************************************************************************)
(* Configurations as data: the schema and its defaults, the presets, the   *)
(* validation of a mission, the merge of `inherit:` chains and the suites  *)
(* a selection stands for (configspec, config.py, core/selection.py).      *)
(*                                                                         *)
(* A section is a mapping with up to two keys: "value" stands for all its  *)
(* plain fields and "list" for the one list the mission builder edits      *)
(* (hil.faults, rt_perf.task_set).  A value is                             *)
(*   "default"  what the schema gives,      "set"    another legal one,    *)
(*   "filled"   what an empty form field writes where nothing was set,     *)
(*   "wrong"    one that validation calls an error.                        *)
(* Plugin suites (extra_suites) and target kinds are left out, and so is   *)
(* what is a warning only.                                                 *)
(***************************************************************************)
EXTENDS Naturals, Sequences, SequencesExt, Functions

Values == {"default", "set", "filled", "wrong"}
Items == {"fault", "unknown fault", "task", "task over its deadline"}
WrongItems == {"unknown fault", "task over its deadline"}

-----------------------------------------------------------------------------
(* The schema: for each section the suite it configures, the keys it must  *)
(* have, whether it has the list, whether a path of it is asked for before *)
(* the suites are chosen, whether the form lets a number out of its limits *)
(* (FLOAT fields are drawn without them), and when the form shows a field  *)
(* that has no default and gets a meaning by being written.                *)

TARGET_SECTION ==
  [suite |-> "", required |-> {"value"}, list |-> FALSE, input |-> FALSE,
   unbounded |-> FALSE, empty |-> "never"]
FIRMWARE_SECTION ==
  [suite |-> "firmware", required |-> {}, list |-> FALSE, input |-> FALSE,
   unbounded |-> TRUE, empty |-> "never"]
TINYML_SECTION ==
  [suite |-> "tinyml", required |-> {}, list |-> FALSE, input |-> TRUE,
   unbounded |-> TRUE, empty |-> "advanced"]
MEMORY_SECTION ==
  [suite |-> "memory", required |-> {}, list |-> FALSE, input |-> TRUE,
   unbounded |-> TRUE, empty |-> "always"]
FUSION_SECTION ==
  [suite |-> "fusion", required |-> {"value"}, list |-> FALSE, input |-> TRUE,
   unbounded |-> TRUE, empty |-> "never"]
HIL_SECTION ==
  [suite |-> "hil", required |-> {"value"}, list |-> TRUE, input |-> TRUE,
   unbounded |-> TRUE, empty |-> "never"]
RT_SECTION ==
  [suite |-> "rt", required |-> {"list"}, list |-> TRUE, input |-> FALSE,
   unbounded |-> TRUE, empty |-> "never"]
REPORTING_SECTION ==
  [suite |-> "", required |-> {}, list |-> FALSE, input |-> FALSE,
   unbounded |-> FALSE, empty |-> "never"]

SCHEMA ==
  [target |-> TARGET_SECTION, firmware |-> FIRMWARE_SECTION, tinyml |-> TINYML_SECTION,
   memory |-> MEMORY_SECTION, sensor_fusion |-> FUSION_SECTION, hil |-> HIL_SECTION,
   rt_perf |-> RT_SECTION, reporting |-> REPORTING_SECTION]

Sections == DOMAIN SCHEMA
Listed == {s \in Sections : SCHEMA[s].list}

-----------------------------------------------------------------------------
(* Merging: a key of the overlay replaces the base's, and a mapping is     *)
(* merged with a mapping.  A configuration has two levels of mappings.     *)

Over(base, overlay) ==
  [k \in DOMAIN base \cup DOMAIN overlay |->
     IF k \in DOMAIN overlay THEN overlay[k] ELSE base[k]]

deep_merge(base, overlay) ==
  Over(base, [s \in DOMAIN overlay |->
                IF s \in DOMAIN base THEN Over(base[s], overlay[s]) ELSE overlay[s]])

-----------------------------------------------------------------------------
(* Presets.  In memory a list is an object: one of the configuration's     *)
(* own, or the one that a preset holds, since a merge copies the mappings  *)
(* and not the lists in them.                                              *)

Own(items) == [of |-> "own", items |-> items]
HeldBy(id) == [of |-> id, items |-> <<>>]

default_config ==
  [s \in Sections |->
     IF SCHEMA[s].list THEN [value |-> "default", list |-> Own(<<>>)] ELSE [value |-> "default"]]

TwoTasks == <<"task", "task">>
NoLists == [hil |-> <<>>, rt_perf |-> <<>>]

Preset(suite, set, lists) == [suite |-> suite, set |-> set, lists |-> lists]

PresetTable ==
  LET rt == [NoLists EXCEPT !.rt_perf = TwoTasks]
  IN  << <<"sim-smoke", Preset({"firmware"}, {"target", "firmware"}, NoLists)>>,
         <<"sim-release-gate",
           Preset({"all"}, {"target", "firmware", "tinyml", "sensor_fusion", "hil", "rt_perf"},
                  [hil |-> <<"fault", "fault">>, rt_perf |-> TwoTasks])>>,
         <<"firmware-only", Preset({"firmware"}, {"target", "firmware"}, NoLists)>>,
         <<"ai-firmware-review",
           Preset({"firmware", "rt"}, {"target", "firmware", "rt_perf"}, rt)>>,
         <<"tinyml-benchmark", Preset({"tinyml"}, {"tinyml"}, NoLists)>>,
         <<"fusion-accuracy", Preset({"fusion"}, {"sensor_fusion"}, NoLists)>>,
         <<"hil-robustness",
           Preset({"hil"}, {"hil"}, [NoLists EXCEPT !.hil = <<"fault", "fault", "fault", "fault">>])>>,
         <<"rt-deadlines", Preset({"rt"}, {"rt_perf"}, rt)>>,
         <<"custom", Preset({"all"}, {}, NoLists)>> >>

\* By id.
PRESETS ==
  [id \in {PresetTable[i][1] : i \in DOMAIN PresetTable} |->
     PresetTable[CHOOSE i \in DOMAIN PresetTable : PresetTable[i][1] = id][2]]

DEFAULT_PRESET_ID == "sim-release-gate"

Overlay(id) ==
  [s \in PRESETS[id].set |->
     IF s \in Listed THEN [value |-> "set", list |-> HeldBy(id)] ELSE [value |-> "set"]]

build(id) == deep_merge(default_config, Overlay(id))

-----------------------------------------------------------------------------
(* Selections: "all" alone, or the names of suites.                        *)

BUILTIN_SUITES == <<"firmware", "tinyml", "fusion", "hil", "memory", "rt">>
Suites == Range(BUILTIN_SUITES)
TARGET_SUITES == {"firmware", "tinyml", "rt"}

SUITE_CONFIG_SECTION ==
  [firmware |-> "firmware", tinyml |-> "tinyml", fusion |-> "sensor_fusion",
   hil |-> "hil", memory |-> "memory", rt |-> "rt_perf"]

Selections == {{"all"}} \cup ((SUBSET Suites) \ {{}})

selection_includes(parts, suite) == parts = {"all"} \/ suite \in parts

\* Those of the list, in its order.
selected_suites(parts) ==
  LET upto[n \in 0..Len(BUILTIN_SUITES)] ==
        IF n = 0 THEN <<>>
        ELSE IF selection_includes(parts, BUILTIN_SUITES[n])
             THEN Append(upto[n - 1], BUILTIN_SUITES[n]) ELSE upto[n - 1]
  IN  upto[Len(BUILTIN_SUITES)]

needs_target(parts) == parts \cap (TARGET_SUITES \cup {"all"}) # {}

-----------------------------------------------------------------------------
(* Validation.  A section that is absent is passed over, but for target.   *)

SectionErrors(s, body) ==
  \/ SCHEMA[s].required \ DOMAIN body # {}
  \/ "value" \in DOMAIN body /\ body.value = "wrong"
  \/ "list" \in DOMAIN body /\ Range(body.list) \cap WrongItems # {}

validate_config(raw) ==
  {s \in DOMAIN raw : SectionErrors(s, raw[s])} \cup ({"target"} \ DOMAIN raw)

\* Faulty variant: a section belongs to a selection that is its suite's name.
RelevantToOne(parts) ==
  IF parts = {"all"} THEN Sections
  ELSE {"target", "reporting"} \cup {s \in Sections : parts = {SCHEMA[s].suite}}

Relevant(parts) ==
  IF parts = {"all"} THEN Sections
  ELSE {"target", "reporting"} \cup {s \in Sections : SCHEMA[s].suite \in parts}

validate_for_suite(raw, parts) == validate_config(raw) \cap Relevant(parts)

-----------------------------------------------------------------------------
(* Files.  `inherit` names the parent or is "none"; a file that is absent, *)
(* unreadable or not YAML has no mapping.                                  *)

Mapping(inherit, body) == [kind |-> "mapping", inherit |-> inherit, body |-> body]
NoMapping(kind) == [kind |-> kind, inherit |-> "none", body |-> <<>>]

\* What a configuration's sections read as, and files that hold such.
BodyTyped(body) ==
  /\ DOMAIN body \subseteq Sections
  /\ \A s \in DOMAIN body :
       /\ "value" \in DOMAIN body[s] => body[s].value \in Values
       /\ "list" \in DOMAIN body[s] => body[s].list \in Seq(Items)

FilesTyped(files, names) ==
  /\ DOMAIN files = names
  /\ \A f \in names :
       /\ files[f].inherit \in names \cup {"none"}
       /\ files[f].kind = "mapping" => BodyTyped(files[f].body)

\* The configuration in a set, or the empty set where loading raises: seen is
\* the files on the way to this one.
load_config(files, path) ==
  LET raw[seen \in SUBSET DOMAIN files] ==
        [f \in DOMAIN files |->
           IF f \in seen \/ files[f].kind # "mapping" THEN {}
           ELSE IF files[f].inherit = "none" THEN {files[f].body}
           ELSE {deep_merge(parent, files[f].body) :
                   parent \in raw[seen \cup {f}][files[f].inherit]}]
  IN  raw[{}][path]

=============================================================================
