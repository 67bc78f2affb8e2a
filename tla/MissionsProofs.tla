---------------------------- MODULE MissionsProofs ----------------------------
(***************************************************************************)
(* What reaches a run, for any number of sessions, files, edits and runs,  *)
(* with proofs.                                                            *)
(*                                                                         *)
(* ObjInv says which objects there are: configurations are only ever       *)
(* added, a run refers to one of them, and a list that is not a            *)
(* configuration's own is one that a preset holds, under the same section. *)
(* Then a step changes what a run reads only by writing to the object      *)
(* itself.  PassedInv adds that no two pages have the same configuration,  *)
(* so that a review stays true until the page itself acts, but for the     *)
(* lists of presets.  What load_config gives is shown by induction on the  *)
(* files that were not seen yet.                                           *)
(***************************************************************************)
EXTENDS Missions, SequenceTheorems, FiniteSetTheorems, WellFoundedInduction, TLAPS

IsList(s) == s \in Seq(Range(s))

SameDomain(t, s) == t = [i \in DOMAIN s |-> t[i]]

\* A list of its own, or one that a preset holds under the same section.
RefsOk(config, presets) ==
  \A s \in DOMAIN config :
    "list" \in DOMAIN config[s] =>
      \/ config[s].list.of = "own"
      \/ s \in Listed /\ config[s].list.of \in presets

ConfigsOk ==
  IsList(configs) /\ \A c \in DOMAIN configs : RefsOk(configs[c], DOMAIN held)

RunsOk ==
  IsList(runs) /\ \A r \in DOMAIN runs :
                   "config" \in DOMAIN runs[r] /\ runs[r].config \in DOMAIN configs

PageOk ==
  DOMAIN page = Pages /\ \A p \in Pages :
    /\ "config" \in DOMAIN page[p] /\ "review" \in DOMAIN page[p]
    /\ page[p].config = 0 => page[p].review = "stale"

PlaceOk == \A p \in Pages : page[p].config = 0 \/ page[p].config \in DOMAIN configs

HeldOk ==
  /\ DOMAIN held = Offered \cup {DEFAULT_PRESET_ID}
  /\ \A id \in DOMAIN held : Listed \subseteq DOMAIN held[id]

ObjInv == ConfigsOk /\ RunsOk /\ PageOk /\ PlaceOk /\ HeldOk

-----------------------------------------------------------------------------
(* The tables.                                                             *)

LEMMA ListDomain ==
  ASSUME NEW s, IsList(s) PROVE Len(s) \in Nat /\ DOMAIN s = 1..Len(s)
  BY LenProperties DEF IsList

LEMMA IsListIf ==
  ASSUME NEW S, NEW s \in Seq(S) PROVE IsList(s)
<1>1. PICK n \in Nat : s \in [1..n -> S]
  BY SeqDef
<1>2. s \in [1..n -> Range(s)]
  BY <1>1 DEF Range
<1>3. Seq(Range(s)) = UNION {[1..k -> Range(s)] : k \in Nat}
  BY SeqDef
<1> QED
  BY <1>1, <1>2, <1>3 DEF IsList

LEMMA AppendList ==
  ASSUME NEW s, NEW e, IsList(s)
  PROVE  /\ IsList(Append(s, e))
         /\ Len(Append(s, e)) = Len(s) + 1
         /\ DOMAIN Append(s, e) = 1..(Len(s) + 1)
         /\ \A i \in DOMAIN s : Append(s, e)[i] = s[i]
         /\ Append(s, e)[Len(s) + 1] = e
<1> DEFINE S == Range(s) \cup {e}
<1>1. s \in Seq(S)
  BY SeqMonotonic DEF IsList
<1>2. Append(s, e) \in Seq(S)
  BY <1>1
<1>3. /\ Len(Append(s, e)) = Len(s) + 1
      /\ \A i \in 1..Len(s) : Append(s, e)[i] = s[i]
      /\ Append(s, e)[Len(s) + 1] = e
  BY <1>1
<1>4. IsList(Append(s, e))
  BY <1>2, IsListIf
<1> HIDE DEF S
<1> QED
  BY <1>3, <1>4, ListDomain

LEMMA ExceptList ==
  ASSUME NEW s, NEW t, IsList(s), SameDomain(t, s)
  PROVE  IsList(t) /\ Len(t) = Len(s)
<1>1. Len(s) \in Nat /\ DOMAIN s = 1..Len(s)
  BY ListDomain
<1>2. t \in [1..Len(s) -> Range(t)]
  BY <1>1 DEF SameDomain, Range
<1>3. Seq(Range(t)) = UNION {[1..k -> Range(t)] : k \in Nat}
  BY SeqDef
<1>4. IsList(t)
  BY <1>1, <1>2, <1>3 DEF IsList
<1>5. DOMAIN t = 1..Len(t) /\ Len(t) \in Nat
  BY <1>4, ListDomain
<1>6. DOMAIN t = DOMAIN s
  BY DEF SameDomain
<1>7. Len(t) = Len(s)
  <2>1. \A m, n \in Nat : 1..m = 1..n => m <= n
    <3>1. ASSUME NEW m \in Nat, NEW n \in Nat, 1..m = 1..n, ~(m <= n) PROVE FALSE
      <4>1. m \in 1..m
        BY <3>1
      <4>2. m \in 1..n
        BY <3>1, <4>1
      <4> QED
        BY <3>1, <4>2
    <3> QED
      BY <3>1
  <2>2. 1..Len(t) = 1..Len(s) /\ 1..Len(s) = 1..Len(t)
    BY <1>1, <1>5, <1>6
  <2> HIDE DEF SameDomain
  <2>3. Len(t) <= Len(s) /\ Len(s) <= Len(t)
    BY <2>1, <2>2, <1>1, <1>5
  <2>4. Len(t) \in Nat /\ Len(s) \in Nat
    BY <1>1, <1>5
  <2>5. \A m, n \in Nat : m <= n /\ n <= m => m = n
    OBVIOUS
  <2> QED
    BY <2>3, <2>4, <2>5, Zenon
<1> QED
  BY <1>4, <1>7

LEMMA ListedSections == Listed = {"hil", "rt_perf"}
<1>1. Sections = {"target", "firmware", "tinyml", "memory", "sensor_fusion", "hil",
                  "rt_perf", "reporting"}
  BY DEF Sections, SCHEMA
<1>2. /\ ~SCHEMA["target"].list /\ ~SCHEMA["firmware"].list /\ ~SCHEMA["tinyml"].list
      /\ ~SCHEMA["memory"].list /\ ~SCHEMA["sensor_fusion"].list
      /\ ~SCHEMA["reporting"].list
  BY DEF SCHEMA, TARGET_SECTION, FIRMWARE_SECTION, TINYML_SECTION, MEMORY_SECTION,
         FUSION_SECTION, REPORTING_SECTION
<1>3. SCHEMA["hil"].list /\ SCHEMA["rt_perf"].list
  BY DEF SCHEMA, HIL_SECTION, RT_SECTION
<1> QED
  BY <1>1, <1>2, <1>3 DEF Listed

LEMMA NoListsDomain == DOMAIN NoLists = {"hil", "rt_perf"}
  BY DEF NoLists

LEMMA TableLists ==
  ASSUME NEW i \in DOMAIN PresetTable
  PROVE  DOMAIN PresetTable[i][2].lists = {"hil", "rt_perf"}
<1>1. DOMAIN PresetTable = 1..9
  BY DEF PresetTable
<1>2. CASE i = 1
  BY <1>2, NoListsDomain DEF PresetTable, Preset
<1>3. CASE i = 2
  BY <1>3 DEF PresetTable, Preset
<1>4. CASE i = 3
  BY <1>4, NoListsDomain DEF PresetTable, Preset
<1>5. CASE i = 4
  BY <1>5, NoListsDomain DEF PresetTable, Preset
<1>6. CASE i = 5
  BY <1>6, NoListsDomain DEF PresetTable, Preset
<1>7. CASE i = 6
  BY <1>7, NoListsDomain DEF PresetTable, Preset
<1>8. CASE i = 7
  BY <1>8, NoListsDomain DEF PresetTable, Preset
<1>9. CASE i = 8
  BY <1>9, NoListsDomain DEF PresetTable, Preset
<1>10. CASE i = 9
  BY <1>10, NoListsDomain DEF PresetTable, Preset
<1> QED
  BY <1>1, <1>2, <1>3, <1>4, <1>5, <1>6, <1>7, <1>8, <1>9, <1>10

LEMMA DefaultIsPreset == DEFAULT_PRESET_ID \in DOMAIN PRESETS
<1>1. DOMAIN PresetTable = 1..9
  BY DEF PresetTable
<1>2. PresetTable[2][1] = "sim-release-gate"
  BY DEF PresetTable
<1> QED
  BY <1>1, <1>2 DEF PRESETS, DEFAULT_PRESET_ID

LEMMA PresetHasLists ==
  ASSUME NEW id \in DOMAIN PRESETS PROVE DOMAIN PRESETS[id].lists = {"hil", "rt_perf"}
<1>1. PICK i \in DOMAIN PresetTable : PresetTable[i][1] = id
  BY DEF PRESETS
<1> DEFINE j == CHOOSE k \in DOMAIN PresetTable : PresetTable[k][1] = id
<1>2. j \in DOMAIN PresetTable
  BY <1>1
<1>3. PRESETS[id] = PresetTable[j][2]
  BY DEF PRESETS
<1> QED
  BY <1>2, <1>3, TableLists

LEMMA BuildRefs ==
  ASSUME NEW id PROVE RefsOk(build(id), {id})
<1> SUFFICES ASSUME NEW s \in DOMAIN build(id), "list" \in DOMAIN build(id)[s]
             PROVE  \/ build(id)[s].list.of = "own"
                    \/ s \in Listed /\ build(id)[s].list.of = id
  BY DEF RefsOk
<1> DEFINE overlay == Overlay(id)
<1>1. s \in DOMAIN default_config \cup DOMAIN overlay
  BY DEF build, deep_merge, Over
<1>2. CASE s \notin DOMAIN overlay
  <2>1. s \in Sections /\ build(id)[s] = default_config[s]
    BY <1>1, <1>2 DEF build, deep_merge, Over, default_config
  <2> QED
    BY <2>1 DEF default_config, Own
<1>3. CASE s \in DOMAIN overlay /\ s \notin DOMAIN default_config
  <2>1. build(id)[s] = overlay[s]
    BY <1>3 DEF build, deep_merge, Over
  <2>2. s \in Listed
    BY <1>3, <2>1 DEF Overlay
  <2> QED
    BY <1>3, <2>1, <2>2 DEF Overlay, HeldBy
<1>4. CASE s \in DOMAIN overlay /\ s \in DOMAIN default_config
  <2>1. build(id)[s] = Over(default_config[s], overlay[s])
    BY <1>4 DEF build, deep_merge, Over
  <2>2. s \in Sections
    BY <1>4 DEF default_config
  <2>3. CASE s \in Listed
    <3>1. overlay[s] = [value |-> "set", list |-> HeldBy(id)]
      BY <1>4, <2>3 DEF Overlay
    <3>2. build(id)[s].list = HeldBy(id)
      BY <2>1, <3>1 DEF Over
    <3> QED
      BY <2>3, <3>2 DEF HeldBy
  <2>4. CASE s \notin Listed
    <3>1. overlay[s] = [value |-> "set"]
      BY <1>4, <2>4 DEF Overlay
    <3>2. default_config[s] = [value |-> "default"]
      BY <2>2, <2>4 DEF default_config, Listed
    <3> QED
      BY <2>1, <3>1, <3>2 DEF Over
  <2> QED
    BY <2>3, <2>4
<1> QED
  BY <1>1, <1>2, <1>3, <1>4

-----------------------------------------------------------------------------
(* The objects.                                                            *)

LEMMA ObjInit == Init => ObjInv
<1> SUFFICES ASSUME Init PROVE ObjInv
  OBVIOUS
<1>1. IsList(configs) /\ IsList(runs)
  BY EmptySeq DEF Init, IsList
<1>2. DOMAIN configs = {} /\ DOMAIN runs = {}
  BY DEF Init
<1>3. PageOk /\ PlaceOk
  BY DEF Init, NoPage, PageOk, PlaceOk
<1>4. DOMAIN held = Offered \cup {DEFAULT_PRESET_ID}
  BY DEF Init
<1>5. ASSUME NEW id \in DOMAIN held PROVE Listed \subseteq DOMAIN held[id]
  <2>1. id \in DOMAIN PRESETS
    BY <1>4, ConstantsAssumption, DefaultIsPreset
  <2>2. held[id] = PRESETS[id].lists
    BY <1>4 DEF Init
  <2> QED
    BY <2>1, <2>2, PresetHasLists, ListedSections
<1> QED
  BY <1>1, <1>2, <1>3, <1>4, <1>5 DEF ObjInv, ConfigsOk, RunsOk, HeldOk

\* A configuration is added, whose lists are in order.
LEMMA ObjAdd ==
  ASSUME ConfigsOk, NEW config, RefsOk(config, DOMAIN held),
         configs' = Append(configs, config), UNCHANGED held
  PROVE  /\ ConfigsOk'
         /\ DOMAIN configs \subseteq DOMAIN configs'
         /\ Len(configs) + 1 \in DOMAIN configs' /\ Len(configs) + 1 # 0
         /\ \A c \in DOMAIN configs : configs'[c] = configs[c]
<1>1. IsList(configs)
  BY DEF ConfigsOk
<1>2. Len(configs) \in Nat /\ DOMAIN configs = 1..Len(configs)
  BY <1>1, ListDomain
<1>3. /\ IsList(configs')
      /\ DOMAIN configs' = 1..(Len(configs) + 1)
      /\ \A c \in DOMAIN configs : configs'[c] = configs[c]
      /\ configs'[Len(configs) + 1] = config
  BY <1>1, AppendList
<1>4. \A c \in DOMAIN configs' : c \in DOMAIN configs \/ c = Len(configs) + 1
  BY <1>2, <1>3
<1>5. DOMAIN configs \subseteq DOMAIN configs' /\ Len(configs) + 1 \in DOMAIN configs'
  BY <1>2, <1>3
<1>6. ASSUME NEW c \in DOMAIN configs' PROVE RefsOk(configs'[c], DOMAIN held')
  BY <1>3, <1>4, <1>6 DEF ConfigsOk
<1> QED
  BY <1>2, <1>3, <1>5, <1>6 DEF ConfigsOk

\* A configuration is changed, but for which object its lists are.
LEMMA ObjChange ==
  ASSUME ConfigsOk, NEW config, NEW c \in DOMAIN configs, RefsOk(config, DOMAIN held),
         configs' = [configs EXCEPT ![c] = config], UNCHANGED held
  PROVE  ConfigsOk' /\ DOMAIN configs' = DOMAIN configs
<1>1. SameDomain(configs', configs)
  BY DEF SameDomain
<1>2. IsList(configs')
  BY <1>1, ExceptList DEF ConfigsOk
<1>3. \A d \in DOMAIN configs' : RefsOk(configs'[d], DOMAIN held')
  BY DEF ConfigsOk
<1> QED
  BY <1>2, <1>3 DEF ConfigsOk

\* The page goes on with the same configuration.
Stays == PageOk' /\ \A p \in Pages : page'[p].config = page[p].config

LEMMA StaysIf ==
  ASSUME PageOk, NEW p \in Pages,
         \/ UNCHANGED page
         \/ \E f : page' = [page EXCEPT ![p].saved = f]
         \/ \E x, y : /\ page[p].config # 0
                     /\ page' = [page EXCEPT ![p].suite = x, ![p].review = y]
         \/ \E x : /\ x = "stale" \/ page[p].config # 0
                  /\ page' = [page EXCEPT ![p].review = x]
  PROVE  Stays
<1>1. CASE UNCHANGED page
  BY <1>1 DEF Stays, PageOk
<1>2. ASSUME NEW f, page' = [page EXCEPT ![p].saved = f] PROVE Stays
  BY <1>2 DEF Stays, PageOk
<1>3. ASSUME NEW x, NEW y, page[p].config # 0,
             page' = [page EXCEPT ![p].suite = x, ![p].review = y]
      PROVE Stays
  BY <1>3 DEF Stays, PageOk
<1>4. ASSUME NEW x, x = "stale" \/ page[p].config # 0, page' = [page EXCEPT ![p].review = x]
      PROVE Stays
  BY <1>4 DEF Stays, PageOk
<1> QED
  BY <1>1, <1>2, <1>3, <1>4

\* Runs keep the configuration they were given.
RunsKeep == \A r \in DOMAIN runs : runs'[r].config = runs[r].config

LEMMA RunsKept ==
  ASSUME RunsOk, SameDomain(runs', runs), DOMAIN configs \subseteq DOMAIN configs',
         \A r \in DOMAIN runs : "config" \in DOMAIN runs'[r] /\ runs'[r].config = runs[r].config
  PROVE  RunsOk' /\ RunsKeep /\ Len(runs') = Len(runs)
<1>1. IsList(runs') /\ Len(runs') = Len(runs)
  BY ExceptList DEF RunsOk
<1>2. DOMAIN runs' = DOMAIN runs
  BY DEF SameDomain
<1> QED
  BY <1>1, <1>2 DEF RunsOk, RunsKeep

LEMMA RunsSame ==
  ASSUME RunsOk, UNCHANGED runs, DOMAIN configs \subseteq DOMAIN configs'
  PROVE  RunsOk' /\ RunsKeep
  BY DEF RunsOk, RunsKeep

LEMMA RunAdded ==
  ASSUME RunsOk, NEW by, NEW c \in DOMAIN configs', NEW parts,
         runs' = Append(runs, NewRun(by, c, parts)), DOMAIN configs \subseteq DOMAIN configs'
  PROVE  RunsOk' /\ RunsKeep
<1> DEFINE run == NewRun(by, c, parts)
<1>1. IsList(runs) /\ DOMAIN runs = 1..Len(runs) /\ Len(runs) \in Nat
  BY ListDomain DEF RunsOk
<1>2. "config" \in DOMAIN run /\ run.config = c
  BY DEF NewRun
<1> HIDE DEF run
<1>3. /\ IsList(runs')
      /\ DOMAIN runs' = 1..(Len(runs) + 1)
      /\ \A r \in DOMAIN runs : runs'[r] = runs[r]
      /\ runs'[Len(runs) + 1] = run
  BY <1>1, AppendList DEF run
<1>4. \A r \in DOMAIN runs' : r \in DOMAIN runs \/ r = Len(runs) + 1
  BY <1>1, <1>3
<1>5. \A r \in DOMAIN runs' : "config" \in DOMAIN runs'[r] /\ runs'[r].config \in DOMAIN configs'
  BY <1>2, <1>3, <1>4 DEF RunsOk
<1> QED
  BY <1>3, <1>5 DEF RunsOk, RunsKeep

LEMMA RunSteps ==
  ASSUME ObjInv, NEW r \in DOMAIN runs,
         WriteResolved(r) \/ BuildTarget(r) \/ RunSuite(r) \/ Finish(r)
  PROVE  RunsOk' /\ RunsKeep /\ Len(runs') = Len(runs)
         /\ UNCHANGED <<held, configs, page>>
<1>1. RunsOk
  BY DEF ObjInv
<1>2. UNCHANGED <<held, configs, page>>
  BY DEF WriteResolved, BuildTarget, RunSuite, Finish
<1>3. "config" \in DOMAIN runs[r]
  BY <1>1 DEF RunsOk
<1>4. ASSUME NEW run, runs' = [runs EXCEPT ![r] = run],
             "config" \in DOMAIN run, run.config = runs[r].config
      PROVE  RunsOk' /\ RunsKeep /\ Len(runs') = Len(runs)
  <2>1. /\ SameDomain(runs', runs)
        /\ \A q \in DOMAIN runs : "config" \in DOMAIN runs'[q] /\ runs'[q].config = runs[q].config
    BY <1>1, <1>4 DEF SameDomain, RunsOk
  <2> QED
    BY <1>1, <1>2, <2>1, RunsKept
<1>5. CASE WriteResolved(r)
  <2>1. PICK recorded : runs' = [runs EXCEPT ![r].recorded = recorded, ![r].at = "written"]
    BY <1>5 DEF WriteResolved
  <2> DEFINE run == [runs[r] EXCEPT !.recorded = recorded, !.at = "written"]
  <2>2. "config" \in DOMAIN run /\ run.config = runs[r].config
    BY <1>3
  <2> QED
    BY <1>2, <1>4, <2>1, <2>2
<1>7. ASSUME NEW at, runs' = [runs EXCEPT ![r].at = at] 
      PROVE  RunsOk' /\ RunsKeep /\ Len(runs') = Len(runs)
  <2> DEFINE run == [runs[r] EXCEPT !.at = at]
  <2>1. "config" \in DOMAIN run /\ run.config = runs[r].config
    BY <1>3
  <2> QED
    BY <1>4, <1>7, <2>1
<1>8. ASSUME NEW u, NEW at, runs' = [runs EXCEPT ![r].used = u, ![r].at = at]
      PROVE  RunsOk' /\ RunsKeep /\ Len(runs') = Len(runs)
  <2> DEFINE run == [runs[r] EXCEPT !.used = u, !.at = at]
  <2>1. "config" \in DOMAIN run /\ run.config = runs[r].config
    BY <1>3
  <2> QED
    BY <1>4, <1>8, <2>1
<1>9. ASSUME NEW u, NEW n, runs' = [runs EXCEPT ![r].used = u, ![r].done = n]
      PROVE  RunsOk' /\ RunsKeep /\ Len(runs') = Len(runs)
  <2> DEFINE run == [runs[r] EXCEPT !.used = u, !.done = n]
  <2>1. "config" \in DOMAIN run /\ run.config = runs[r].config
    BY <1>3
  <2> QED
    BY <1>4, <1>9, <2>1
<1>10. ASSUME NEW n, runs' = [runs EXCEPT ![r].done = n] 
      PROVE  RunsOk' /\ RunsKeep /\ Len(runs') = Len(runs)
  <2> DEFINE run == [runs[r] EXCEPT !.done = n]
  <2>1. "config" \in DOMAIN run /\ run.config = runs[r].config
    BY <1>3
  <2> QED
    BY <1>4, <1>10, <2>1
<1>11. CASE BuildTarget(r)
  <2>1. \/ runs' = [runs EXCEPT ![r].at = "suites"]
        \/ runs' = [runs EXCEPT ![r].used = Uses(r, "target"), ![r].at = "suites"]
        \/ runs' = [runs EXCEPT ![r].at = "done"]
    BY <1>11, Zenon DEF BuildTarget
  <2> QED
    BY <1>2, <1>7, <1>8, <2>1
<1>12. CASE RunSuite(r)
  <2> DEFINE u == Uses(r, SUITE_CONFIG_SECTION[runs[r].suites[runs[r].done + 1]])
             n == runs[r].done + 1
  <2>1. \/ runs' = [runs EXCEPT ![r].used = u, ![r].done = n]
        \/ runs' = [runs EXCEPT ![r].done = n]
        \/ runs' = [runs EXCEPT ![r].at = "done"]
    BY <1>12 DEF RunSuite
  <2> HIDE DEF u, n
  <2> QED
    BY <1>2, <1>7, <1>9, <1>10, <2>1
<1>13. CASE Finish(r)
  BY <1>2, <1>7, <1>13 DEF Finish
<1> QED
  BY <1>2, <1>5, <1>11, <1>12, <1>13

-----------------------------------------------------------------------------
(* Edits.                                                                  *)

LEMMA SameRefs ==
  ASSUME NEW config, NEW new, NEW presets, RefsOk(config, presets),
         DOMAIN new = DOMAIN config,
         \A s \in DOMAIN config : /\ DOMAIN new[s] = DOMAIN config[s]
                                  /\ "list" \in DOMAIN config[s] => new[s].list = config[s].list
  PROVE  RefsOk(new, presets)
<1> SUFFICES ASSUME NEW s \in DOMAIN config, "list" \in DOMAIN config[s]
             PROVE  new[s].list.of = "own" \/ (s \in Listed /\ new[s].list.of \in presets)
  BY Zenon DEF RefsOk
<1>1. new[s].list = config[s].list
  BY Zenon
<1>2. config[s].list.of = "own" \/ (s \in Listed /\ config[s].list.of \in presets)
  BY DEF RefsOk
<1> QED
  BY <1>1, <1>2

LEMMA FieldRefs ==
  ASSUME NEW config, NEW s, NEW v, NEW presets, RefsOk(config, presets)
  PROVE  RefsOk([config EXCEPT ![s].value = v], presets)
<1> DEFINE new == [config EXCEPT ![s].value = v]
<1>1. \A x \in DOMAIN config : /\ DOMAIN new[x] = DOMAIN config[x]
                               /\ "list" \in DOMAIN config[x] => new[x].list = config[x].list
  OBVIOUS
<1>2. DOMAIN new = DOMAIN config
  OBVIOUS
<1> HIDE DEF new
<1>3. RefsOk(new, presets)
  BY <1>1, <1>2, SameRefs
<1> QED
  BY <1>3 DEF new

LEMMA FilledRefs ==
  ASSUME NEW p, NEW advanced, ConfigsOk, page[p].config \in DOMAIN configs
  PROVE  RefsOk(Filled(p, advanced), DOMAIN held)
<1> DEFINE config == configs[page[p].config]
           new == Filled(p, advanced)
<1>1. DOMAIN new = DOMAIN config
  BY DEF Filled
<1>2. \A s \in DOMAIN config : new[s] = config[s] \/ new[s] = [config[s] EXCEPT !.value = "filled"]
  BY DEF Filled
<1>3. RefsOk(config, DOMAIN held)
  BY DEF ConfigsOk
<1> HIDE DEF config, new
<1>4. \A s \in DOMAIN config : /\ DOMAIN new[s] = DOMAIN config[s]
                               /\ "list" \in DOMAIN config[s] => new[s].list = config[s].list
  BY <1>2
<1>5. RefsOk(new, DOMAIN held)
  BY <1>1, <1>3, <1>4, SameRefs
<1> QED
  BY <1>5 DEF new

\* A list is changed in one of the two places where it may be.
LEMMA ItemsRefs ==
  ASSUME ObjInv, NEW c \in DOMAIN configs, NEW s \in Listed, NEW items, SetItems(c, s, items)
  PROVE  /\ ConfigsOk' /\ HeldOk' /\ DOMAIN configs' = DOMAIN configs
         /\ \A d \in DOMAIN configs : d # c => configs'[d] = configs[d]
<1> DEFINE ref == configs[c][s].list
<1>1. CASE ref.of = "own"
  <2> DEFINE new == [configs[c] EXCEPT ![s].list = Own(items)]
  <2>1. configs' = [configs EXCEPT ![c] = new] /\ UNCHANGED held
    BY <1>1 DEF SetItems
  <2>2. RefsOk(configs[c], DOMAIN held)
    BY DEF ObjInv, ConfigsOk
  <2>3. RefsOk(new, DOMAIN held)
    <3>1. DOMAIN new = DOMAIN configs[c]
      OBVIOUS
    <3>2. \A x \in DOMAIN configs[c] : x # s => new[x] = configs[c][x]
      OBVIOUS
    <3>3. s \in DOMAIN configs[c] => new[s] = [configs[c][s] EXCEPT !.list = Own(items)]
      OBVIOUS
    <3>4. s \in DOMAIN configs[c] /\ "list" \in DOMAIN configs[c][s] => new[s].list.of = "own"
      BY <3>3 DEF Own
    <3>5. s \in DOMAIN configs[c] => DOMAIN new[s] = DOMAIN configs[c][s]
      BY <3>3
    <3> HIDE DEF new
    <3> SUFFICES ASSUME NEW x \in DOMAIN configs[c], "list" \in DOMAIN new[x]
                 PROVE  \/ new[x].list.of = "own"
                        \/ x \in Listed /\ new[x].list.of \in DOMAIN held
      BY <3>1, Zenon DEF RefsOk
    <3>6. CASE x = s
      BY <3>4, <3>5, <3>6
    <3>7. CASE x # s
      BY <2>2, <3>2, <3>7 DEF RefsOk
    <3> QED
      BY <3>6, <3>7
  <2> HIDE DEF new
  <2>4. ConfigsOk' /\ DOMAIN configs' = DOMAIN configs
    BY <2>1, <2>3, ObjChange DEF ObjInv
  <2>5. \A d \in DOMAIN configs : d # c => configs'[d] = configs[d]
    BY <2>1
  <2> QED
    BY <2>1, <2>4, <2>5 DEF ObjInv, HeldOk
<1>2. CASE ref.of # "own"
  <2>1. held' = [held EXCEPT ![ref.of][s] = items] /\ UNCHANGED configs
    BY <1>2 DEF SetItems
  <2>2. DOMAIN held' = DOMAIN held /\ \A id \in DOMAIN held : DOMAIN held'[id] = DOMAIN held[id]
    BY <2>1
  <2> QED
    BY <2>1, <2>2 DEF ObjInv, ConfigsOk, HeldOk
<1> QED
  BY <1>1, <1>2

-----------------------------------------------------------------------------
(* The steps.                                                              *)

LEMMA NewConfig ==
  ASSUME ObjInv, NEW p \in Pages, NEW id \in DOMAIN held,
         configs' = Append(configs, build(id)), UNCHANGED held,
         \/ page' = [page EXCEPT ![p].config = Len(configs) + 1]
         \/ \E x, y : page' = [page EXCEPT ![p].config = Len(configs) + 1, ![p].suite = x,
                                           ![p].review = y]
  PROVE  /\ ConfigsOk' /\ HeldOk' /\ PageOk' /\ PlaceOk'
         /\ DOMAIN configs \subseteq DOMAIN configs'
         /\ \A c \in DOMAIN configs : configs'[c] = configs[c]
<1>1. RefsOk(build(id), DOMAIN held)
  BY BuildRefs DEF RefsOk
<1>2. /\ ConfigsOk' /\ DOMAIN configs \subseteq DOMAIN configs'
      /\ Len(configs) + 1 \in DOMAIN configs' /\ Len(configs) + 1 # 0
      /\ \A c \in DOMAIN configs : configs'[c] = configs[c]
  BY <1>1, ObjAdd DEF ObjInv
<1> DEFINE n == Len(configs) + 1
<1> HIDE DEF n
<1>3. \/ page' = [page EXCEPT ![p].config = n]
      \/ \E x, y : page' = [page EXCEPT ![p].config = n, ![p].suite = x, ![p].review = y]
  BY DEF n
<1>4. n \in DOMAIN configs' /\ n # 0
  BY <1>2 DEF n
<1>5. PageOk /\ PlaceOk
  BY DEF ObjInv
<1>6. ASSUME page' = [page EXCEPT ![p].config = n] PROVE PageOk' /\ PlaceOk'
  BY <1>2, <1>4, <1>5, <1>6 DEF PageOk, PlaceOk
<1>7. ASSUME NEW x, NEW y,
             page' = [page EXCEPT ![p].config = n, ![p].suite = x, ![p].review = y]
      PROVE  PageOk' /\ PlaceOk'
  BY <1>2, <1>4, <1>5, <1>7 DEF PageOk, PlaceOk
<1>8. HeldOk'
  BY DEF ObjInv, HeldOk
<1> QED
  BY <1>2, <1>3, <1>6, <1>7, <1>8

\* What a configuration reads as, with the lists of the presets left alone.
LEMMA SameContents ==
  ASSUME NEW c, configs'[c] = configs[c], UNCHANGED held PROVE Contents(c)' = Contents(c)
  BY DEF Contents, Read, ItemsOf

\* What a run reads of another configuration, when a list of a preset changes.
LEMMA OtherList ==
  ASSUME ObjInv, NEW s \in Listed, NEW id, NEW items,
         held' = [held EXCEPT ![id][s] = items], UNCHANGED configs, NEW c \in DOMAIN configs,
         s \in DOMAIN configs[c] => configs[c][s].list.of # id
  PROVE  Contents(c)' = Contents(c)
<1>1. ASSUME NEW x \in DOMAIN configs[c], "list" \in DOMAIN configs[c][x]
      PROVE  ItemsOf(configs[c][x].list, x)' = ItemsOf(configs[c][x].list, x)
  <2>1. CASE configs[c][x].list.of = "own"
    BY <2>1 DEF ItemsOf
  <2>2. CASE configs[c][x].list.of # "own"
    <3>1. x \in Listed /\ configs[c][x].list.of \in DOMAIN held
      BY <1>1, <2>2 DEF ObjInv, ConfigsOk, RefsOk
    <3> DEFINE i == configs[c][x].list.of
    <3>2. x \in DOMAIN held[i] /\ i \in DOMAIN held
      BY <3>1 DEF ObjInv, HeldOk
    <3>3. x # s \/ i # id
      OBVIOUS
    <3> HIDE DEF i
    <3>4. held'[i][x] = held[i][x]
      BY <3>2, <3>3
    <3> QED
      BY <3>4 DEF ItemsOf, i
  <2> QED
    BY <2>1, <2>2
<1>2. configs'[c] = configs[c]
  OBVIOUS
<1> DEFINE old(x, k) == IF k = "list" THEN ItemsOf(configs[c][x].list, x) ELSE configs[c][x].value
           new(x, k) == IF k = "list" THEN ItemsOf(configs[c][x].list, x)' ELSE configs[c][x].value
<1>3. \A x \in DOMAIN configs[c] : \A k \in DOMAIN configs[c][x] : new(x, k) = old(x, k)
  BY <1>1
<1>4. Contents(c) = [x \in DOMAIN configs[c] |-> [k \in DOMAIN configs[c][x] |-> old(x, k)]]
  BY DEF Contents, Read
<1>5. Contents(c)' = [x \in DOMAIN configs[c] |-> [k \in DOMAIN configs[c][x] |-> new(x, k)]]
  BY DEF Contents, Read, ItemsOf
<1> HIDE DEF old, new
<1> QED
  BY <1>3, <1>4, <1>5

\* A step that adds a configuration, or none, and no edit: every run there was
\* reads what it read.
Reaches(r) == Contents(runs[r].config)' # Contents(runs[r].config)

LEMMA NotReached ==
  ASSUME ObjInv, RunsKeep, UNCHANGED held, \A c \in DOMAIN configs : configs'[c] = configs[c],
         NEW r \in DOMAIN runs
  PROVE  ~Reaches(r)
<1>1. PICK c \in DOMAIN configs : c = runs[r].config /\ c = runs'[r].config
  BY DEF ObjInv, RunsOk, RunsKeep
<1>2. Contents(c)' = Contents(c)
  BY SameContents
<1>3. Contents(runs[r].config) = Contents(c)
  BY <1>1
<1>4. Contents(runs[r].config)' = Contents(c)'
  BY <1>1 DEF Contents, Read, ItemsOf
<1> QED
  BY <1>2, <1>3, <1>4 DEF Reaches

AllowedReach ==
  \A r \in DOMAIN runs :
    Live(r) /\ Reaches(r) =>
      \E p \in Pages :
        \/ page[p].config = runs[r].config /\ (Edit(p) \/ Draw(p) \/ Launch(p))
        \/ Edit(p) /\ \E s \in Listed \cap DOMAIN configs[runs[r].config] :
             configs[runs[r].config][s].list.of = configs[page[p].config][s].list.of

StepIsSafe == ObjInv' /\ AllowedReach

\* A page stays where it is, and the configurations are as before.
LEMMA QuietStep ==
  ASSUME ObjInv, Stays, UNCHANGED <<held, configs>>, RunsOk', RunsKeep PROVE StepIsSafe
<1>1. ConfigsOk' /\ HeldOk' /\ PageOk'
  BY DEF ObjInv, ConfigsOk, HeldOk, Stays
<1>2. PlaceOk'
  BY DEF ObjInv, PlaceOk, Stays
<1>3. \A r \in DOMAIN runs : ~Reaches(r)
  BY NotReached
<1> QED
  BY <1>1, <1>2, <1>3 DEF ObjInv, StepIsSafe, AllowedReach

LEMMA OpenStep ==
  ASSUME ObjInv, NEW p \in Pages, Open(p) \/ \E id \in Offered : LoadPreset(p, id)
  PROVE  StepIsSafe
<1>1. UNCHANGED <<held, runs>>
  BY DEF Open, LoadPreset
<1>2. PICK id \in DOMAIN held :
        /\ configs' = Append(configs, build(id))
        /\ \/ page' = [page EXCEPT ![p].config = Len(configs) + 1]
           \/ \E x, y : page' = [page EXCEPT ![p].config = Len(configs) + 1, ![p].suite = x,
                                             ![p].review = y]
  <2>1. CASE Open(p)
    BY <2>1 DEF Open, ObjInv, HeldOk
  <2>2. ASSUME NEW i \in Offered, LoadPreset(p, i)
        PROVE  /\ i \in DOMAIN held /\ configs' = Append(configs, build(i))
               /\ page' = [page EXCEPT ![p].config = Len(configs) + 1,
                                       ![p].suite = PRESETS[i].suite,
                                       ![p].review = Changed(@)]
    BY <2>2 DEF LoadPreset, ObjInv, HeldOk
  <2> QED
    BY <2>1, <2>2
<1>3. /\ ConfigsOk' /\ HeldOk' /\ PageOk' /\ PlaceOk'
      /\ DOMAIN configs \subseteq DOMAIN configs'
      /\ \A c \in DOMAIN configs : configs'[c] = configs[c]
  BY <1>1, <1>2, NewConfig
<1>4. RunsOk' /\ RunsKeep
  BY <1>1, <1>3, RunsSame DEF ObjInv
<1>5. \A r \in DOMAIN runs : ~Reaches(r)
  BY <1>1, <1>3, <1>4, NotReached
<1> QED
  BY <1>3, <1>4, <1>5 DEF ObjInv, StepIsSafe, AllowedReach

LEMMA QuietPageStep ==
  ASSUME ObjInv, NEW p \in Pages,
         ChooseSuite(p) \/ \E f \in Named : Save(p, f) \/ SaveFails(p, f)
  PROVE  StepIsSafe
<1>0. UNCHANGED <<held, configs>> /\ PageOk /\ RunsOk
  BY DEF ChooseSuite, Save, SaveFails, ObjInv
<1>1. CASE ChooseSuite(p)
  <2>1. /\ page[p].config # 0
        /\ \E x, y : page' = [page EXCEPT ![p].suite = x, ![p].review = y]
    BY <1>1 DEF ChooseSuite
  <2>2. Stays
    BY <1>0, <2>1, StaysIf
  <2>3. RunsOk' /\ RunsKeep
    BY <1>0, <1>1, RunsSame DEF ChooseSuite
  <2> QED
    BY <1>0, <2>2, <2>3, QuietStep
<1>2. ASSUME NEW f \in Named, Save(p, f) \/ SaveFails(p, f) PROVE StepIsSafe
  <2>1. UNCHANGED page \/ page' = [page EXCEPT ![p].saved = f]
    BY <1>2 DEF Save, SaveFails
  <2>2. Stays
    BY <1>0, <2>1, StaysIf
  <2>3. RunsOk' /\ RunsKeep
    BY <1>0, <1>2, RunsSame DEF Save, SaveFails
  <2> QED
    BY <1>0, <2>2, <2>3, QuietStep
<1> QED
  BY <1>1, <1>2

\* A page writes to the configuration that it holds.
LEMMA OwnWrite ==
  ASSUME ObjInv, Stays, NEW p \in Pages, page[p].config # 0, Edit(p) \/ Draw(p) \/ Launch(p),
         NEW config, RefsOk(config, DOMAIN held),
         configs' = [configs EXCEPT ![page[p].config] = config], UNCHANGED held,
         UNCHANGED runs \/ \E by, parts : runs' = Append(runs, NewRun(by, page[p].config, parts))
  PROVE  StepIsSafe
<1> DEFINE c == page[p].config
<1>1. c \in DOMAIN configs
  BY DEF ObjInv, PlaceOk
<1>2. ConfigsOk' /\ DOMAIN configs' = DOMAIN configs
  BY <1>1, ObjChange DEF ObjInv
<1>3. RunsOk' /\ RunsKeep
  <2>1. CASE UNCHANGED runs
    BY <1>2, <2>1, RunsSame DEF ObjInv
  <2>2. ASSUME NEW by, NEW parts, runs' = Append(runs, NewRun(by, c, parts))
        PROVE  RunsOk' /\ RunsKeep
    BY <1>1, <1>2, <2>2, RunAdded DEF ObjInv
  <2> QED
    BY <2>1, <2>2
<1>4. HeldOk' /\ PageOk' /\ PlaceOk'
  BY <1>2 DEF ObjInv, HeldOk, PlaceOk, Stays
<1>5. ASSUME NEW r \in DOMAIN runs, runs[r].config # c PROVE ~Reaches(r)
  <2>1. PICK d \in DOMAIN configs : d = runs[r].config /\ d = runs'[r].config
    BY <1>3 DEF ObjInv, RunsOk, RunsKeep
  <2>2. configs'[d] = configs[d]
    BY <1>5, <2>1
  <2>3. Contents(d)' = Contents(d)
    BY <2>2, SameContents
  <2>4. Contents(runs[r].config) = Contents(d)
    BY <2>1
  <2>5. Contents(runs[r].config)' = Contents(d)'
    BY <2>1 DEF Contents, Read, ItemsOf
  <2> QED
    BY <2>3, <2>4, <2>5 DEF Reaches
<1>6. AllowedReach
  BY <1>5 DEF AllowedReach
<1> QED
  BY <1>2, <1>3, <1>4, <1>6 DEF ObjInv, StepIsSafe

LEMMA EditFieldStep ==
  ASSUME ObjInv, NEW p \in Pages, NEW s \in Edited, EditField(p, s) PROVE StepIsSafe
<1>1. PICK v : configs' = [configs EXCEPT ![page[p].config][s].value = v]
  BY DEF EditField
<1> DEFINE config == [configs[page[p].config] EXCEPT ![s].value = v]
<1>2. page[p].config # 0 /\ UNCHANGED <<held, runs>>
  BY DEF EditField
<1>3. page[p].config \in DOMAIN configs
  BY <1>2 DEF ObjInv, PlaceOk
<1>4. RefsOk(config, DOMAIN held)
  BY <1>3, FieldRefs DEF ObjInv, ConfigsOk
<1>5. Stays
  <2>1. \E x : page' = [page EXCEPT ![p].review = x]
    BY DEF EditField
  <2> QED
    BY <1>2, <2>1, StaysIf DEF ObjInv
<1>6. Edit(p)
  BY DEF Edit
<1>7. configs' = [configs EXCEPT ![page[p].config] = config]
  BY <1>1
<1> HIDE DEF config
<1> QED
  BY <1>2, <1>4, <1>5, <1>6, <1>7, OwnWrite

LEMMA DrawStep ==
  ASSUME ObjInv, NEW p \in Pages, Draw(p) PROVE StepIsSafe
<1>1. PICK advanced \in Advanced :
        /\ configs' = [configs EXCEPT ![page[p].config] = Filled(p, advanced)]
        /\ \E x : page' = [page EXCEPT ![p].review = x]
  BY DEF Draw
<1>2. page[p].config # 0 /\ UNCHANGED <<held, runs>>
  BY DEF Draw
<1>3. RefsOk(Filled(p, advanced), DOMAIN held)
  BY <1>2, FilledRefs DEF ObjInv, PlaceOk
<1>4. Stays
  BY <1>1, <1>2, StaysIf DEF ObjInv
<1> QED
  BY <1>1, <1>2, <1>3, <1>4, OwnWrite

LEMMA LaunchKeeps ==
  ASSUME ObjInv, NEW p \in Pages, Launch(p) PROVE StepIsSafe
<1>1. PICK advanced \in Advanced :
        configs' = [configs EXCEPT ![page[p].config] = Filled(p, advanced)]
  BY DEF Launch
<1>2. page[p].config # 0 /\ UNCHANGED held
  BY DEF Launch, ObjInv, PageOk
<1>3. RefsOk(Filled(p, advanced), DOMAIN held)
  BY <1>2, FilledRefs DEF ObjInv, PlaceOk
<1>4. Stays
  <2>1. page' = [page EXCEPT ![p].review = "stale"]
    BY DEF Launch
  <2> QED
    BY <2>1, StaysIf DEF ObjInv
<1>5. \E by, parts : runs' = Append(runs, NewRun(by, page[p].config, parts))
  BY DEF Launch
<1> QED
  BY <1>1, <1>2, <1>3, <1>4, <1>5, OwnWrite

LEMMA EditListStep ==
  ASSUME ObjInv, NEW p \in Pages, NEW s \in Edited, EditList(p, s) PROVE StepIsSafe
<1> DEFINE c == page[p].config
           ref == configs[c][s].list
<1>1. PICK items : SetItems(c, s, items)
  BY DEF EditList
<1>2. c # 0 /\ s \in Listed /\ UNCHANGED runs
  BY DEF EditList
<1>3. c \in DOMAIN configs
  BY <1>2 DEF ObjInv, PlaceOk
<1>4. /\ ConfigsOk' /\ HeldOk' /\ DOMAIN configs' = DOMAIN configs
      /\ \A d \in DOMAIN configs : d # c => configs'[d] = configs[d]
  BY <1>1, <1>2, <1>3, ItemsRefs
<1>5. Stays
  <2>1. \E x : page' = [page EXCEPT ![p].review = x]
    BY DEF EditList
  <2> QED
    BY <1>2, <2>1, StaysIf DEF ObjInv
<1>6. RunsOk' /\ RunsKeep
  BY <1>2, <1>4, RunsSame DEF ObjInv
<1>7. PageOk' /\ PlaceOk'
  BY <1>4, <1>5 DEF ObjInv, PlaceOk, Stays
<1>8. Edit(p)
  BY DEF Edit
<1>9. ASSUME NEW r \in DOMAIN runs, Reaches(r), runs[r].config # c,
             s \in DOMAIN configs[runs[r].config] => configs[runs[r].config][s].list.of # ref.of
      PROVE  FALSE
  <2>1. PICK d \in DOMAIN configs : d = runs[r].config /\ d = runs'[r].config
    BY <1>6 DEF ObjInv, RunsOk, RunsKeep
  <2>2. configs'[d] = configs[d]
    BY <1>4, <1>9, <2>1
  <2>3. Contents(d)' = Contents(d)
    <3>1. CASE ref.of = "own"
      <4>1. UNCHANGED held
        BY <1>1, <3>1 DEF SetItems
      <4> QED
        BY <2>2, <4>1, SameContents
    <3>2. CASE ref.of # "own"
      <4>1. held' = [held EXCEPT ![ref.of][s] = items] /\ UNCHANGED configs
        BY <1>1, <3>2 DEF SetItems
      <4>2. s \in DOMAIN configs[d] => configs[d][s].list.of # ref.of
        BY <1>9, <2>1
      <4> DEFINE id == ref.of
      <4>3. held' = [held EXCEPT ![id][s] = items]
        BY <4>1
      <4>4. s \in DOMAIN configs[d] => configs[d][s].list.of # id
        BY <4>2
      <4> HIDE DEF id
      <4> QED
        BY <1>2, <4>1, <4>3, <4>4, OtherList
    <3> QED
      BY <3>1, <3>2
  <2>4. Contents(runs[r].config) = Contents(d)
    BY <2>1
  <2>5. Contents(runs[r].config)' = Contents(d)'
    BY <2>1 DEF Contents, Read, ItemsOf
  <2> QED
    BY <1>9, <2>3, <2>4, <2>5 DEF Reaches
<1>10. AllowedReach
  <2> SUFFICES ASSUME NEW r \in DOMAIN runs, Reaches(r), runs[r].config # c
               PROVE  \E x \in Listed \cap DOMAIN configs[runs[r].config] :
                        configs[runs[r].config][x].list.of = configs[c][x].list.of
    BY <1>8, Zenon DEF AllowedReach
  <2>1. s \in DOMAIN configs[runs[r].config] /\ configs[runs[r].config][s].list.of = ref.of
    BY <1>9
  <2> QED
    BY <1>2, <2>1
<1> QED
  BY <1>4, <1>6, <1>7, <1>10 DEF ObjInv, StepIsSafe

LEMMA FileStep ==
  ASSUME ObjInv, NEW command, RunFromFile(command) PROVE StepIsSafe
<1>1. PICK raw : configs' = Append(configs,
        [s \in DOMAIN raw |-> [k \in DOMAIN raw[s] |->
           IF k = "list" THEN Own(raw[s].list) ELSE raw[s].value]])
  BY DEF RunFromFile
<1> DEFINE config == [s \in DOMAIN raw |-> [k \in DOMAIN raw[s] |->
              IF k = "list" THEN Own(raw[s].list) ELSE raw[s].value]]
<1>2. RefsOk(config, DOMAIN held)
  BY DEF RefsOk, Own
<1> HIDE DEF config
<1>3. UNCHANGED <<held, page>>
  BY DEF RunFromFile
<1>4. /\ ConfigsOk' /\ DOMAIN configs \subseteq DOMAIN configs'
      /\ Len(configs) + 1 \in DOMAIN configs'
      /\ \A c \in DOMAIN configs : configs'[c] = configs[c]
  BY <1>1, <1>2, <1>3, ObjAdd DEF ObjInv, config
<1>5. RunsOk' /\ RunsKeep
  BY <1>4, RunAdded DEF ObjInv, RunFromFile
<1>6. HeldOk' /\ PageOk' /\ PlaceOk'
  BY <1>3, <1>4 DEF ObjInv, HeldOk, PageOk, PlaceOk
<1>7. \A r \in DOMAIN runs : ~Reaches(r)
  BY <1>3, <1>4, <1>5, NotReached
<1> QED
  BY <1>4, <1>5, <1>6, <1>7 DEF ObjInv, StepIsSafe, AllowedReach

LEMMA RunStep ==
  ASSUME ObjInv, NEW r \in DOMAIN runs,
         WriteResolved(r) \/ BuildTarget(r) \/ RunSuite(r) \/ Finish(r)
  PROVE  StepIsSafe
<1>1. RunsOk' /\ RunsKeep /\ UNCHANGED <<held, configs, page>>
  BY RunSteps
<1>2. Stays
  BY <1>1 DEF ObjInv, PageOk, Stays
<1> QED
  BY <1>1, <1>2, QuietStep

LEMMA NextStep == ObjInv /\ Next => StepIsSafe
<1> SUFFICES ASSUME ObjInv, Next PROVE StepIsSafe
  OBVIOUS
<1>1. ASSUME NEW p \in Pages,
             Open(p) \/ ChooseSuite(p) \/ (\E id \in Offered : LoadPreset(p, id))
               \/ (\E f \in Named : Save(p, f) \/ SaveFails(p, f))
      PROVE  StepIsSafe
  BY <1>1, OpenStep, QuietPageStep
<1>2. ASSUME NEW p \in Pages, Edit(p) \/ Draw(p) \/ Launch(p) PROVE StepIsSafe
  BY <1>2, EditFieldStep, EditListStep, DrawStep, LaunchKeeps DEF Edit
<1>3. ASSUME NEW command, RunFromFile(command) PROVE StepIsSafe
  BY <1>3, FileStep
<1>4. ASSUME NEW r \in DOMAIN runs,
             WriteResolved(r) \/ BuildTarget(r) \/ RunSuite(r) \/ Finish(r)
      PROVE  StepIsSafe
  BY <1>4, RunStep
<1> QED
  BY <1>1, <1>2, <1>3, <1>4 DEF Next

LEMMA Stutter == ObjInv /\ UNCHANGED vars => ObjInv'
  BY DEF ObjInv, ConfigsOk, RunsOk, PageOk, PlaceOk, HeldOk, vars

-----------------------------------------------------------------------------
(* What passed validation.  A page's configuration has every section and   *)
(* is no other page's, so that what a review found of it stays so until    *)
(* the page itself changes it, but for the lists that presets hold.        *)

Whole(config) ==
  \A s \in Sections : /\ s \in DOMAIN config /\ "value" \in DOMAIN config[s]
                      /\ s \in Listed => "list" \in DOMAIN config[s]

Fits(c, s) ==
  /\ configs[c][s].value # "wrong"
  /\ SectionErrors(s, Contents(c)[s]) => Shared(c, s)

PageWhole(p) == page[p].config # 0 => Whole(configs[page[p].config])

PagePassed(p) ==
  page[p].review = "ok" => \A s \in Relevant(page[p].suite) : Fits(page[p].config, s)

ApartOk ==
  \A p, q \in Pages : p # q /\ page[p].config = page[q].config => page[p].config = 0

PassedInv ==
  /\ \A p \in Pages : PageWhole(p) /\ PagePassed(p)
  /\ ApartOk

LEMMA SectionNames ==
  Sections = {"target", "firmware", "tinyml", "memory", "sensor_fusion", "hil", "rt_perf",
              "reporting"}
  BY DEF Sections, SCHEMA

LEMMA RelevantSections ==
  ASSUME NEW parts PROVE Relevant(parts) \subseteq Sections
  BY SectionNames DEF Relevant

LEMMA BuildWhole ==
  ASSUME NEW id PROVE Whole(build(id))
<1> SUFFICES ASSUME NEW s \in Sections
             PROVE  /\ s \in DOMAIN build(id) /\ "value" \in DOMAIN build(id)[s]
                    /\ s \in Listed => "list" \in DOMAIN build(id)[s]
  BY DEF Whole
<1>1. /\ s \in DOMAIN default_config /\ "value" \in DOMAIN default_config[s]
      /\ s \in Listed => "list" \in DOMAIN default_config[s]
  BY DEF default_config, Listed
<1>2. s \in DOMAIN build(id)
  BY <1>1 DEF build, deep_merge, Over
<1>3. DOMAIN default_config[s] \subseteq DOMAIN build(id)[s]
  <2>1. CASE s \in DOMAIN Overlay(id)
    BY <1>1, <2>1 DEF build, deep_merge, Over
  <2>2. CASE s \notin DOMAIN Overlay(id)
    BY <1>1, <2>2 DEF build, deep_merge, Over
  <2> QED
    BY <2>1, <2>2
<1> QED
  BY <1>1, <1>2, <1>3

\* A step of which a page's mission knows nothing, but that it may forget that
\* it was reviewed.
Still(p) ==
  /\ page'[p].config = page[p].config
  /\ page[p].config # 0 => configs'[page[p].config] = configs[page[p].config]
  /\ page'[p].review = "ok" => page[p].review = "ok" /\ page'[p].suite = page[p].suite

LEMMA StillFits ==
  ASSUME ObjInv, PassedInv, NEW p \in Pages, Still(p)
  PROVE  PageWhole(p)' /\ PagePassed(p)'
<1>1. PageWhole(p)'
  BY DEF PassedInv, PageWhole, Still
<1>2. ASSUME page'[p].review = "ok", NEW s \in Relevant(page[p].suite)
      PROVE  Fits(page[p].config, s)'
  <2> DEFINE c == page[p].config
             d == configs[c]
  <2>1. page[p].review = "ok" /\ c # 0 /\ c \in DOMAIN configs
    BY <1>2 DEF Still, ObjInv, PageOk, PlaceOk
  <2>2. configs'[c] = d /\ page'[p].config = c
    BY <2>1 DEF Still
  <2>3. Fits(c, s)
    BY <1>2, <2>1 DEF PassedInv, PagePassed
  <2>4. s \in DOMAIN d
    BY <2>1, RelevantSections DEF PassedInv, PageWhole, Whole
  <2>5. CASE Shared(c, s)
    BY <2>2, <2>3, <2>5 DEF Fits, Shared
  <2>6. CASE ~Shared(c, s)
    <3>1. "list" \in DOMAIN d[s] => d[s].list.of = "own"
      BY <2>1, <2>4, <2>6 DEF ObjInv, ConfigsOk, RefsOk, Shared
    <3> DEFINE body == [k \in DOMAIN d[s] |-> IF k = "list" THEN d[s].list.items ELSE d[s].value]
    <3>2. Contents(c)[s] = body
      BY <2>4, <3>1 DEF Contents, Read, ItemsOf
    <3>3. Contents(page[p].config)'[s] = body
      BY <2>2, <2>4, <3>1 DEF Contents, Read, ItemsOf
    <3>4. ~SectionErrors(s, body)
      BY <2>3, <2>6, <3>2 DEF Fits
    <3> HIDE DEF body
    <3> QED
      BY <2>2, <2>3, <3>3, <3>4 DEF Fits
  <2> QED
    BY <2>5, <2>6
<1>3. PagePassed(p)'
  BY <1>2 DEF Still, PagePassed
<1> QED
  BY <1>1, <1>3

LEMMA AllStill ==
  ASSUME ObjInv, PassedInv, \A p \in Pages : Still(p) PROVE PassedInv'
<1>1. \A p \in Pages : PageWhole(p)' /\ PagePassed(p)'
  BY StillFits
<1>2. ApartOk'
  BY DEF PassedInv, ApartOk, Still
<1> QED
  BY <1>1, <1>2 DEF PassedInv

LEMMA OnePage ==
  ASSUME ObjInv, PassedInv, NEW q \in Pages, \A p \in Pages : p # q => Still(p),
         PageWhole(q)', PagePassed(q)',
         \/ page'[q].config = page[q].config
         \/ page'[q].config # 0 /\ page'[q].config \notin DOMAIN configs
  PROVE  PassedInv'
<1>1. \A p \in Pages : PageWhole(p)' /\ PagePassed(p)'
  BY StillFits
<1>2. \A p \in Pages : p # q =>
        /\ page'[p].config = page[p].config
        /\ page[p].config = 0 \/ page[p].config \in DOMAIN configs
  BY DEF Still, ObjInv, PlaceOk
<1>3. ApartOk'
  BY <1>2 DEF PassedInv, ApartOk
<1> QED
  BY <1>1, <1>3 DEF PassedInv

\* The page that acts writes to its own configuration only.
LEMMA OthersStill ==
  ASSUME ObjInv, PassedInv, NEW q \in Pages, page[q].config # 0,
         \A p \in Pages : p # q => page'[p] = page[p],
         \A c \in DOMAIN configs : c # page[q].config => configs'[c] = configs[c],
         NEW p \in Pages, p # q
  PROVE  Still(p)
<1>1. page[p].config # page[q].config
  BY DEF PassedInv, ApartOk
<1>2. page[p].config = 0 \/ page[p].config \in DOMAIN configs
  BY DEF ObjInv, PlaceOk
<1> QED
  BY <1>1, <1>2 DEF Still

LEMMA ChangedIsNot == \A review : Changed(review) # "ok"
  BY DEF Changed

LEMMA PassedInit == Init => PassedInv
  BY DEF Init, NoPage, PassedInv, PageWhole, PagePassed, ApartOk

LEMMA PassedOpen ==
  ASSUME ObjInv, PassedInv, NEW q \in Pages, Open(q) \/ \E id \in Offered : LoadPreset(q, id)
  PROVE  PassedInv'
<1> DEFINE n == Len(configs) + 1
<1>1. PICK id : configs' = Append(configs, build(id))
  BY DEF Open, LoadPreset
<1>2. IsList(configs) /\ Len(configs) \in Nat /\ DOMAIN configs = 1..Len(configs)
  BY ListDomain DEF ObjInv, ConfigsOk
<1>3. configs'[n] = build(id) /\ \A c \in DOMAIN configs : configs'[c] = configs[c]
  BY <1>1, <1>2, AppendList
<1>4. n # 0 /\ n \notin DOMAIN configs
  BY <1>2
<1> HIDE DEF n
<1>5. /\ \A p \in Pages : p # q => page'[p] = page[p]
      /\ page'[q].config = n /\ page'[q].review # "ok"
  <2>1. CASE Open(q)
    <3>1. page[q].config = 0 /\ page' = [page EXCEPT ![q].config = n]
      BY <2>1 DEF Open, n
    <3> QED
      BY <3>1 DEF ObjInv, PageOk
  <2>2. ASSUME NEW i \in Offered, LoadPreset(q, i)
        PROVE  \E y : /\ y # "ok"
                      /\ page' = [page EXCEPT ![q].config = n, ![q].suite = PRESETS[i].suite,
                                              ![q].review = y]
    BY <2>2, ChangedIsNot DEF LoadPreset, n
  <2> QED
    BY <2>1, <2>2 DEF ObjInv, PageOk
<1>6. ASSUME NEW p \in Pages, p # q PROVE Still(p)
  BY <1>3, <1>5, <1>6 DEF Still, ObjInv, PlaceOk
<1>7. PageWhole(q)' /\ PagePassed(q)'
  BY <1>3, <1>5, BuildWhole DEF PageWhole, PagePassed
<1> QED
  BY <1>4, <1>5, <1>6, <1>7, OnePage

LEMMA PassedQuiet ==
  ASSUME ObjInv, PassedInv, NEW q \in Pages,
         ChooseSuite(q) \/ \E f \in Named : Save(q, f) \/ SaveFails(q, f)
  PROVE  PassedInv'
<1>1. \/ \E x, y : y # "ok" /\ page' = [page EXCEPT ![q].suite = x, ![q].review = y]
      \/ \E f : page' = [page EXCEPT ![q].saved = f]
      \/ UNCHANGED page
  BY ChangedIsNot DEF ChooseSuite, Save, SaveFails
<1>2. UNCHANGED configs /\ PageOk
  BY DEF ChooseSuite, Save, SaveFails, ObjInv
<1>3. ASSUME NEW p \in Pages
      PROVE  /\ page'[p].config = page[p].config
             /\ page'[p].review = "ok" => page[p].review = "ok" /\ page'[p].suite = page[p].suite
  <2>1. CASE \E x, y : y # "ok" /\ page' = [page EXCEPT ![q].suite = x, ![q].review = y]
    BY <1>2, <2>1 DEF PageOk
  <2>2. CASE \E f : page' = [page EXCEPT ![q].saved = f]
    BY <1>2, <2>2 DEF PageOk
  <2> QED
    BY <1>1, <2>1, <2>2
<1>4. \A p \in Pages : Still(p)
  BY <1>2, <1>3 DEF Still
<1> QED
  BY <1>4, AllStill

\* A section and its value stay where they are.
LEMMA WholeStays ==
  ASSUME NEW config, NEW new, Whole(config), DOMAIN new = DOMAIN config,
         \A s \in DOMAIN config : DOMAIN new[s] = DOMAIN config[s]
  PROVE  Whole(new)
  BY DEF Whole

LEMMA PassedField ==
  ASSUME ObjInv, PassedInv, NEW q \in Pages, NEW s \in Edited, EditField(q, s)
  PROVE  PassedInv'
<1> DEFINE c == page[q].config
<1>1. c # 0 /\ \E y : y # "ok" /\ page' = [page EXCEPT ![q].review = y]
  BY ChangedIsNot DEF EditField
<1>2. PICK v : configs' = [configs EXCEPT ![c][s].value = v]
  BY DEF EditField
<1>3. c \in DOMAIN configs
  BY <1>1 DEF ObjInv, PlaceOk
<1>4. /\ DOMAIN configs'[c] = DOMAIN configs[c]
      /\ \A x \in DOMAIN configs[c] : DOMAIN configs'[c][x] = DOMAIN configs[c][x]
  BY <1>2, <1>3
<1>5. page'[q].config = c /\ page'[q].review # "ok"
  BY <1>1 DEF ObjInv, PageOk
<1>6. PageWhole(q)' /\ PagePassed(q)'
  BY <1>1, <1>4, <1>5, WholeStays DEF PassedInv, PageWhole, PagePassed
<1>7. \A p \in Pages : p # q => Still(p)
  BY <1>1, <1>2, OthersStill DEF ObjInv, PageOk
<1> QED
  BY <1>5, <1>6, <1>7, OnePage

LEMMA PassedList ==
  ASSUME ObjInv, PassedInv, NEW q \in Pages, NEW s \in Edited, EditList(q, s)
  PROVE  PassedInv'
<1> DEFINE c == page[q].config
<1>1. c # 0 /\ \E y : y # "ok" /\ page' = [page EXCEPT ![q].review = y]
  BY ChangedIsNot DEF EditList
<1>2. PICK items : SetItems(c, s, items)
  BY DEF EditList
<1>3. c \in DOMAIN configs
  BY <1>1 DEF ObjInv, PlaceOk
<1>4. UNCHANGED configs \/ configs' = [configs EXCEPT ![c][s].list = Own(items)]
  BY <1>2 DEF SetItems
<1>5. /\ DOMAIN configs'[c] = DOMAIN configs[c]
      /\ \A x \in DOMAIN configs[c] : DOMAIN configs'[c][x] = DOMAIN configs[c][x]
  BY <1>3, <1>4
<1>6. page'[q].config = c /\ page'[q].review # "ok"
  BY <1>1 DEF ObjInv, PageOk
<1>7. PageWhole(q)' /\ PagePassed(q)'
  BY <1>1, <1>5, <1>6, WholeStays DEF PassedInv, PageWhole, PagePassed
<1>8. \A p \in Pages : p # q => Still(p)
  BY <1>1, <1>4, OthersStill DEF ObjInv, PageOk
<1> QED
  BY <1>6, <1>7, <1>8, OnePage

\* What validation lets pass.
LEMMA ReviewFits ==
  ASSUME NEW config, Whole(config), NEW parts, validate_for_suite(Read(config), parts) = {},
         NEW s \in Relevant(parts)
  PROVE  config[s].value # "wrong" /\ ~SectionErrors(s, Read(config)[s])
<1>1. s \in DOMAIN config /\ "value" \in DOMAIN config[s]
  BY RelevantSections DEF Whole
<1>2. DOMAIN Read(config) = DOMAIN config
  BY DEF Read
<1>3. ~SectionErrors(s, Read(config)[s])
  BY <1>1, <1>2 DEF validate_for_suite, validate_config
<1>4. "value" \in DOMAIN Read(config)[s] /\ Read(config)[s].value = config[s].value
  BY <1>1 DEF Read
<1> QED
  BY <1>3, <1>4 DEF SectionErrors

LEMMA PassedDraw ==
  ASSUME ObjInv, PassedInv, NEW q \in Pages, Draw(q) PROVE PassedInv'
<1> DEFINE c == page[q].config
<1>1. PICK advanced \in Advanced :
        LET errors == validate_for_suite(Read(Filled(q, advanced)), page[q].suite)
        IN  /\ configs' = [configs EXCEPT ![c] = Filled(q, advanced)]
            /\ page' = [page EXCEPT ![q].review = IF errors = {} THEN "ok" ELSE "errors"]
  BY DEF Draw
<1> DEFINE new == Filled(q, advanced)
<1>2. c # 0 /\ c \in DOMAIN configs /\ UNCHANGED held
  BY DEF Draw, ObjInv, PlaceOk
<1>3. /\ DOMAIN new = DOMAIN configs[c]
      /\ \A s \in DOMAIN configs[c] : DOMAIN new[s] = DOMAIN configs[c][s]
  BY DEF Filled
<1>4. configs'[c] = new /\ \A d \in DOMAIN configs : d # c => configs'[d] = configs[d]
  BY <1>1, <1>2
<1>5. /\ page'[q].config = c /\ page'[q].suite = page[q].suite
      /\ page'[q].review = "ok" => validate_for_suite(Read(new), page[q].suite) = {}
      /\ \A p \in Pages : p # q => page'[p] = page[p]
  BY <1>1 DEF ObjInv, PageOk
<1> HIDE DEF new
<1>6. Whole(new)
  BY <1>2, <1>3, WholeStays DEF PassedInv, PageWhole
<1>7. Contents(c)' = Read(new)
  <2>1. (configs[c])' = new
    BY <1>4, <1>5
  <2> QED
    BY <1>2, <2>1 DEF Contents, Read, ItemsOf
<1>8. ASSUME page'[q].review = "ok", NEW s \in Relevant(page[q].suite) PROVE Fits(c, s)'
  <2>1. new[s].value # "wrong" /\ ~SectionErrors(s, Read(new)[s])
    BY <1>5, <1>6, <1>8, ReviewFits
  <2>2. (configs[c])' = new
    BY <1>4, <1>5
  <2> QED
    BY <1>4, <1>5, <1>7, <2>1 DEF Fits
<1>9. PageWhole(q)' /\ PagePassed(q)'
  BY <1>4, <1>5, <1>6, <1>8 DEF PageWhole, PagePassed
<1>10. \A p \in Pages : p # q => Still(p)
  BY <1>2, <1>4, <1>5, OthersStill
<1> QED
  BY <1>5, <1>9, <1>10, OnePage

LEMMA PassedLaunch ==
  ASSUME ObjInv, PassedInv, NEW q \in Pages, Launch(q) PROVE PassedInv'
<1> DEFINE c == page[q].config
<1>1. PICK advanced \in Advanced : configs' = [configs EXCEPT ![c] = Filled(q, advanced)]
  BY DEF Launch
<1>2. c # 0 /\ c \in DOMAIN configs /\ page' = [page EXCEPT ![q].review = "stale"]
  BY DEF Launch, ObjInv, PageOk, PlaceOk
<1>3. /\ DOMAIN configs'[c] = DOMAIN configs[c]
      /\ \A x \in DOMAIN configs[c] : DOMAIN configs'[c][x] = DOMAIN configs[c][x]
  BY <1>1, <1>2 DEF Filled
<1>4. page'[q].config = c /\ page'[q].review # "ok"
  BY <1>2 DEF ObjInv, PageOk
<1>5. PageWhole(q)' /\ PagePassed(q)'
  BY <1>2, <1>3, <1>4, WholeStays DEF PassedInv, PageWhole, PagePassed
<1>6. \A p \in Pages : p # q => Still(p)
  BY <1>1, <1>2, OthersStill DEF ObjInv, PageOk
<1> QED
  BY <1>4, <1>5, <1>6, OnePage

LEMMA PassedElsewhere ==
  ASSUME ObjInv, PassedInv, UNCHANGED page,
         \A c \in DOMAIN configs : configs'[c] = configs[c]
  PROVE  PassedInv'
<1>1. \A p \in Pages : Still(p)
  BY DEF Still, ObjInv, PlaceOk
<1> QED
  BY <1>1, AllStill

LEMMA PassedFile ==
  ASSUME ObjInv, PassedInv, NEW command, RunFromFile(command) PROVE PassedInv'
<1>1. UNCHANGED page /\ \E config : configs' = Append(configs, config)
  BY DEF RunFromFile
<1>2. IsList(configs)
  BY DEF ObjInv, ConfigsOk
<1>3. \A c \in DOMAIN configs : configs'[c] = configs[c]
  BY <1>1, <1>2, AppendList
<1> QED
  BY <1>1, <1>3, PassedElsewhere

LEMMA PassedStep == ObjInv /\ PassedInv /\ Next => PassedInv'
<1> SUFFICES ASSUME ObjInv, PassedInv, Next PROVE PassedInv'
  OBVIOUS
<1>1. ASSUME NEW p \in Pages,
             Open(p) \/ ChooseSuite(p) \/ (\E id \in Offered : LoadPreset(p, id))
               \/ (\E f \in Named : Save(p, f) \/ SaveFails(p, f))
      PROVE  PassedInv'
  BY <1>1, PassedOpen, PassedQuiet
<1>2. ASSUME NEW p \in Pages, Edit(p) \/ Draw(p) \/ Launch(p) PROVE PassedInv'
  BY <1>2, PassedField, PassedList, PassedDraw, PassedLaunch DEF Edit
<1>3. ASSUME NEW command, RunFromFile(command) PROVE PassedInv'
  BY <1>3, PassedFile
<1>4. ASSUME NEW r \in DOMAIN runs,
             WriteResolved(r) \/ BuildTarget(r) \/ RunSuite(r) \/ Finish(r)
      PROVE  PassedInv'
  BY <1>4, RunSteps, PassedElsewhere
<1> QED
  BY <1>1, <1>2, <1>3, <1>4 DEF Next

-----------------------------------------------------------------------------
(* The launch.                                                             *)

LEMMA SuiteTable ==
  /\ BUILTIN_SUITES \in Seq(Suites) /\ Len(BUILTIN_SUITES) = 6
  /\ \A n \in 1..6 : BUILTIN_SUITES[n] \in Suites
  BY DEF BUILTIN_SUITES, Suites, Range

\* What runs is what was selected.
LEMMA SelectedSuites ==
  ASSUME NEW parts, NEW x \in Range(selected_suites(parts))
  PROVE  x \in Suites /\ selection_includes(parts, x)
<1> DEFINE add(s, n) == IF selection_includes(parts, BUILTIN_SUITES[n])
                        THEN Append(s, BUILTIN_SUITES[n]) ELSE s
           S == {y \in Suites : selection_includes(parts, y)}
           Upto(f) == f = [n \in 0..6 |-> IF n = 0 THEN <<>> ELSE add(f[n - 1], n)]
           upto == CHOOSE f : Upto(f)
<1>1. \A n \in 1..6 : \A s \in Seq(S) : add(s, n) \in Seq(S)
  BY SuiteTable
<1>2. selected_suites(parts) = upto[6]
  BY SuiteTable DEF selected_suites
<1> HIDE DEF add, S
<1>3. \E f : Upto(f)
  <2> DEFINE a1 == add(<<>>, 1)
             a2 == add(a1, 2)
             a3 == add(a2, 3)
             a4 == add(a3, 4)
             a5 == add(a4, 5)
             a6 == add(a5, 6)
             f == [n \in 0..6 |-> IF n = 0 THEN <<>> ELSE IF n = 1 THEN a1 ELSE IF n = 2 THEN a2
                                  ELSE IF n = 3 THEN a3 ELSE IF n = 4 THEN a4
                                  ELSE IF n = 5 THEN a5 ELSE a6]
  <2>1. /\ f[0] = <<>> /\ f[1] = add(f[0], 1) /\ f[2] = add(f[1], 2) /\ f[3] = add(f[2], 3)
        /\ f[4] = add(f[3], 4) /\ f[5] = add(f[4], 5) /\ f[6] = add(f[5], 6)
    OBVIOUS
  <2>2. f = [n \in 0..6 |-> f[n]]
    OBVIOUS
  <2> HIDE DEF f
  <2>3. \A n \in 0..6 : f[n] = IF n = 0 THEN <<>> ELSE add(f[n - 1], n)
    <3>1. \A n \in 0..6 : n = 0 \/ n = 1 \/ n = 2 \/ n = 3 \/ n = 4 \/ n = 5 \/ n = 6
      OBVIOUS
    <3> QED
      BY <2>1, <3>1
  <2>4. Upto(f)
    BY <2>2, <2>3
  <2> QED
    BY <2>4
<1>4. Upto(upto)
  BY <1>3
<1> HIDE DEF upto
<1>5. \A n \in 0..6 : upto[n] = IF n = 0 THEN <<>> ELSE add(upto[n - 1], n)
  BY <1>4
<1>6. upto[0] \in Seq(S)
  <2>1. 0 \in 0..6 /\ <<>> \in Seq(S)
    BY EmptySeq
  <2> QED
    BY <1>5, <2>1
<1>7. \A n \in 1..6 : upto[n - 1] \in Seq(S) => upto[n] \in Seq(S)
  BY <1>1, <1>5
<1>8. upto[6] \in Seq(S)
  BY <1>6, <1>7
<1>9. x \in S
  BY <1>2, <1>8 DEF Range
<1> QED
  BY <1>9 DEF S

\* Validation is asked about every section that the run will subscript.
LEMMA SuiteSection ==
  ASSUME NEW x \in Suites
  PROVE  SUITE_CONFIG_SECTION[x] \in Sections /\ SCHEMA[SUITE_CONFIG_SECTION[x]].suite = x
<1>1. Suites = {"firmware", "tinyml", "fusion", "hil", "memory", "rt"}
  BY DEF Suites, BUILTIN_SUITES, Range
<1> QED
  BY <1>1, SectionNames
     DEF SUITE_CONFIG_SECTION, SCHEMA, FIRMWARE_SECTION, TINYML_SECTION, FUSION_SECTION,
         HIL_SECTION, MEMORY_SECTION, RT_SECTION

LEMMA SelectedIsRelevant ==
  ASSUME NEW parts, NEW x \in Range(selected_suites(parts))
  PROVE  SUITE_CONFIG_SECTION[x] \in Relevant(parts)
<1>1. x \in Suites /\ selection_includes(parts, x)
  BY SelectedSuites
<1>2. SUITE_CONFIG_SECTION[x] \in Sections /\ SCHEMA[SUITE_CONFIG_SECTION[x]].suite = x
  BY <1>1, SuiteSection
<1> QED
  BY <1>1, <1>2 DEF selection_includes, Relevant

LaunchFits(p) ==
  LaunchedBy(p) /\ page[p].review = "ok" => Runnable(page[p].config, page[p].suite)'

\* The fields that a pass fills in have no errors, and the lists stay.
LEMMA FilledFits ==
  ASSUME ObjInv, PassedInv, NEW q \in Pages, page[q].config # 0, NEW advanced,
         configs' = [configs EXCEPT ![page[q].config] = Filled(q, advanced)], UNCHANGED held,
         page'[q].config = page[q].config,
         NEW s \in Sections, Fits(page[q].config, s)
  PROVE  s \in DOMAIN configs'[page[q].config] /\ Fits(page[q].config, s)'
<1> DEFINE c == page[q].config
           old == configs[c]
           new == Filled(q, advanced)
<1>1. c \in DOMAIN configs /\ s \in DOMAIN old /\ "value" \in DOMAIN old[s]
  BY DEF ObjInv, PlaceOk, PassedInv, PageWhole, Whole
<1>2. configs'[c] = new /\ page'[q].config = c
  BY <1>1
<1>3. /\ DOMAIN new = DOMAIN old
      /\ new[s] = old[s] \/ new[s] = [old[s] EXCEPT !.value = "filled"]
  BY <1>1 DEF Filled
<1> HIDE DEF new
<1>4. /\ DOMAIN new[s] = DOMAIN old[s] /\ new[s].value # "wrong"
      /\ "list" \in DOMAIN old[s] => new[s].list = old[s].list
  BY <1>1, <1>3 DEF Fits
<1>5. s \in Listed => "list" \in DOMAIN old[s]
  BY DEF PassedInv, PageWhole, Whole
<1>6. Shared(c, s)' <=> Shared(c, s)
  BY <1>2, <1>4, <1>5 DEF Shared
<1>7. /\ DOMAIN Contents(c)[s] = DOMAIN old[s]
      /\ DOMAIN Contents(c)'[s] = DOMAIN old[s]
      /\ "value" \in DOMAIN old[s] => Contents(c)'[s].value = new[s].value
      /\ "list" \in DOMAIN old[s] => Contents(c)'[s].list = Contents(c)[s].list
  BY <1>1, <1>2, <1>3, <1>4 DEF Contents, Read, ItemsOf
<1>8. SectionErrors(s, Contents(c)'[s]) => SectionErrors(s, Contents(c)[s])
  BY <1>4, <1>7 DEF SectionErrors
<1> QED
  BY <1>1, <1>2, <1>3, <1>4, <1>6, <1>8 DEF Fits

LEMMA LaunchStep ==
  ASSUME ObjInv, PassedInv, NEW q \in Pages, Launch(q), NEW p \in Pages PROVE LaunchFits(p)
<1> DEFINE run == NewRun(q, page[q].config, page[q].suite)
<1>1. /\ runs' = Append(runs, run) /\ UNCHANGED held
      /\ page' = [page EXCEPT ![q].review = "stale"]
  BY DEF Launch
<1>2. run.by = q
  BY DEF NewRun
<1> HIDE DEF run
<1>3. runs'[Len(runs')] = run
  <2>1. IsList(runs)
    BY DEF ObjInv, RunsOk
  <2>2. /\ Len(Append(runs, run)) = Len(runs) + 1
        /\ Append(runs, run)[Len(runs) + 1] = run
    BY <2>1, AppendList
  <2> QED
    BY <1>1, <2>2
<1>4. /\ page[q].config # 0
      /\ page'[q].config = page[q].config /\ page'[q].suite = page[q].suite
  BY <1>1 DEF Launch, ObjInv, PageOk
<1>5. PICK advanced : configs' = [configs EXCEPT ![page[q].config] = Filled(q, advanced)]
  BY DEF Launch
<1> DEFINE parts == page[q].suite
<1>6. ASSUME page[q].review = "ok",
             NEW s \in {"target"} \cup {SUITE_CONFIG_SECTION[x] : x \in Range(selected_suites(parts))}
      PROVE  s \in DOMAIN configs'[page[q].config] /\ Fits(page[q].config, s)'
  <2>1. s \in Relevant(parts)
    <3>1. CASE s = "target"
      BY <3>1, SectionNames DEF Relevant
    <3>2. ASSUME NEW x \in Range(selected_suites(parts)), s = SUITE_CONFIG_SECTION[x]
          PROVE  s \in Relevant(parts)
      BY <3>2, SelectedIsRelevant
    <3> QED
      BY <1>6, <3>1, <3>2
  <2>2. s \in Sections /\ Fits(page[q].config, s)
    BY <1>6, <2>1, RelevantSections DEF PassedInv, PagePassed
  <2> QED
    BY <1>1, <1>4, <1>5, <2>2, FilledFits
<1>7. page[q].review = "ok" => Runnable(page[q].config, page[q].suite)'
  BY <1>4, <1>6 DEF Runnable, Fits
<1>8. LaunchedBy(p) => p = q
  BY <1>2, <1>3 DEF LaunchedBy
<1> QED
  BY <1>7, <1>8 DEF LaunchFits

LEMMA NoLaunch ==
  ASSUME ObjInv, UNCHANGED runs \/ Len(runs') = Len(runs), NEW p \in Pages PROVE LaunchFits(p)
<1>1. Len(runs) \in Nat /\ Len(runs') = Len(runs)
  BY ListDomain DEF ObjInv, RunsOk
<1> QED
  BY <1>1 DEF LaunchFits, LaunchedBy

LEMMA FileLaunch ==
  ASSUME ObjInv, NEW command, RunFromFile(command), NEW p \in Pages PROVE LaunchFits(p)
<1>1. PICK run : runs' = Append(runs, run) /\ run.by = "command line"
  <2> DEFINE new == NewRun("command line", Len(configs) + 1, command.suite)
  <2>1. runs' = Append(runs, new)
    BY DEF RunFromFile
  <2>2. new.by = "command line"
    BY DEF NewRun
  <2> QED
    BY <2>1, <2>2
<1>2. runs'[Len(runs')] = run
  <2>1. IsList(runs)
    BY DEF ObjInv, RunsOk
  <2>2. /\ Len(Append(runs, run)) = Len(runs) + 1
        /\ Append(runs, run)[Len(runs) + 1] = run
    BY <2>1, AppendList
  <2> QED
    BY <1>1, <2>2
<1> QED
  BY <1>1, <1>2, ConstantsAssumption DEF LaunchFits, LaunchedBy

LEMMA LaunchNext == ObjInv /\ PassedInv /\ Next => \A p \in Pages : LaunchFits(p)
<1> SUFFICES ASSUME ObjInv, PassedInv, Next, NEW q \in Pages PROVE LaunchFits(q)
  OBVIOUS
<1>1. ASSUME NEW p \in Pages,
             Open(p) \/ ChooseSuite(p) \/ Edit(p) \/ Draw(p)
               \/ (\E id \in Offered : LoadPreset(p, id))
               \/ (\E f \in Named : Save(p, f) \/ SaveFails(p, f))
      PROVE  LaunchFits(q)
  <2>1. UNCHANGED runs
    BY <1>1 DEF Open, ChooseSuite, Edit, EditField, EditList, Draw, LoadPreset, Save, SaveFails
  <2> QED
    BY <2>1, NoLaunch
<1>2. ASSUME NEW p \in Pages, Launch(p) PROVE LaunchFits(q)
  BY <1>2, LaunchStep
<1>3. ASSUME NEW command, RunFromFile(command) PROVE LaunchFits(q)
  BY <1>3, FileLaunch
<1>4. ASSUME NEW r \in DOMAIN runs,
             WriteResolved(r) \/ BuildTarget(r) \/ RunSuite(r) \/ Finish(r)
      PROVE  LaunchFits(q)
  BY <1>4, RunSteps, NoLaunch
<1> QED
  BY <1>1, <1>2, <1>3, <1>4 DEF Next

LEMMA PassedStutter == PassedInv /\ UNCHANGED vars => PassedInv'
  BY DEF PassedInv, PageWhole, PagePassed, Fits, Shared, Contents, Read, ItemsOf, ApartOk, vars

-----------------------------------------------------------------------------
(* Files and what they inherit.  The chain of a file is followed with the  *)
(* files seen so far, of which there are more at each step, so that a      *)
(* function that follows it exists, and induction is on the files left.    *)

LEMMA UpTo ==
  ASSUME NEW n \in Nat, NEW P, 0 \in P, \A i \in 1..n : i - 1 \in P => i \in P
  PROVE  0..n \subseteq P
<1> DEFINE T == (0..n) \ P
           R == OpToRel(<, Nat)
<1> SUFFICES ASSUME T # {} PROVE FALSE
  OBVIOUS
<1>1. \A x, y \in Nat : y < x => <<y, x>> \in R
  BY DEF OpToRel
<1>2. \E x \in T : \A y \in T : ~(<<y, x>> \in R)
  <2>1. IsWellFoundedOn(R, Nat)
    BY NatLessThanWellFounded
  <2>2. T \subseteq Nat
    OBVIOUS
  <2> HIDE DEF T, R
  <2> QED
    BY <2>1, <2>2, WFMin
<1>3. PICK x \in T : \A y \in T : ~(y < x)
  <2> T \subseteq Nat
    OBVIOUS
  <2> HIDE DEF T, R
  <2> QED
    BY <1>1, <1>2
<1>4. x \in 1..n /\ x - 1 \in 0..n /\ x - 1 < x
  OBVIOUS
<1>5. x - 1 \in P
  BY <1>3, <1>4
<1> QED
  BY <1>4, <1>5

Left(table, seen) == Cardinality(DOMAIN table \ seen)

\* One step of load_config, by what the steps after it give.
LoadStep(table, raw, seen) ==
  [f \in DOMAIN table |->
     IF f \in seen \/ table[f].kind # "mapping" THEN {}
     ELSE IF table[f].inherit = "none" THEN {table[f].body}
     ELSE {deep_merge(parent, table[f].body) :
             parent \in raw[seen \cup {f}][table[f].inherit]}]

Loads(table, raw, S) == raw = [seen \in S |-> LoadStep(table, raw, seen)]

LEMMA LeftLess ==
  ASSUME NEW table, IsFiniteSet(DOMAIN table), NEW seen \in SUBSET DOMAIN table
  PROVE  /\ Left(table, seen) \in Nat /\ Left(table, seen) <= Cardinality(DOMAIN table)
         /\ \A f \in DOMAIN table \ seen :
              Left(table, seen \cup {f}) = Left(table, seen) - 1
<1> DEFINE D == DOMAIN table
<1>1. /\ IsFiniteSet(D \ seen) /\ Cardinality(D \ seen) \in Nat
      /\ Cardinality(D \ seen) <= Cardinality(D)
  BY FS_Subset, FS_CardinalityType
<1>2. ASSUME NEW f \in D \ seen PROVE Left(table, seen \cup {f}) = Left(table, seen) - 1
  <2>1. D \ (seen \cup {f}) = (D \ seen) \ {f}
    OBVIOUS
  <2> HIDE DEF D
  <2>2. Cardinality((D \ seen) \ {f}) = Cardinality(D \ seen) - 1
    BY <1>1, <1>2, FS_RemoveElement
  <2> QED
    BY <2>1, <2>2 DEF Left, D
<1> QED
  BY <1>1, <1>2 DEF Left

LEMMA LoadStepSame ==
  ASSUME NEW table, NEW raw, NEW new, NEW seen,
         \A f \in DOMAIN table \ seen : new[seen \cup {f}] = raw[seen \cup {f}]
  PROVE  LoadStep(table, new, seen) = LoadStep(table, raw, seen)
  BY DEF LoadStep

LEMMA LoadExists ==
  ASSUME NEW table, IsFiniteSet(DOMAIN table)
  PROVE  \E raw : Loads(table, raw, SUBSET DOMAIN table)
<1> DEFINE n == Cardinality(DOMAIN table) + 1
           Level(k) == {seen \in SUBSET DOMAIN table : Left(table, seen) < k}
           P == {k \in 0..n : \E raw : Loads(table, raw, Level(k))}
<1>0. n \in Nat
  BY FS_CardinalityType
<1>1. 0 \in P
  <2>1. Level(0) = {}
    BY LeftLess
  <2> DEFINE raw == [seen \in {} |-> {}]
  <2>2. Loads(table, raw, {})
    BY DEF Loads
  <2> HIDE DEF Level, raw
  <2> QED
    BY <1>0, <2>1, <2>2
<1>2. ASSUME NEW k \in 1..n, k - 1 \in P PROVE k \in P
  <2>1. PICK raw : Loads(table, raw, Level(k - 1))
    BY <1>2
  <2> DEFINE new == [seen \in Level(k) |->
                       IF seen \in Level(k - 1) THEN raw[seen] ELSE LoadStep(table, raw, seen)]
  <2>2. \A seen \in Level(k - 1) : raw[seen] = LoadStep(table, raw, seen)
    <3> HIDE DEF Level
    <3> QED
      BY <2>1 DEF Loads
  <2>3. ASSUME NEW seen \in Level(k) PROVE new[seen] = LoadStep(table, new, seen)
    <3>1. new[seen] = LoadStep(table, raw, seen)
      <4> HIDE DEF Level
      <4> QED
        BY <2>2, <2>3
    <3>2. ASSUME NEW f \in DOMAIN table \ seen PROVE new[seen \cup {f}] = raw[seen \cup {f}]
      <4>1. seen \cup {f} \in SUBSET DOMAIN table
        BY <2>3
      <4>2. Left(table, seen) \in Nat /\ Left(table, seen \cup {f}) = Left(table, seen) - 1
        BY <2>3, <3>2, LeftLess
      <4>3. seen \cup {f} \in Level(k) /\ seen \cup {f} \in Level(k - 1)
        BY <2>3, <4>1, <4>2
      <4> HIDE DEF Level
      <4> QED
        BY <4>3
    <3> HIDE DEF new, Level
    <3> QED
      BY <3>1, <3>2, LoadStepSame
  <2>4. Loads(table, new, Level(k))
    <3>1. new = [seen \in Level(k) |-> new[seen]]
      OBVIOUS
    <3> HIDE DEF new, Level
    <3> QED
      BY <2>3, <3>1 DEF Loads
  <2> QED
    BY <2>4
<1>3. 0..n \subseteq P
  <2> HIDE DEF P, n
  <2> QED
    BY <1>0, <1>1, <1>2, UpTo
<1>4. n \in P
  <2> HIDE DEF P, n
  <2>1. n \in 0..n
    BY <1>0
  <2> QED
    BY <1>3, <2>1
<1>5. Level(n) = SUBSET DOMAIN table
  <2>1. ASSUME NEW seen \in SUBSET DOMAIN table PROVE Left(table, seen) < n
    <3>1. /\ Left(table, seen) \in Nat /\ Cardinality(DOMAIN table) \in Nat
          /\ Left(table, seen) <= Cardinality(DOMAIN table)
      BY <2>1, LeftLess, FS_CardinalityType
    <3> QED
      BY <3>1
  <2> QED
    BY <2>1
<1> HIDE DEF Level
<1> QED
  BY <1>4, <1>5

\* load_config is such a function, from nothing seen.
LEMMA LoadIs ==
  ASSUME NEW table, IsFiniteSet(DOMAIN table), NEW path
  PROVE  \E raw : /\ \A seen \in SUBSET DOMAIN table : raw[seen] = LoadStep(table, raw, seen)
                  /\ load_config(table, path) = raw[{}][path]
<1> DEFINE raw == CHOOSE f : Loads(table, f, SUBSET DOMAIN table)
<1>1. load_config(table, path) = raw[{}][path]
  BY Zenon DEF load_config, Loads, LoadStep
<1>2. Loads(table, raw, SUBSET DOMAIN table)
  BY LoadExists
<1> HIDE DEF raw
<1>3. \A seen \in SUBSET DOMAIN table : raw[seen] = LoadStep(table, raw, seen)
  BY <1>2 DEF Loads
<1> QED
  BY <1>1, <1>3

\* The chain of a file: each inherits the next, the last nothing, and none is
\* met twice or was seen before.
IsChain(table, seen, path, m, chain) ==
  /\ m \in Nat \ {0} /\ chain \in [1..m -> DOMAIN table] /\ chain[1] = path
  /\ \A i \in 1..m : /\ chain[i] \notin seen /\ table[chain[i]].kind = "mapping"
                     /\ \A j \in 1..(i - 1) : chain[j] # chain[i]
  /\ \A i \in 1..(m - 1) : table[chain[i]].inherit = chain[i + 1]
  /\ table[chain[m]].inherit = "none"

HasChain(table, seen, path) == \E m, chain : IsChain(table, seen, path, m, chain)

Gives(config, s, k) == s \in DOMAIN config /\ k \in DOMAIN config[s]

\* A section is there when a file of the chain has it, and so is each of its
\* keys, as the first file of the chain gives it.
AsNearest(table, m, chain, raw) ==
  \A s :
    /\ s \in DOMAIN raw <=> \E i \in 1..m : s \in DOMAIN table[chain[i]].body
    /\ \A k :
         /\ Gives(raw, s, k) <=> \E i \in 1..m : Gives(table[chain[i]].body, s, k)
         /\ \A i \in 1..m :
              Gives(table[chain[i]].body, s, k)
                /\ (\A j \in 1..(i - 1) : ~Gives(table[chain[j]].body, s, k))
              => raw[s][k] = table[chain[i]].body[s][k]

TableOk(table) ==
  /\ IsFiniteSet(DOMAIN table) /\ "none" \notin DOMAIN table
  /\ \A f \in DOMAIN table : table[f].inherit \in DOMAIN table \cup {"none"}

LEMMA MergeGives ==
  ASSUME NEW base, NEW overlay, NEW s
  PROVE  /\ s \in DOMAIN deep_merge(base, overlay) <=> s \in DOMAIN base \/ s \in DOMAIN overlay
         /\ \A k :
              /\ Gives(deep_merge(base, overlay), s, k)
                   <=> Gives(base, s, k) \/ Gives(overlay, s, k)
              /\ Gives(overlay, s, k) => deep_merge(base, overlay)[s][k] = overlay[s][k]
              /\ Gives(base, s, k) /\ ~Gives(overlay, s, k)
                   => deep_merge(base, overlay)[s][k] = base[s][k]
<1> DEFINE new == deep_merge(base, overlay)
<1>1. s \in DOMAIN new <=> s \in DOMAIN base \/ s \in DOMAIN overlay
  BY DEF deep_merge, Over
<1>2. CASE s \in DOMAIN base /\ s \in DOMAIN overlay
  <2>1. new[s] = Over(base[s], overlay[s])
    BY <1>2 DEF deep_merge, Over
  <2> HIDE DEF new
  <2>2. \A k : /\ k \in DOMAIN new[s] <=> k \in DOMAIN base[s] \/ k \in DOMAIN overlay[s]
               /\ k \in DOMAIN overlay[s] => new[s][k] = overlay[s][k]
               /\ k \in DOMAIN base[s] /\ k \notin DOMAIN overlay[s] => new[s][k] = base[s][k]
    BY <2>1 DEF Over
  <2> QED
    BY <1>1, <1>2, <2>2 DEF Gives, new
<1>3. CASE s \in DOMAIN overlay /\ s \notin DOMAIN base
  <2>1. new[s] = overlay[s]
    BY <1>3 DEF deep_merge, Over
  <2> HIDE DEF new
  <2> QED
    BY <1>1, <1>3, <2>1 DEF Gives, new
<1>4. CASE s \in DOMAIN base /\ s \notin DOMAIN overlay
  <2>1. new[s] = base[s]
    BY <1>4 DEF deep_merge, Over
  <2> HIDE DEF new
  <2> QED
    BY <1>1, <1>4, <2>1 DEF Gives, new
<1>5. CASE s \notin DOMAIN base /\ s \notin DOMAIN overlay
  <2> HIDE DEF new
  <2> QED
    BY <1>1, <1>5 DEF Gives, new
<1> QED
  BY <1>2, <1>3, <1>4, <1>5

\* A chain without its first file.
Rest(m, chain) == [i \in 1..(m - 1) |-> chain[i + 1]]

LEMMA ChainUp ==
  ASSUME NEW table, NEW seen, NEW f, NEW m, NEW chain, IsChain(table, seen, f, m, chain), m # 1
  PROVE  table[f].inherit = chain[2] /\ table[f].inherit \in DOMAIN table
<1>1. m \in Nat /\ m > 1 /\ 1 \in 1..(m - 1) /\ 2 \in 1..m
  BY DEF IsChain
<1> QED
  BY <1>1 DEF IsChain

LEMMA ChainTail ==
  ASSUME NEW table, NEW seen, NEW f, NEW m \in Nat, NEW chain,
         IsChain(table, seen, f, m, chain), m # 1
  PROVE  IsChain(table, seen \cup {f}, chain[2], m - 1, Rest(m, chain))
<1> DEFINE tail == Rest(m, chain)
<1>1. m \in Nat /\ m > 1 /\ 1 \in 1..(m - 1) /\ 2 \in 1..m
  BY DEF IsChain
<1>2. chain[1] = f
  BY <1>1 DEF IsChain
<1>3. \A i \in 1..(m - 1) : tail[i] = chain[i + 1] /\ i + 1 \in 1..m
  BY <1>1 DEF Rest
<1>4. tail \in [1..(m - 1) -> DOMAIN table]
  BY <1>3 DEF IsChain, Rest
<1>5. tail[1] = chain[2] /\ tail[m - 1] = chain[m]
  BY <1>1 DEF Rest
<1> HIDE DEF tail
<1>6. ASSUME NEW i \in 1..(m - 1)
      PROVE  /\ tail[i] \notin seen \cup {f} /\ table[tail[i]].kind = "mapping"
             /\ \A j \in 1..(i - 1) : tail[j] # tail[i]
  <2>1. i + 1 \in 1..m /\ 1 \in 1..((i + 1) - 1)
    BY <1>1
  <2>2. tail[i] \notin seen /\ table[tail[i]].kind = "mapping" /\ tail[i] # f
    BY <1>2, <1>3, <2>1 DEF IsChain
  <2>3. ASSUME NEW j \in 1..(i - 1) PROVE tail[j] # tail[i]
    <3>1. j + 1 \in 1..((i + 1) - 1) /\ j \in 1..(m - 1)
      BY <1>1
    <3> QED
      BY <1>3, <2>1, <3>1 DEF IsChain
  <2> QED
    BY <2>2, <2>3
<1>7. ASSUME NEW i \in 1..((m - 1) - 1) PROVE table[tail[i]].inherit = tail[i + 1]
  <2>1. i \in 1..(m - 1) /\ i + 1 \in 1..(m - 1)
    BY <1>1
  <2> QED
    BY <1>3, <2>1 DEF IsChain
<1>8. table[tail[m - 1]].inherit = "none"
  BY <1>5 DEF IsChain
<1>9. m - 1 \in Nat \ {0}
  BY <1>1
<1>10. IsChain(table, seen \cup {f}, chain[2], m - 1, tail)
  BY <1>4, <1>5, <1>6, <1>7, <1>8, <1>9 DEF IsChain
<1> QED
  BY <1>10 DEF tail

LEMMA ChainHead ==
  ASSUME NEW table, NEW seen, NEW f \in DOMAIN table \ seen, table[f].kind = "mapping",
         NEW m, NEW chain, IsChain(table, seen \cup {f}, table[f].inherit, m, chain)
  PROVE  HasChain(table, seen, f)
<1> DEFINE longer == [i \in 1..(m + 1) |-> IF i = 1 THEN f ELSE chain[i - 1]]
<1>1. m \in Nat /\ m >= 1 /\ 1 \in 1..(m + 1)
  BY DEF IsChain
<1>2. longer[1] = f /\ \A i \in 2..(m + 1) : longer[i] = chain[i - 1] /\ i - 1 \in 1..m
  BY <1>1
<1>3. longer \in [1..(m + 1) -> DOMAIN table]
  BY <1>1 DEF IsChain
<1> HIDE DEF longer
<1>4. ASSUME NEW i \in 1..(m + 1)
      PROVE  /\ longer[i] \notin seen /\ table[longer[i]].kind = "mapping"
             /\ \A j \in 1..(i - 1) : longer[j] # longer[i]
  <2>1. CASE i = 1
    BY <1>2, <2>1
  <2>2. CASE i # 1
    <3>1. i \in 2..(m + 1)
      BY <1>1, <2>2
    <3>2. /\ longer[i] \notin seen \cup {f} /\ table[longer[i]].kind = "mapping"
          /\ \A j \in 1..((i - 1) - 1) : chain[j] # chain[i - 1]
      BY <1>2, <3>1 DEF IsChain
    <3>3. ASSUME NEW j \in 1..(i - 1) PROVE longer[j] # longer[i]
      <4>1. CASE j = 1
        BY <1>2, <3>2, <4>1
      <4>2. CASE j # 1
        <5>1. j \in 2..(m + 1) /\ j - 1 \in 1..((i - 1) - 1)
          BY <1>1, <3>1, <4>2
        <5> QED
          BY <1>2, <3>1, <3>2, <5>1
      <4> QED
        BY <4>1, <4>2
    <3> QED
      BY <3>2, <3>3
  <2> QED
    BY <2>1, <2>2
<1>5. ASSUME NEW i \in 1..((m + 1) - 1) PROVE table[longer[i]].inherit = longer[i + 1]
  <2>0. i + 1 \in 2..(m + 1) /\ longer[i + 1] = chain[i]
    <3>1. i + 1 \in 2..(m + 1) /\ (i + 1) - 1 = i
      BY <1>1
    <3> QED
      BY <1>2, <3>1
  <2>1. CASE i = 1
    BY <1>2, <2>0, <2>1 DEF IsChain
  <2>2. CASE i # 1
    <3>1. i \in 2..(m + 1) /\ i - 1 \in 1..(m - 1) /\ (i - 1) + 1 = i
      BY <1>1, <2>2
    <3>2. table[chain[i - 1]].inherit = chain[(i - 1) + 1]
      BY <3>1 DEF IsChain
    <3> QED
      BY <1>2, <2>0, <3>1, <3>2
  <2> QED
    BY <2>1, <2>2
<1>6. table[longer[m + 1]].inherit = "none"
  <2>1. m + 1 \in 2..(m + 1) /\ (m + 1) - 1 = m
    BY <1>1
  <2> QED
    BY <1>2, <2>1 DEF IsChain
<1>7. m + 1 \in Nat \ {0}
  BY <1>1
<1>8. IsChain(table, seen, f, m + 1, longer)
  BY <1>2, <1>3, <1>4, <1>5, <1>6, <1>7 DEF IsChain
<1> QED
  BY <1>8 DEF HasChain

LEMMA ChainOne ==
  ASSUME NEW table, NEW seen, NEW f \in DOMAIN table \ seen, table[f].kind = "mapping",
         table[f].inherit = "none"
  PROVE  HasChain(table, seen, f)
<1> DEFINE one == [i \in 1..1 |-> f]
<1>1. one[1] = f /\ one \in [1..1 -> DOMAIN table]
  OBVIOUS
<1> HIDE DEF one
<1>2. \A i \in 1..1 : i = 1 /\ 1..(i - 1) = {}
  OBVIOUS
<1>3. 1..(1 - 1) = {} /\ 1 \in Nat \ {0}
  OBVIOUS
<1>4. IsChain(table, seen, f, 1, one)
  BY <1>1, <1>2, <1>3 DEF IsChain
<1> QED
  BY <1>4 DEF HasChain

LEMMA NearestOne ==
  ASSUME NEW table, NEW chain PROVE AsNearest(table, 1, chain, table[chain[1]].body)
<1>1. \A i \in 1..1 : i = 1
  OBVIOUS
<1>2. 1 \in 1..1
  OBVIOUS
<1> QED
  BY <1>1, <1>2 DEF AsNearest

LEMMA NearestMore ==
  ASSUME NEW table, NEW m \in Nat, m > 1, NEW chain, NEW parent,
         AsNearest(table, m - 1, Rest(m, chain), parent)
  PROVE  AsNearest(table, m, chain, deep_merge(parent, table[chain[1]].body))
<1> DEFINE tail == Rest(m, chain)
           Body(i) == table[chain[i]].body
           new == deep_merge(parent, Body(1))
<1>1. \A i \in 1..(m - 1) : table[tail[i]].body = Body(i + 1)
  BY DEF Rest
<1>2. ASSUME NEW P
      PROVE  (\E i \in 1..(m - 1) : i + 1 \in P) <=> (\E i \in 2..m : i \in P)
  <2>1. \A i \in 1..(m - 1) : i + 1 \in 2..m
    OBVIOUS
  <2>2. \A i \in 2..m : i - 1 \in 1..(m - 1) /\ (i - 1) + 1 = i
    OBVIOUS
  <2> QED
    BY <2>1, <2>2
<1>3. \A i : i \in 1..m <=> i = 1 \/ i \in 2..m
  OBVIOUS
<1> SUFFICES ASSUME NEW s
             PROVE  /\ s \in DOMAIN new <=> \E i \in 1..m : s \in DOMAIN Body(i)
                    /\ \A k :
                         /\ Gives(new, s, k) <=> \E i \in 1..m : Gives(Body(i), s, k)
                         /\ \A i \in 1..m :
                              Gives(Body(i), s, k) /\ (\A j \in 1..(i - 1) : ~Gives(Body(j), s, k))
                              => new[s][k] = Body(i)[s][k]
  BY DEF AsNearest
<1>4. s \in DOMAIN new <=> \E i \in 1..m : s \in DOMAIN Body(i)
  <2> DEFINE P == {i \in 1..m : s \in DOMAIN Body(i)}
  <2>1. s \in DOMAIN parent <=> \E i \in 1..(m - 1) : s \in DOMAIN Body(i + 1)
    <3> HIDE DEF tail, Body
    <3> QED
      BY <1>1 DEF AsNearest, tail
  <2>2. (\E i \in 1..(m - 1) : s \in DOMAIN Body(i + 1)) <=> \E i \in 2..m : s \in DOMAIN Body(i)
    <3>1. (\E i \in 1..(m - 1) : i + 1 \in P) <=> (\E i \in 2..m : i \in P)
      <4> HIDE DEF P
      <4> QED
        BY <1>2
    <3>2. \A i \in 1..(m - 1) : i + 1 \in 1..m
      OBVIOUS
    <3> HIDE DEF Body
    <3> QED
      BY <1>3, <3>1, <3>2
  <2>3. s \in DOMAIN new <=> s \in DOMAIN parent \/ s \in DOMAIN Body(1)
    <3> HIDE DEF Body
    <3> QED
      BY MergeGives
  <2> HIDE DEF Body, P, new, tail
  <2> QED
    BY <1>3, <2>1, <2>2, <2>3
<1>5. ASSUME NEW k
      PROVE  /\ Gives(new, s, k) <=> \E i \in 1..m : Gives(Body(i), s, k)
             /\ \A i \in 1..m :
                  Gives(Body(i), s, k) /\ (\A j \in 1..(i - 1) : ~Gives(Body(j), s, k))
                  => new[s][k] = Body(i)[s][k]
  <2> DEFINE P == {i \in 1..m : Gives(Body(i), s, k)}
  <2>1. /\ Gives(new, s, k) <=> Gives(parent, s, k) \/ Gives(Body(1), s, k)
        /\ Gives(Body(1), s, k) => new[s][k] = Body(1)[s][k]
        /\ Gives(parent, s, k) /\ ~Gives(Body(1), s, k) => new[s][k] = parent[s][k]
    <3> HIDE DEF Body
    <3> QED
      BY MergeGives
  <2>2. /\ Gives(parent, s, k) <=> \E i \in 1..(m - 1) : Gives(Body(i + 1), s, k)
        /\ \A i \in 1..(m - 1) :
             Gives(Body(i + 1), s, k) /\ (\A j \in 1..(i - 1) : ~Gives(Body(j + 1), s, k))
             => parent[s][k] = Body(i + 1)[s][k]
    <3>1. \A i \in 1..(m - 1) : \A j \in 1..(i - 1) : j \in 1..(m - 1)
      OBVIOUS
    <3> HIDE DEF tail, Body
    <3>2. /\ Gives(parent, s, k) <=> \E i \in 1..(m - 1) : Gives(table[tail[i]].body, s, k)
          /\ \A i \in 1..(m - 1) :
               Gives(table[tail[i]].body, s, k)
                 /\ (\A j \in 1..(i - 1) : ~Gives(table[tail[j]].body, s, k))
               => parent[s][k] = table[tail[i]].body[s][k]
      BY DEF AsNearest, tail
    <3> QED
      BY <1>1, <3>1, <3>2
  <2>3. (\E i \in 1..(m - 1) : Gives(Body(i + 1), s, k)) <=> \E i \in 2..m : Gives(Body(i), s, k)
    <3>1. (\E i \in 1..(m - 1) : i + 1 \in P) <=> (\E i \in 2..m : i \in P)
      <4> HIDE DEF P
      <4> QED
        BY <1>2
    <3>2. \A i \in 1..(m - 1) : i + 1 \in 1..m
      OBVIOUS
    <3> HIDE DEF Body
    <3> QED
      BY <1>3, <3>1, <3>2
  <2>4. Gives(new, s, k) <=> \E i \in 1..m : Gives(Body(i), s, k)
    <3> HIDE DEF Body, P, new, tail
    <3> QED
      BY <1>3, <2>1, <2>2, <2>3
  <2>5. ASSUME NEW i \in 1..m, Gives(Body(i), s, k),
               \A j \in 1..(i - 1) : ~Gives(Body(j), s, k)
        PROVE  new[s][k] = Body(i)[s][k]
    <3>1. CASE i = 1
      <4> HIDE DEF Body, new
      <4> QED
        BY <2>1, <2>5, <3>1
    <3>2. CASE i # 1
      <4>1. i - 1 \in 1..(m - 1) /\ (i - 1) + 1 = i /\ 1 \in 1..(i - 1)
        BY <3>2
      <4>2. \A j \in 1..((i - 1) - 1) : j + 1 \in 1..(i - 1)
        BY <3>2
      <4> HIDE DEF Body, P, new, tail
      <4>3. ~Gives(Body(1), s, k) /\ \A j \in 1..((i - 1) - 1) : ~Gives(Body(j + 1), s, k)
        BY <2>5, <4>1, <4>2
      <4>4. Gives(parent, s, k) /\ parent[s][k] = Body((i - 1) + 1)[s][k]
        BY <2>2, <2>5, <4>1, <4>3
      <4> QED
        BY <2>1, <4>1, <4>3, <4>4
    <3> QED
      BY <3>1, <3>2
  <2> QED
    BY <2>4, <2>5
<1> HIDE DEF Body, new
<1> QED
  BY <1>4, <1>5

\* What the function gives for a file, with these files seen.
LoadsAs(table, raw, seen, f) ==
  /\ raw[seen][f] # {} => HasChain(table, seen, f)
  /\ \A m, chain : IsChain(table, seen, f, m, chain) =>
       \E config : raw[seen][f] = {config} /\ AsNearest(table, m, chain, config)
  /\ (\A g \in DOMAIN table : table[g].kind = "mapping" => BodyTyped(table[g].body))
       => \A config \in raw[seen][f] : BodyTyped(config)

LEMMA MergeTyped ==
  ASSUME NEW base, NEW overlay, BodyTyped(base), BodyTyped(overlay)
  PROVE  BodyTyped(deep_merge(base, overlay))
<1> DEFINE new == deep_merge(base, overlay)
<1>1. DOMAIN new \subseteq Sections
  BY MergeGives DEF BodyTyped
<1>2. ASSUME NEW s \in DOMAIN new, NEW k, k \in DOMAIN new[s]
      PROVE  \/ Gives(overlay, s, k) /\ new[s][k] = overlay[s][k]
             \/ Gives(base, s, k) /\ new[s][k] = base[s][k]
  <2>1. Gives(new, s, k)
    BY <1>2 DEF Gives
  <2> QED
    BY <2>1, MergeGives
<1> HIDE DEF new
<1>3. ASSUME NEW s \in DOMAIN new, "value" \in DOMAIN new[s] PROVE new[s].value \in Values
  <2>1. \/ Gives(overlay, s, "value") /\ new[s]["value"] = overlay[s]["value"]
        \/ Gives(base, s, "value") /\ new[s]["value"] = base[s]["value"]
    BY <1>2, <1>3
  <2> QED
    BY <2>1 DEF Gives, BodyTyped
<1>4. ASSUME NEW s \in DOMAIN new, "list" \in DOMAIN new[s] PROVE new[s].list \in Seq(Items)
  <2>1. \/ Gives(overlay, s, "list") /\ new[s]["list"] = overlay[s]["list"]
        \/ Gives(base, s, "list") /\ new[s]["list"] = base[s]["list"]
    BY <1>2, <1>4
  <2> QED
    BY <2>1 DEF Gives, BodyTyped
<1> QED
  BY <1>1, <1>3, <1>4 DEF BodyTyped, new

LEMMA LoadStepAs ==
  ASSUME NEW table, TableOk(table), NEW raw, NEW seen \in SUBSET DOMAIN table,
         raw[seen] = LoadStep(table, raw, seen), NEW f \in DOMAIN table,
         f \notin seen => \A g \in DOMAIN table : LoadsAs(table, raw, seen \cup {f}, g)
  PROVE  LoadsAs(table, raw, seen, f)
<1> DEFINE up == table[f].inherit
           above == raw[seen \cup {f}][up]
<1>0. raw[seen][f] =
        IF f \in seen \/ table[f].kind # "mapping" THEN {}
        ELSE IF up = "none" THEN {table[f].body}
        ELSE {deep_merge(parent, table[f].body) : parent \in above}
  BY DEF LoadStep
<1> HIDE DEF above
<1>1. CASE f \in seen \/ table[f].kind # "mapping"
  <2>1. raw[seen][f] = {}
    BY <1>0, <1>1
  <2>2. ASSUME NEW m, NEW chain, IsChain(table, seen, f, m, chain) PROVE FALSE
    <3>1. 1 \in 1..m /\ chain[1] = f
      BY <2>2 DEF IsChain
    <3>2. f \notin seen /\ table[f].kind = "mapping"
      BY <2>2, <3>1 DEF IsChain
    <3> QED
      BY <1>1, <3>2
  <2> QED
    BY <2>1, <2>2 DEF LoadsAs
<1>2. CASE f \notin seen /\ table[f].kind = "mapping" /\ up = "none"
  <2>1. raw[seen][f] = {table[f].body}
    BY <1>0, <1>2
  <2>2. HasChain(table, seen, f)
    BY <1>2, ChainOne
  <2>3. ASSUME NEW m, NEW chain, IsChain(table, seen, f, m, chain)
        PROVE  AsNearest(table, m, chain, table[f].body)
    <3>1. CASE m = 1
      <4>1. chain[1] = f
        BY <2>3 DEF IsChain
      <4> QED
        BY <3>1, <4>1, NearestOne
    <3>2. CASE m # 1
      <4>1. up \in DOMAIN table
        BY <2>3, <3>2, ChainUp
      <4> QED
        BY <1>2, <4>1 DEF TableOk
    <3> QED
      BY <3>1, <3>2
  <2> QED
    BY <1>2, <2>1, <2>2, <2>3 DEF LoadsAs
<1>3. CASE f \notin seen /\ table[f].kind = "mapping" /\ up # "none"
  <2>1. raw[seen][f] = {deep_merge(parent, table[f].body) : parent \in above}
    BY <1>0, <1>3
  <2>2. up \in DOMAIN table
    BY <1>3 DEF TableOk
  <2>3. LoadsAs(table, raw, seen \cup {f}, up)
    BY <1>3, <2>2
  <2>4. raw[seen][f] # {} => HasChain(table, seen, f)
    <3>1. raw[seen][f] # {} => HasChain(table, seen \cup {f}, up)
      BY <2>1, <2>3 DEF LoadsAs, above
    <3>2. HasChain(table, seen \cup {f}, up) => HasChain(table, seen, f)
      BY <1>3, ChainHead DEF HasChain
    <3> QED
      BY <3>1, <3>2
  <2>5. ASSUME NEW m, NEW chain, IsChain(table, seen, f, m, chain)
        PROVE  \E config : raw[seen][f] = {config} /\ AsNearest(table, m, chain, config)
    <3> DEFINE tail == Rest(m, chain)
    <3>1. m # 1 /\ m \in Nat /\ m # 0 /\ chain[1] = f
      BY <1>3, <2>5 DEF IsChain
    <3>2. IsChain(table, seen \cup {f}, up, m - 1, tail)
      <4>1. up = chain[2]
        BY <2>5, <3>1, ChainUp
      <4>2. IsChain(table, seen \cup {f}, chain[2], m - 1, tail)
        BY <2>5, <3>1, ChainTail
      <4> QED
        BY <4>1, <4>2
    <3> HIDE DEF tail
    <3>3. PICK parent : above = {parent} /\ AsNearest(table, m - 1, tail, parent)
      BY <2>3, <3>2 DEF LoadsAs, above
    <3>4. raw[seen][f] = {deep_merge(parent, table[f].body)}
      BY <2>1, <3>3
    <3>5. AsNearest(table, m, chain, deep_merge(parent, table[f].body))
      <4>1. m \in Nat /\ m > 1
        BY <3>1
      <4> QED
        BY <3>1, <3>3, <4>1, NearestMore DEF tail
    <3> QED
      BY <3>4, <3>5
  <2>6. ASSUME \A g \in DOMAIN table : table[g].kind = "mapping" => BodyTyped(table[g].body),
               NEW config \in raw[seen][f]
        PROVE  BodyTyped(config)
    <3>1. PICK parent \in above : config = deep_merge(parent, table[f].body)
      BY <2>1, <2>6
    <3>2. BodyTyped(parent)
      BY <2>3, <2>6 DEF LoadsAs, above
    <3> QED
      BY <1>3, <2>6, <3>1, <3>2, MergeTyped
  <2> QED
    BY <2>4, <2>5, <2>6 DEF LoadsAs
<1> QED
  BY <1>1, <1>2, <1>3

LEMMA LoadAs ==
  ASSUME NEW table, TableOk(table), NEW path \in DOMAIN table
  PROVE  \E raw : load_config(table, path) = raw[{}][path] /\ LoadsAs(table, raw, {}, path)
<1>1. PICK raw : /\ \A seen \in SUBSET DOMAIN table : raw[seen] = LoadStep(table, raw, seen)
                 /\ load_config(table, path) = raw[{}][path]
  BY LoadIs DEF TableOk
<1> DEFINE n == Cardinality(DOMAIN table) + 1
           P == {k \in 0..n : \A seen \in SUBSET DOMAIN table :
                   Left(table, seen) < k => \A f \in DOMAIN table : LoadsAs(table, raw, seen, f)}
<1>2. n \in Nat
  BY FS_CardinalityType DEF TableOk
<1>3. 0 \in P
  BY <1>2, LeftLess DEF TableOk
<1>4. ASSUME NEW k \in 1..n, k - 1 \in P PROVE k \in P
  <2> SUFFICES ASSUME NEW seen \in SUBSET DOMAIN table, Left(table, seen) < k,
                      NEW f \in DOMAIN table
               PROVE  LoadsAs(table, raw, seen, f)
    BY <1>2
  <2>1. ASSUME f \notin seen, NEW g \in DOMAIN table PROVE LoadsAs(table, raw, seen \cup {f}, g)
    <3>1. seen \cup {f} \in SUBSET DOMAIN table
      OBVIOUS
    <3>2. Left(table, seen) \in Nat /\ Left(table, seen \cup {f}) = Left(table, seen) - 1
      BY <2>1, LeftLess DEF TableOk
    <3>3. Left(table, seen \cup {f}) < k - 1
      BY <1>2, <3>2
    <3> QED
      BY <1>4, <3>1, <3>3
  <2> QED
    BY <1>1, <2>1, LoadStepAs
<1>5. 0..n \subseteq P
  <2> HIDE DEF P, n
  <2> QED
    BY <1>2, <1>3, <1>4, UpTo
<1>6. n \in P
  <2> HIDE DEF P, n
  <2>1. n \in 0..n
    BY <1>2
  <2> QED
    BY <1>5, <2>1
<1>7. Left(table, {}) < n
  <2>1. Left(table, {}) \in Nat /\ Left(table, {}) <= Cardinality(DOMAIN table)
    BY LeftLess DEF TableOk
  <2> QED
    BY <2>1, FS_CardinalityType DEF TableOk
<1>8. LoadsAs(table, raw, {}, path)
  BY <1>6, <1>7
<1> QED
  BY <1>1, <1>8

\* Whatever files there are, however long their chains: loading raises unless
\* the chain of the file comes to an end without a file that is absent,
\* unreadable or met twice, and otherwise gives one configuration, with each
\* key as the nearest file of the chain has it (_load_raw, _deep_merge).
THEOREM LoadIsNearestAlways ==
  ASSUME NEW table, TableOk(table), NEW path \in DOMAIN table
  PROVE  /\ load_config(table, path) # {} <=> HasChain(table, {}, path)
         /\ \A m, chain : IsChain(table, {}, path, m, chain) =>
              \E config : /\ load_config(table, path) = {config}
                          /\ AsNearest(table, m, chain, config)
<1>1. PICK raw : load_config(table, path) = raw[{}][path] /\ LoadsAs(table, raw, {}, path)
  BY LoadAs
<1>2. \A m, chain : IsChain(table, {}, path, m, chain) =>
        \E config : load_config(table, path) = {config} /\ AsNearest(table, m, chain, config)
  BY <1>1 DEF LoadsAs
<1>3. load_config(table, path) # {} => HasChain(table, {}, path)
  BY <1>1 DEF LoadsAs
<1>4. HasChain(table, {}, path) => load_config(table, path) # {}
  <2>1. \A config : {config} # {}
    OBVIOUS
  <2> QED
    BY <1>2, <2>1 DEF HasChain
<1> QED
  BY <1>2, <1>3, <1>4

LEMMA LoadTyped ==
  ASSUME NEW table, FilesTyped(table, Files), NEW path \in Files,
         NEW config \in load_config(table, path)
  PROVE  BodyTyped(config)
<1>1. TableOk(table) /\ path \in DOMAIN table
  BY ConstantsAssumption DEF TableOk, FilesTyped
<1>2. \A g \in DOMAIN table : table[g].kind = "mapping" => BodyTyped(table[g].body)
  BY DEF FilesTyped
<1>3. PICK raw : load_config(table, path) = raw[{}][path] /\ LoadsAs(table, raw, {}, path)
  BY <1>1, LoadAs
<1> QED
  BY <1>2, <1>3 DEF LoadsAs

-----------------------------------------------------------------------------
(* Types.                                                                  *)

ListTyped(list) == list \in [of : {"own"} \cup DOMAIN PRESETS, items : Seq(Items)]

ConfigTyped(config) ==
  /\ DOMAIN config \subseteq Sections
  /\ \A s \in DOMAIN config :
       /\ "value" \in DOMAIN config[s] => config[s].value \in Values
       /\ "list" \in DOMAIN config[s] => ListTyped(config[s].list)

HeldTyped == held \in [Offered \cup {DEFAULT_PRESET_ID} -> [{"hil", "rt_perf"} -> Seq(Items)]]

PageTyped ==
  page \in [Pages -> [config : Nat, suite : Selections, saved : Files \cup {"none"},
                      review : Reviews]]

TypedInv ==
  /\ HeldTyped /\ PageTyped /\ FilesTyped(files, Files)
  /\ \A c \in DOMAIN configs : ConfigTyped(configs[c])

LEMMA SuiteNames == Suites = {"firmware", "tinyml", "fusion", "hil", "memory", "rt"}
  BY DEF Suites, BUILTIN_SUITES, Range

LEMMA ChosenSelections == Chosen \subseteq Selections
<1> SUFFICES ASSUME NEW parts \in Chosen PROVE parts \in Selections
  OBVIOUS
<1>1. parts = {"all"} \/ \E s \in Suites : parts = {s}
  BY ConstantsAssumption
<1>2. \A s \in Suites : {s} \in SUBSET Suites /\ {s} # {}
  OBVIOUS
<1> QED
  BY <1>1, <1>2, Zenon DEF Selections

ListsTyped(lists) == lists \in [{"hil", "rt_perf"} -> Seq(Items)]

LEMMA ListsIf ==
  ASSUME NEW h \in Seq(Items), NEW r \in Seq(Items)
  PROVE  ListsTyped([hil |-> h, rt_perf |-> r])
  BY DEF ListsTyped

LEMMA SomeLists ==
  /\ <<>> \in Seq(Items) /\ TwoTasks \in Seq(Items) /\ <<"fault", "fault">> \in Seq(Items)
  /\ <<"fault", "fault", "fault", "fault">> \in Seq(Items)
  BY DEF TwoTasks, Items

LEMMA NoListsTyped ==
  /\ ListsTyped(NoLists)
  /\ \A l \in Seq(Items) : /\ ListsTyped([NoLists EXCEPT !.hil = l])
                           /\ ListsTyped([NoLists EXCEPT !.rt_perf = l])
<1>1. NoLists = [hil |-> <<>>, rt_perf |-> <<>>]
  BY DEF NoLists
<1>2. ASSUME NEW l \in Seq(Items)
      PROVE  /\ [NoLists EXCEPT !.hil = l] = [hil |-> l, rt_perf |-> <<>>]
             /\ [NoLists EXCEPT !.rt_perf = l] = [hil |-> <<>>, rt_perf |-> l]
  BY <1>1
<1>3. ListsTyped(NoLists)
  BY <1>1, ListsIf, SomeLists
<1>4. ASSUME NEW l \in Seq(Items)
      PROVE  /\ ListsTyped([NoLists EXCEPT !.hil = l])
             /\ ListsTyped([NoLists EXCEPT !.rt_perf = l])
  <2>1. ListsTyped([hil |-> l, rt_perf |-> <<>>]) /\ ListsTyped([hil |-> <<>>, rt_perf |-> l])
    BY ListsIf, SomeLists
  <2> QED
    BY <1>2, <2>1
<1> QED
  BY <1>3, <1>4

LEMMA TableTyped ==
  ASSUME NEW i \in DOMAIN PresetTable
  PROVE  PresetTable[i][2].suite \in Selections /\ ListsTyped(PresetTable[i][2].lists)
<1>1. DOMAIN PresetTable = 1..9
  BY DEF PresetTable
<1>2. /\ {"all"} \in Selections /\ {"firmware"} \in Selections /\ {"firmware", "rt"} \in Selections
      /\ {"tinyml"} \in Selections /\ {"fusion"} \in Selections /\ {"hil"} \in Selections
      /\ {"rt"} \in Selections
  BY SuiteNames DEF Selections
<1>3. CASE i = 1
  BY <1>2, <1>3, NoListsTyped DEF PresetTable, Preset
<1>4. CASE i = 2
  BY <1>2, <1>4, ListsIf, SomeLists DEF PresetTable, Preset
<1>5. CASE i = 3
  BY <1>2, <1>5, NoListsTyped DEF PresetTable, Preset
<1>6. CASE i = 4
  BY <1>2, <1>6, NoListsTyped, SomeLists DEF PresetTable, Preset
<1>7. CASE i = 5
  BY <1>2, <1>7, NoListsTyped DEF PresetTable, Preset
<1>8. CASE i = 6
  BY <1>2, <1>8, NoListsTyped DEF PresetTable, Preset
<1>9. CASE i = 7
  BY <1>2, <1>9, NoListsTyped, SomeLists DEF PresetTable, Preset
<1>10. CASE i = 8
  BY <1>2, <1>10, NoListsTyped, SomeLists DEF PresetTable, Preset
<1>11. CASE i = 9
  BY <1>2, <1>11, NoListsTyped DEF PresetTable, Preset
<1> QED
  BY <1>1, <1>3, <1>4, <1>5, <1>6, <1>7, <1>8, <1>9, <1>10, <1>11

LEMMA PresetTyped ==
  ASSUME NEW id \in DOMAIN PRESETS
  PROVE  PRESETS[id].suite \in Selections /\ ListsTyped(PRESETS[id].lists)
<1>1. PICK i \in DOMAIN PresetTable : PresetTable[i][1] = id
  BY DEF PRESETS
<1> DEFINE j == CHOOSE k \in DOMAIN PresetTable : PresetTable[k][1] = id
<1>2. j \in DOMAIN PresetTable
  BY <1>1
<1>3. PRESETS[id] = PresetTable[j][2]
  BY DEF PRESETS
<1> QED
  BY <1>2, <1>3, TableTyped

LEMMA OwnTyped ==
  ASSUME NEW items \in Seq(Items) PROVE ListTyped(Own(items))
  BY DEF ListTyped, Own

\* A preset sets sections of the schema only.
LEMMA TableSets ==
  ASSUME NEW i \in DOMAIN PresetTable PROVE PresetTable[i][2].set \subseteq Sections
<1>1. DOMAIN PresetTable = 1..9
  BY DEF PresetTable
<1>2. CASE i = 1
  BY <1>2, SectionNames DEF PresetTable, Preset
<1>3. CASE i = 2
  BY <1>3, SectionNames DEF PresetTable, Preset
<1>4. CASE i = 3
  BY <1>4, SectionNames DEF PresetTable, Preset
<1>5. CASE i = 4
  BY <1>5, SectionNames DEF PresetTable, Preset
<1>6. CASE i = 5
  BY <1>6, SectionNames DEF PresetTable, Preset
<1>7. CASE i = 6
  BY <1>7, SectionNames DEF PresetTable, Preset
<1>8. CASE i = 7
  BY <1>8, SectionNames DEF PresetTable, Preset
<1>9. CASE i = 8
  BY <1>9, SectionNames DEF PresetTable, Preset
<1>10. CASE i = 9
  BY <1>10, SectionNames DEF PresetTable, Preset
<1> QED
  BY <1>1, <1>2, <1>3, <1>4, <1>5, <1>6, <1>7, <1>8, <1>9, <1>10

LEMMA PresetSets ==
  ASSUME NEW id \in DOMAIN PRESETS PROVE PRESETS[id].set \subseteq Sections
<1>1. PICK i \in DOMAIN PresetTable : PresetTable[i][1] = id
  BY DEF PRESETS
<1> DEFINE j == CHOOSE k \in DOMAIN PresetTable : PresetTable[k][1] = id
<1>2. j \in DOMAIN PresetTable
  BY <1>1
<1>3. PRESETS[id] = PresetTable[j][2]
  BY DEF PRESETS
<1> QED
  BY <1>2, <1>3, TableSets

LEMMA BuildTyped ==
  ASSUME NEW id \in DOMAIN PRESETS PROVE ConfigTyped(build(id))
<1> DEFINE new == build(id)
           over == Overlay(id)
<1>1. DOMAIN default_config = Sections /\ DOMAIN over \subseteq Sections
  BY PresetSets DEF default_config, Overlay
<1>2. DOMAIN new \subseteq Sections
  BY <1>1 DEF build, deep_merge, Over
<1>3. ASSUME NEW s \in DOMAIN new, NEW k, k \in DOMAIN new[s]
      PROVE  \/ Gives(over, s, k) /\ new[s][k] = over[s][k]
             \/ Gives(default_config, s, k) /\ new[s][k] = default_config[s][k]
  <2>1. Gives(new, s, k)
    BY <1>3 DEF Gives
  <2> QED
    BY <2>1, MergeGives DEF build
<1>4. \A s \in DOMAIN over : over[s].value = "set"
  BY DEF Overlay
<1>5. \A s \in DOMAIN over : "list" \in DOMAIN over[s] => over[s].list = HeldBy(id)
  BY DEF Overlay
<1>6. \A s \in Sections : default_config[s].value = "default"
  BY DEF default_config
<1>7. \A s \in Sections : "list" \in DOMAIN default_config[s] => default_config[s].list = Own(<<>>)
  BY DEF default_config
<1>8. ListTyped(HeldBy(id)) /\ ListTyped(Own(<<>>))
  BY SomeLists, OwnTyped DEF HeldBy, ListTyped
<1> HIDE DEF new, over
<1>9. ASSUME NEW s \in DOMAIN new, "value" \in DOMAIN new[s] PROVE new[s].value \in Values
  <2>1. \/ Gives(over, s, "value") /\ new[s]["value"] = over[s]["value"]
        \/ Gives(default_config, s, "value") /\ new[s]["value"] = default_config[s]["value"]
    BY <1>3, <1>9
  <2> QED
    BY <1>1, <1>4, <1>6, <2>1 DEF Gives, Values
<1>10. ASSUME NEW s \in DOMAIN new, "list" \in DOMAIN new[s] PROVE ListTyped(new[s].list)
  <2>1. \/ Gives(over, s, "list") /\ new[s]["list"] = over[s]["list"]
        \/ Gives(default_config, s, "list") /\ new[s]["list"] = default_config[s]["list"]
    BY <1>3, <1>10
  <2> QED
    BY <1>1, <1>5, <1>7, <1>8, <2>1 DEF Gives
<1> QED
  BY <1>2, <1>9, <1>10 DEF ConfigTyped, new

\* The items that are read.
LEMMA ItemsTyped ==
  ASSUME HeldTyped, NEW ref, ListTyped(ref), NEW s,
         ref.of = "own" \/ (s \in Listed /\ ref.of \in DOMAIN held)
  PROVE  ItemsOf(ref, s) \in Seq(Items)
<1>1. CASE ref.of = "own"
  BY <1>1 DEF ItemsOf, ListTyped
<1>2. CASE ref.of # "own"
  <2> DEFINE id == ref.of
  <2>1. id \in DOMAIN held /\ s \in {"hil", "rt_perf"}
    BY <1>2, ListedSections
  <2>2. held[id][s] \in Seq(Items)
    <3> HIDE DEF id
    <3> QED
      BY <2>1 DEF HeldTyped
  <2> QED
    BY <1>2, <2>2 DEF ItemsOf
<1> QED
  BY <1>1, <1>2

LEMMA ContentsTyped ==
  ASSUME ObjInv, TypedInv, NEW c \in DOMAIN configs PROVE BodyTyped(Contents(c))
<1> DEFINE config == configs[c]
           body == Contents(c)
<1>1. ConfigTyped(config) /\ RefsOk(config, DOMAIN held) /\ HeldTyped
  BY DEF TypedInv, ObjInv, ConfigsOk
<1>2. /\ DOMAIN body = DOMAIN config
      /\ \A s \in DOMAIN config :
           /\ DOMAIN body[s] = DOMAIN config[s]
           /\ "value" \in DOMAIN config[s] => body[s].value = config[s].value
           /\ "list" \in DOMAIN config[s] => body[s].list = ItemsOf(config[s].list, s)
  BY DEF Contents, Read
<1> HIDE DEF config, body
<1>3. ASSUME NEW s \in DOMAIN config, "list" \in DOMAIN config[s]
      PROVE  ItemsOf(config[s].list, s) \in Seq(Items)
  BY <1>1, <1>3, ItemsTyped DEF ConfigTyped, RefsOk
<1> QED
  BY <1>1, <1>2, <1>3 DEF ConfigTyped, BodyTyped, body

LEMMA TypedInit == Init => TypedInv
<1> SUFFICES ASSUME Init PROVE TypedInv
  OBVIOUS
<1>1. HeldTyped
  <2>1. held = [id \in Offered \cup {DEFAULT_PRESET_ID} |-> PRESETS[id].lists]
    BY DEF Init
  <2>2. \A id \in Offered \cup {DEFAULT_PRESET_ID} : ListsTyped(PRESETS[id].lists)
    BY PresetTyped, DefaultIsPreset, ConstantsAssumption
  <2> QED
    BY <2>1, <2>2 DEF HeldTyped, ListsTyped
<1>2. PageTyped
  BY DEF Init, NoPage, PageTyped, Selections, Reviews
<1>3. FilesTyped(files, Files)
  BY ConstantsAssumption DEF Init
<1>4. DOMAIN configs = {}
  BY DEF Init
<1> QED
  BY <1>1, <1>2, <1>3, <1>4 DEF TypedInv

\* What changes at most: a configuration is added, or one is changed.
LEMMA AddTyped ==
  ASSUME ObjInv, TypedInv, NEW config, ConfigTyped(config), configs' = Append(configs, config)
  PROVE  \A c \in DOMAIN configs' : ConfigTyped(configs'[c])
<1>1. IsList(configs)
  BY DEF ObjInv, ConfigsOk
<1>2. /\ DOMAIN configs' = 1..(Len(configs) + 1) /\ DOMAIN configs = 1..Len(configs)
      /\ Len(configs) \in Nat
      /\ \A c \in DOMAIN configs : configs'[c] = configs[c]
      /\ configs'[Len(configs) + 1] = config
  BY <1>1, AppendList, ListDomain
<1>3. \A c \in DOMAIN configs' : c \in DOMAIN configs \/ c = Len(configs) + 1
  BY <1>2
<1> QED
  BY <1>2, <1>3 DEF TypedInv

LEMMA ReviewTyped ==
  /\ {"stale", "ok", "errors"} \subseteq Reviews
  /\ \A review : Changed(review) \in Reviews
  BY DEF Changed, Reviews

LEMMA TypedOpen ==
  ASSUME ObjInv, TypedInv, NEW q \in Pages, Open(q) \/ \E id \in Offered : LoadPreset(q, id)
  PROVE  TypedInv'
<1>1. PICK id \in DOMAIN PRESETS :
        /\ configs' = Append(configs, build(id))
        /\ \/ page' = [page EXCEPT ![q].config = Len(configs) + 1]
           \/ \E y \in Reviews :
                page' = [page EXCEPT ![q].config = Len(configs) + 1,
                                     ![q].suite = PRESETS[id].suite, ![q].review = y]
  <2>1. CASE Open(q)
    BY <2>1, DefaultIsPreset DEF Open
  <2>2. ASSUME NEW i \in Offered, LoadPreset(q, i)
        PROVE  /\ i \in DOMAIN PRESETS /\ configs' = Append(configs, build(i))
               /\ \E y \in Reviews :
                    page' = [page EXCEPT ![q].config = Len(configs) + 1,
                                         ![q].suite = PRESETS[i].suite, ![q].review = y]
    BY <2>2, ReviewTyped, ConstantsAssumption DEF LoadPreset
  <2> QED
    BY <2>1, <2>2
<1>2. UNCHANGED <<held, files>>
  BY DEF Open, LoadPreset
<1>3. \A c \in DOMAIN configs' : ConfigTyped(configs'[c])
  BY <1>1, BuildTyped, AddTyped
<1>4. PageTyped'
  <2>1. Len(configs) + 1 \in Nat
    BY ListDomain DEF ObjInv, ConfigsOk
  <2>2. PRESETS[id].suite \in Selections
    BY PresetTyped
  <2> DEFINE n == Len(configs) + 1
             parts == PRESETS[id].suite
  <2>3. PageTyped /\ n \in Nat /\ parts \in Selections
    BY <2>1, <2>2 DEF TypedInv
  <2>4. \/ page' = [page EXCEPT ![q].config = n]
        \/ \E y \in Reviews :
             page' = [page EXCEPT ![q].config = n, ![q].suite = parts, ![q].review = y]
    BY <1>1
  <2> HIDE DEF n, parts
  <2>5. CASE page' = [page EXCEPT ![q].config = n]
    BY <2>3, <2>5 DEF PageTyped
  <2>6. ASSUME NEW y \in Reviews,
               page' = [page EXCEPT ![q].config = n, ![q].suite = parts, ![q].review = y]
        PROVE  PageTyped'
    BY <2>3, <2>6 DEF PageTyped
  <2> QED
    BY <2>4, <2>5, <2>6
<1> QED
  BY <1>2, <1>3, <1>4 DEF TypedInv, HeldTyped

\* The page or the files change, and nothing else that has a type.
LEMMA TypedPage ==
  ASSUME TypedInv, UNCHANGED <<held, configs>>, PageTyped', FilesTyped(files', Files)
  PROVE  TypedInv'
  BY DEF TypedInv, HeldTyped

LEMMA TypedQuiet ==
  ASSUME ObjInv, TypedInv, NEW q \in Pages,
         ChooseSuite(q) \/ \E f \in Named : Save(q, f) \/ SaveFails(q, f)
  PROVE  TypedInv'
<1>1. UNCHANGED <<held, configs>> /\ PageTyped /\ FilesTyped(files, Files)
  BY DEF ChooseSuite, Save, SaveFails, TypedInv
<1>2. CASE ChooseSuite(q)
  <2>1. PICK parts \in Chosen, y \in Reviews :
          page' = [page EXCEPT ![q].suite = parts, ![q].review = y]
    BY <1>2, ReviewTyped DEF ChooseSuite
  <2>2. PageTyped'
    BY <1>1, <2>1, ChosenSelections DEF PageTyped
  <2>3. UNCHANGED files
    BY <1>2 DEF ChooseSuite
  <2> QED
    BY <1>1, <2>2, <2>3, TypedPage
<1>3. ASSUME NEW f \in Files, NEW body, BodyTyped(body),
             files' = [files EXCEPT ![f] = Mapping("none", body)]
      PROVE  FilesTyped(files', Files)
  BY <1>1, <1>3 DEF FilesTyped, Mapping
<1>4. ASSUME NEW f \in Named, Save(q, f) PROVE TypedInv'
  <2>1. /\ files' = [files EXCEPT ![f] = Mapping("none", Contents(page[q].config))]
        /\ page' = [page EXCEPT ![q].saved = f] /\ page[q].review # "stale"
    BY <1>4 DEF Save
  <2>2. f \in Files
    BY ConstantsAssumption
  <2>3. page[q].config \in DOMAIN configs
    BY <2>1 DEF ObjInv, PageOk, PlaceOk
  <2>4. BodyTyped(Contents(page[q].config))
    BY <2>3, ContentsTyped
  <2>5. FilesTyped(files', Files)
    BY <1>3, <2>1, <2>2, <2>4
  <2>6. PageTyped'
    BY <1>1, <2>1, <2>2 DEF PageTyped
  <2> QED
    BY <1>1, <2>5, <2>6, TypedPage
<1>5. ASSUME NEW f \in Named, SaveFails(q, f) PROVE TypedInv'
  <2>1. files' = [files EXCEPT ![f] = Mapping("none", <<>>)] /\ UNCHANGED page
    BY <1>5 DEF SaveFails
  <2>2. f \in Files /\ BodyTyped(<<>>)
    <3>1. DOMAIN <<>> = {}
      OBVIOUS
    <3>2. BodyTyped(<<>>)
      BY <3>1 DEF BodyTyped
    <3> QED
      BY <3>2, ConstantsAssumption
  <2>3. FilesTyped(files', Files)
    BY <1>3, <2>1, <2>2
  <2> QED
    BY <1>1, <2>1, <2>3, TypedPage DEF PageTyped
<1> QED
  BY <1>2, <1>4, <1>5

LEMMA TypedField ==
  ASSUME ObjInv, TypedInv, NEW q \in Pages, NEW s \in Edited, EditField(q, s) PROVE TypedInv'
<1> DEFINE c == page[q].config
<1>1. PICK v \in Typed(q, s) : configs' = [configs EXCEPT ![c][s].value = v]
  BY DEF EditField
<1>2. v \in Values
  BY DEF Typed, Values
<1>3. (\E y \in Reviews : page' = [page EXCEPT ![q].review = y]) /\ UNCHANGED <<held, files>>
  BY ReviewTyped DEF EditField
<1>4. PageTyped'
  BY <1>3 DEF TypedInv, PageTyped
<1>5. ASSUME NEW d \in DOMAIN configs PROVE ConfigTyped(configs'[d])
  <2> DEFINE old == configs[d]
             new == configs'[d]
  <2>1. ConfigTyped(old)
    BY DEF TypedInv
  <2>2. /\ DOMAIN new = DOMAIN old
        /\ \A x \in DOMAIN old : /\ DOMAIN new[x] = DOMAIN old[x]
                                 /\ "value" \in DOMAIN old[x] =>
                                      new[x].value = old[x].value \/ new[x].value = v
                                 /\ "list" \in DOMAIN old[x] => new[x].list = old[x].list
    <3>1. CASE d = c
      <4>1. new = [old EXCEPT ![s].value = v]
        BY <1>1, <3>1
      <4> HIDE DEF new, old
      <4> QED
        BY <4>1
    <3>2. CASE d # c
      BY <1>1, <3>2
    <3> QED
      BY <3>1, <3>2
  <2> HIDE DEF new, old
  <2>3. ConfigTyped(new)
    BY <1>2, <2>1, <2>2 DEF ConfigTyped
  <2> QED
    BY <2>3 DEF new
<1>6. DOMAIN configs' = DOMAIN configs
  BY <1>1
<1> QED
  BY <1>3, <1>4, <1>5, <1>6 DEF TypedInv, HeldTyped

LEMMA FilledTyped ==
  ASSUME TypedInv, NEW q \in Pages, page[q].config \in DOMAIN configs, NEW advanced
  PROVE  ConfigTyped(Filled(q, advanced))
<1> DEFINE old == configs[page[q].config]
           new == Filled(q, advanced)
<1>1. ConfigTyped(old)
  BY DEF TypedInv
<1>2. DOMAIN new = DOMAIN old
  BY DEF Filled
<1>3. \A x \in DOMAIN old : new[x] = old[x] \/ new[x] = [old[x] EXCEPT !.value = "filled"]
  BY DEF Filled
<1> HIDE DEF new, old
<1>4. \A x \in DOMAIN old : /\ DOMAIN new[x] = DOMAIN old[x]
                            /\ "value" \in DOMAIN old[x] =>
                                 new[x].value = old[x].value \/ new[x].value = "filled"
                            /\ "list" \in DOMAIN old[x] => new[x].list = old[x].list
  BY <1>3
<1>5. ConfigTyped(new)
  BY <1>1, <1>2, <1>4 DEF ConfigTyped, Values
<1> QED
  BY <1>5 DEF new

LEMMA TypedDraw ==
  ASSUME ObjInv, TypedInv, NEW q \in Pages, Draw(q) \/ Launch(q) PROVE TypedInv'
<1> DEFINE c == page[q].config
<1>1. PICK advanced \in Advanced :
        /\ configs' = [configs EXCEPT ![c] = Filled(q, advanced)]
        /\ \E y \in Reviews : page' = [page EXCEPT ![q].review = y]
  BY ReviewTyped DEF Draw, Launch
<1>2. UNCHANGED <<held, files>>
  BY DEF Draw, Launch
<1>3. PageTyped'
  BY <1>1 DEF TypedInv, PageTyped
<1>4. c \in DOMAIN configs
  BY DEF Draw, Launch, ObjInv, PageOk, PlaceOk
<1>5. \A d \in DOMAIN configs' : ConfigTyped(configs'[d])
  BY <1>1, <1>4, FilledTyped DEF TypedInv
<1> QED
  BY <1>2, <1>3, <1>5 DEF TypedInv, HeldTyped

LEMMA RemoveTyped ==
  ASSUME NEW items \in Seq(Items), NEW i \in DOMAIN items PROVE RemoveAt(items, i) \in Seq(Items)
<1>1. i \in 1..Len(items) /\ Len(items) \in Nat
  OBVIOUS
<1>2. SubSeq(items, 1, i - 1) \in Seq(Items) /\ SubSeq(items, i + 1, Len(items)) \in Seq(Items)
  BY <1>1
<1> QED
  BY <1>2 DEF RemoveAt

LEMMA TypedList ==
  ASSUME ObjInv, PassedInv, TypedInv, NEW q \in Pages, NEW s \in Edited, EditList(q, s)
  PROVE  TypedInv'
<1> DEFINE c == page[q].config
           ref == configs[c][s].list
<1>1. /\ c # 0 /\ s \in Listed /\ UNCHANGED files
      /\ \E y \in Reviews : page' = [page EXCEPT ![q].review = y]
  BY ReviewTyped DEF EditList
<1>2. c \in DOMAIN configs
  BY <1>1 DEF ObjInv, PlaceOk
<1>3. s \in DOMAIN configs[c] /\ "list" \in DOMAIN configs[c][s]
  BY <1>1 DEF PassedInv, PageWhole, Whole, Listed
<1>4. ListTyped(ref) /\ (ref.of = "own" \/ ref.of \in DOMAIN held)
  BY <1>2, <1>3 DEF TypedInv, ConfigTyped, ObjInv, ConfigsOk, RefsOk
<1>5. ItemsOf(ref, s) \in Seq(Items)
  BY <1>1, <1>4, ItemsTyped DEF TypedInv
<1>6. PICK items \in Seq(Items) : SetItems(c, s, items)
  <2> DEFINE old == ItemsOf(ref, s)
  <2>1. \/ \E item \in Items : SetItems(c, s, Append(old, item))
        \/ \E i \in DOMAIN old : SetItems(c, s, RemoveAt(old, i))
    BY DEF EditList, Items
  <2> HIDE DEF old
  <2>2. \A item \in Items : Append(old, item) \in Seq(Items)
    BY <1>5 DEF old
  <2>3. \A i \in DOMAIN old : RemoveAt(old, i) \in Seq(Items)
    BY <1>5, RemoveTyped DEF old
  <2> QED
    BY <2>1, <2>2, <2>3
<1>7. PageTyped'
  BY <1>1 DEF TypedInv, PageTyped
<1>8. CASE ref.of = "own"
  <2>1. configs' = [configs EXCEPT ![c][s].list = Own(items)] /\ UNCHANGED held
    BY <1>6, <1>8 DEF SetItems
  <2> DEFINE old == configs[c]
             new == [old EXCEPT ![s].list = Own(items)]
  <2>2. configs' = [configs EXCEPT ![c] = new]
    BY <2>1
  <2>3. ConfigTyped(old) /\ ListTyped(Own(items))
    BY <1>2, OwnTyped DEF TypedInv
  <2> DEFINE l == Own(items)
  <2> HIDE DEF l
  <2>4. new = [old EXCEPT ![s].list = l]
    BY DEF l
  <2> HIDE DEF new, old
  <2>5. /\ DOMAIN new = DOMAIN old
        /\ \A x \in DOMAIN old : /\ DOMAIN new[x] = DOMAIN old[x]
                                 /\ "value" \in DOMAIN old[x] => new[x].value = old[x].value
                                 /\ "list" \in DOMAIN old[x] =>
                                      new[x].list = old[x].list \/ new[x].list = l
    BY <2>4
  <2>6. ConfigTyped(new)
    BY <2>3, <2>5 DEF ConfigTyped, l
  <2>7. \A d \in DOMAIN configs' : ConfigTyped(configs'[d])
    BY <2>2, <2>6 DEF TypedInv
  <2> QED
    BY <1>1, <1>7, <2>1, <2>7 DEF TypedInv, HeldTyped
<1>9. CASE ref.of # "own"
  <2> DEFINE id == ref.of
  <2>1. held' = [held EXCEPT ![id][s] = items] /\ UNCHANGED configs
    BY <1>6, <1>9 DEF SetItems
  <2>2. id \in DOMAIN held /\ s \in {"hil", "rt_perf"}
    BY <1>1, <1>4, <1>9, ListedSections
  <2> HIDE DEF id
  <2>3. HeldTyped'
    BY <2>1, <2>2 DEF TypedInv, HeldTyped
  <2> QED
    BY <1>1, <1>7, <2>1, <2>3 DEF TypedInv
<1> QED
  BY <1>8, <1>9

LEMMA TypedFile ==
  ASSUME ObjInv, TypedInv, NEW command, RunFromFile(command),
         command.config \in Files \cup {"none"}
  PROVE  TypedInv'
<1>1. command.config \in Files /\ UNCHANGED <<held, page, files>>
  BY DEF RunFromFile
<1>2. PICK raw \in load_config(files, command.config) : configs' = Append(configs,
        [s \in DOMAIN raw |-> [k \in DOMAIN raw[s] |->
           IF k = "list" THEN Own(raw[s].list) ELSE raw[s].value]])
  BY DEF RunFromFile
<1>3. BodyTyped(raw)
  <2>1. FilesTyped(files, Files)
    BY DEF TypedInv
  <2> DEFINE path == command.config
  <2> HIDE DEF path
  <2>2. path \in Files /\ raw \in load_config(files, path)
    BY <1>1 DEF path
  <2> QED
    BY <2>1, <2>2, LoadTyped
<1> DEFINE config == [s \in DOMAIN raw |-> [k \in DOMAIN raw[s] |->
              IF k = "list" THEN Own(raw[s].list) ELSE raw[s].value]]
<1>4. ConfigTyped(config)
  <2>1. /\ DOMAIN config = DOMAIN raw
        /\ \A s \in DOMAIN raw :
             /\ DOMAIN config[s] = DOMAIN raw[s]
             /\ "value" \in DOMAIN raw[s] => config[s].value = raw[s].value
             /\ "list" \in DOMAIN raw[s] => config[s].list = Own(raw[s].list)
    OBVIOUS
  <2> HIDE DEF config
  <2> QED
    BY <1>3, <2>1, OwnTyped DEF ConfigTyped, BodyTyped
<1> HIDE DEF config
<1>5. configs' = Append(configs, config)
  BY <1>2 DEF config
<1>6. \A c \in DOMAIN configs' : ConfigTyped(configs'[c])
  BY <1>4, <1>5, AddTyped
<1> QED
  BY <1>1, <1>6 DEF TypedInv, HeldTyped, PageTyped

LEMMA TypedStep == ObjInv /\ PassedInv /\ TypedInv /\ Next => TypedInv'
<1> SUFFICES ASSUME ObjInv, PassedInv, TypedInv, Next PROVE TypedInv'
  OBVIOUS
<1>1. ASSUME NEW p \in Pages,
             Open(p) \/ ChooseSuite(p) \/ (\E id \in Offered : LoadPreset(p, id))
               \/ (\E f \in Named : Save(p, f) \/ SaveFails(p, f))
      PROVE  TypedInv'
  BY <1>1, TypedOpen, TypedQuiet
<1>2. ASSUME NEW p \in Pages, Edit(p) \/ Draw(p) \/ Launch(p) PROVE TypedInv'
  BY <1>2, TypedField, TypedList, TypedDraw DEF Edit
<1>3. ASSUME NEW p \in Pages, RunFromFile(preview_command(p)) PROVE TypedInv'
  <2>1. preview_command(p).config \in Files \cup {"none"}
    BY DEF preview_command, TypedInv, PageTyped
  <2> QED
    BY <1>3, <2>1, TypedFile
<1>4. ASSUME NEW f \in Named, RunFromFile([config |-> f, suite |-> {"all"}]) PROVE TypedInv'
  <2> DEFINE command == [config |-> f, suite |-> {"all"}]
  <2>1. command.config \in Files \cup {"none"} /\ RunFromFile(command)
    BY <1>4, ConstantsAssumption
  <2> HIDE DEF command
  <2> QED
    BY <2>1, TypedFile
<1>5. ASSUME NEW r \in DOMAIN runs,
             WriteResolved(r) \/ BuildTarget(r) \/ RunSuite(r) \/ Finish(r)
      PROVE  TypedInv'
  <2>1. UNCHANGED <<held, configs, page, files>>
    BY <1>5 DEF WriteResolved, BuildTarget, RunSuite, Finish
  <2> QED
    BY <2>1 DEF TypedInv, HeldTyped, PageTyped
<1> QED
  BY <1>1, <1>2, <1>3, <1>4, <1>5 DEF Next

LEMMA TypedStutter == TypedInv /\ UNCHANGED vars => TypedInv'
  BY DEF TypedInv, HeldTyped, PageTyped, vars

LEMMA TypesFollow == ObjInv /\ TypedInv => TypeOK
<1> SUFFICES ASSUME ObjInv, TypedInv PROVE TypeOK
  OBVIOUS
<1>1. \A p \in Pages : page[p].config \in 0..Len(configs)
  BY ListDomain DEF ObjInv, PlaceOk, ConfigsOk
<1>2. page \in [Pages -> [config : 0..Len(configs), suite : Selections,
                          saved : Files \cup {"none"}, review : Reviews]]
  BY <1>1 DEF TypedInv, PageTyped
<1>3. \A r \in DOMAIN runs : runs[r].config \in DOMAIN configs
  BY DEF ObjInv, RunsOk
<1> QED
  BY <1>2, <1>3 DEF TypeOK, TypedInv, HeldTyped, ConfigTyped, ListTyped

-----------------------------------------------------------------------------

\* Configurations are only ever added, a run refers to one of them, and a list
\* that is not a configuration's own is one that a preset holds.
THEOREM ObjectsAlways == Spec => []ObjInv
<1>1. Init => ObjInv
  BY ObjInit
<1>2. ObjInv /\ [Next]_vars => ObjInv'
  BY NextStep, Stutter DEF StepIsSafe
<1> QED
  BY <1>1, <1>2, PTL DEF Spec

\* Nothing but an edit by the page that launched it, its form being drawn, or
\* an edit of a list of the same preset reaches a run (RunLauncher.start,
\* _deep_merge).
THEOREM OnlyEditsReachRunsAlways == Spec => OnlyEditsReachRuns
<1>1. ObjInv /\ [Next]_vars => [AllowedReach]_vars
  BY NextStep DEF StepIsSafe
<1>2. ObjInv /\ [Next]_vars =>
        [\A r \in DOMAIN runs :
           (Live(r) /\ Contents(runs[r].config)' # Contents(runs[r].config)) =>
             \E p \in Pages :
               \/ page[p].config = runs[r].config /\ (Edit(p) \/ Draw(p) \/ Launch(p))
               \/ Edit(p) /\ \E s \in Listed \cap DOMAIN configs[runs[r].config] :
                    configs[runs[r].config][s].list.of = configs[page[p].config][s].list.of]_vars
  BY <1>1, Zenon DEF AllowedReach, Reaches
<1> QED
  BY <1>2, ObjectsAlways, PTL DEF Spec, OnlyEditsReachRuns

\* Every page has a configuration of its own, with every section; and what
\* passed its review would pass it now, but for the lists that presets hold.
THEOREM PassedAlways == Spec => []PassedInv
<1>1. Init => PassedInv
  BY PassedInit
<1>2. ObjInv /\ PassedInv /\ [Next]_vars => PassedInv'
  BY PassedStep, PassedStutter
<1> QED
  BY <1>1, <1>2, ObjectsAlways, PTL DEF Spec

\* Pages, files, lists and configurations hold what they should, also those
\* that inherited from other files, whatever was edited, saved or lost.
THEOREM TypeOKAlways == Spec => []TypeOK
<1>1. Init => TypedInv
  BY TypedInit
<1>2. ObjInv /\ PassedInv /\ TypedInv /\ [Next]_vars => TypedInv'
  BY TypedStep, TypedStutter
<1>3. ObjInv /\ TypedInv => TypeOK
  BY TypesFollow
<1> QED
  BY <1>1, <1>2, <1>3, ObjectsAlways, PassedAlways, PTL DEF Spec

\* What a page launches is runnable at that moment, if the page was seen to be
\* valid and not changed since by its own session: whatever the pass of the
\* click fills in and other sessions do (new_run.py, RunLauncher.start).
THEOREM LaunchedIsRunnableAlways == Spec => LaunchedIsRunnable
<1>1. ObjInv /\ PassedInv /\ [Next]_vars => [\A p \in Pages : LaunchFits(p)]_vars
  BY LaunchNext
<1>2. ObjInv /\ PassedInv /\ [Next]_vars =>
        [\A p \in Pages : LaunchedBy(p) /\ page[p].review = "ok" =>
           Runnable(page[p].config, page[p].suite)']_vars
  BY <1>1, Zenon DEF LaunchFits
<1> QED
  BY <1>2, PassedAlways, ObjectsAlways, PTL DEF Spec, LaunchedIsRunnable

=============================================================================
