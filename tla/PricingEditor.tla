--------------------------- MODULE PricingEditor ---------------------------
(***************************************************************************)
(* The price settings page (web/src/pages/Setting/Ratio): the page shows   *)
(* PRICES, the server stores RATIOS, one option map per kind of ratio.     *)
(* Opening the page turns every stored ratio into a price, an administrator *)
(* edits prices, tiers and per-image prices, and "apply changes" turns all  *)
(* of them back into ratios and rewrites every map, each by a request of    *)
(* its own.  The maps of this module are the token, audio, tier, per-call   *)
(* and per-image ones; the video maps are left out (see README).            *)
(***************************************************************************)
EXTENDS Integers, FiniteSets

CONSTANTS
  Models,           \* model names
  NoModel,          \* "no model is selected" (the empty name)
  PlainKeys,        \* maps among CacheRatio, CreateCacheRatio, ImageRatio, all treated alike
  OptionalTierKeys, \* tier maps that have a switch on the page
  LockedRatio,      \* the completion ratio the server fixes by model name, or None
  Stores,           \* what the server may hold when the page is opened
  Typed,            \* numbers an administrator may type, in units of 1/Scale
  TierRules,        \* tier tables, kept opaque
  Templates,        \* tier templates: functions from tier maps to tables or None
  Units,            \* currencies the per-image prices may be shown in
  DefaultUnit,      \* the currency the site shows quotas in
  Rate,             \* what one dollar is in a currency that is not USD
  Scale,            \* numbers are kept to 1/Scale (12 decimals in the code)
  Writes,           \* the writes of a save: one per map, or maps joined to bound a run
  Absorb,           \* nearer than this to a whole number counts as whole (1e-9)
  MaxEdits, MaxSaves, MaxFaults  \* bounds of the instance

None == -1

TierKeys == {"ModelTierRatio"} \cup OptionalTierKeys
PriceKeys == {"CompletionRatio", "AudioRatio", "AudioCompletionRatio"} \cup PlainKeys
RatioKeys == {"ModelRatio"} \cup PriceKeys
Keys == {"ModelPrice", "ImagePrice", "ImagePricingRules"} \cup RatioKeys \cup TierKeys

Maybe(S) == S \cup {None}
NoRules == [unit |-> "none", row |-> None]
Blank == [k \in Keys |-> IF k = "ImagePricingRules" THEN NoRules ELSE None]

ASSUME NumberAssumption ==
  /\ Scale \in Nat \ {0} /\ Absorb \in Nat /\ 2 * Absorb <= Scale /\ Rate \in Nat \ {0}
  /\ Typed \subseteq Nat /\ \A v \in Typed : v % 2 = 0
  /\ LockedRatio \in [Models -> Maybe(Nat)]

ASSUME WritesAssumption ==
  /\ UNION Writes = Keys
  /\ \A v, w \in Writes : v # w => v \cap w = {}

ASSUME NameAssumption ==
  /\ NoModel \notin Models
  /\ PlainKeys \subseteq {"CacheRatio", "CreateCacheRatio", "ImageRatio"}
  /\ OptionalTierKeys \subseteq {"CompletionTierRatio", "CacheTierRatio", "CreateCacheTierRatio"}
  /\ Units \subseteq {"USD", "CNY", "CUSTOM"} /\ {"USD", DefaultUnit} \subseteq Units

\* A model's values in the maps: numbers and tier tables, or nothing.
Number == Maybe(Nat)
IsEntry(e) ==
  /\ e = [k \in Keys |-> e[k]]
  /\ \A k \in Keys \ {"ImagePricingRules"} : e[k] \in Number
  /\ e["ImagePricingRules"].unit \in Units \cup {"none"}
  /\ e["ImagePricingRules"].row \in Number

\* Tier tables are named by numbers.
ASSUME TierAssumption ==
  TierRules \subseteq Nat /\ \A tpl \in Templates : tpl \in [TierKeys -> Number]

ASSUME StoresAssumption ==
  \A s \in Stores : s = [m \in Models |-> s[m]] /\ \A m \in Models : IsEntry(s[m])

VARIABLES
  stored,    \* the option maps on the server: model -> map -> value
  options,   \* the maps as the page last read them
  models,    \* the list on the page: model -> form, for the listed models
  pending,   \* pendingDeleteModelNames
  selected,  \* selectedModelName
  checked,   \* selectedModelNames, the ticked rows
  visible,   \* visibleCategories: tier maps whose switch is on
  save,      \* handleSubmit: how far it is and what it writes
  stray,     \* writes of a failed save that are still on their way
  own,       \* nobody but this page's saves wrote since the page was read
  claimed,   \* the last save was reported as done and nobody wrote since
  edits, saves, faults

pageVars == <<stored, options, models, pending, selected, checked, visible, save,
              stray, own, claimed, edits, saves, faults>>

---------------------------------------------------------------------------
(* Numbers.  A number is a count of 1/Scale; a product or a quotient is     *)
(* rounded to that, and what is almost whole becomes whole.                 *)

RoundDiv(a, b) == (2 * a + b) \div (2 * b)

formatNumber(n) ==
  LET whole == RoundDiv(n, Scale) * Scale
      off == IF n > whole THEN n - whole ELSE whole - n
  IN IF off < Absorb THEN whole ELSE n

toNormalizedNumber(n) == IF n = None THEN None ELSE formatNumber(n)

\* Input ratios are stored as the page writes them, and a typed number has too
\* few digits to be almost whole, or to have a half that is.
ASSUME DigitsAssumption ==
  /\ \A s \in Stores, m \in Models :
       toNormalizedNumber(s[m]["ModelRatio"]) = s[m]["ModelRatio"]
  /\ \A v \in Typed : formatNumber(v) = v /\ formatNumber(v \div 2) = v \div 2

Times(a, b) ==
  IF None \in {a, b} THEN None ELSE formatNumber(RoundDiv(a * b, Scale))

\* Mutant: the quotient is cut off instead of rounded.
Ratio_truncates(a, b) ==
  IF None \in {a, b} \/ b = 0 THEN None ELSE formatNumber((a * Scale) \div b)

\* A quotient by zero is not finite, and becomes "no value".
Ratio(a, b) ==
  IF None \in {a, b} \/ b = 0 THEN None ELSE formatNumber(RoundDiv(a * Scale, b))

---------------------------------------------------------------------------
(* From the maps to the form.                                               *)

RateOf(unit) == IF unit = "USD" THEN 1 ELSE Rate

fromUSDToDisplay(v, unit) == IF v = None THEN None ELSE formatNumber(v * RateOf(unit))

ratioToBasePrice(r) == Times(r, 2 * Scale)

Prices(e, locked) ==
  LET base == ratioToBasePrice(e["ModelRatio"])
      audio == Times(base, e["AudioRatio"])
  IN [k \in PriceKeys |->
        CASE k = "CompletionRatio" -> Times(base, IF locked # None THEN locked ELSE e[k])
          [] k = "AudioCompletionRatio" -> Times(audio, e[k])
          [] OTHER -> Times(base, e[k])]

buildModelState(m, e) ==
  LET rules == e["ImagePricingRules"]
      unit == IF rules.unit \in {"USD", "CNY", "CUSTOM"} THEN rules.unit ELSE DefaultUnit
  IN [fixed      |-> e["ModelPrice"],
      input      |-> ratioToBasePrice(e["ModelRatio"]),
      price      |-> Prices(e, LockedRatio[m]),
      lock       |-> LockedRatio[m],
      raw        |-> e,
      tier       |-> [k \in TierKeys |-> e[k]],
      unit       |-> unit,
      imageFixed |-> fromUSDToDisplay(e["ImagePrice"], unit),
      imageRow   |-> fromUSDToDisplay(rules.row, unit)]

EmptyModel ==
  [fixed |-> None, input |-> None, price |-> [k \in PriceKeys |-> None],
   lock |-> None, raw |-> Blank, tier |-> [k \in TierKeys |-> None],
   unit |-> "USD", imageFixed |-> None, imageRow |-> None]

\* The models the page lists: those with a value in some map.
Listed(s) == {m \in Models : s[m] # Blank}

BuildModels(s) == [m \in Listed(s) |-> buildModelState(m, s[m])]

---------------------------------------------------------------------------
(* From the form back to the maps.                                          *)

\* serializeModel refuses a price that has no base to be divided by.
Throws(f) ==
  IF f.input = None
  THEN \E k \in PriceKeys : f.price[k] # None
  ELSE /\ f.price["AudioCompletionRatio"] # None
       /\ f.price["AudioRatio"] \in {None, 0}

\* Mutant: a ratio that was loaded is preferred to the price on the page.
Ratios_preferLoaded(f) ==
  [k \in RatioKeys |->
     IF f.input = None \/ (k # "ModelRatio" /\ f.raw[k] # None)
     THEN toNormalizedNumber(f.raw[k])
     ELSE CASE k = "ModelRatio" -> formatNumber(RoundDiv(f.input, 2))
            [] k = "AudioCompletionRatio" -> Ratio(f.price[k], f.price["AudioRatio"])
            [] OTHER -> Ratio(f.price[k], f.input)]

\* The ratios of a form: without an input price the loaded ones are kept.
Ratios(f) ==
  [k \in RatioKeys |->
     IF f.input = None \/ (k = "CompletionRatio" /\ f.lock # None)
     THEN toNormalizedNumber(f.raw[k])
     ELSE CASE k = "ModelRatio" -> formatNumber(RoundDiv(f.input, 2))
            [] k = "AudioCompletionRatio" -> Ratio(f.price[k], f.price["AudioRatio"])
            [] OTHER -> Ratio(f.price[k], f.input)]

\* The per-image maps: without an input price they are not written at all.
ImageRows(f) == f.input # None /\ f.imageRow > 0

ImageMaps(f) ==
  IF f.input = None THEN [ImagePrice |-> None, ImagePricingRules |-> NoRules]
  ELSE IF ImageRows(f) \/ f.imageFixed # None
       THEN [ImagePrice |-> IF f.imageFixed = None THEN None
                            ELSE formatNumber(RoundDiv(f.imageFixed, RateOf(f.unit))),
             ImagePricingRules |->
               [unit |-> f.unit, row |-> IF ImageRows(f) THEN f.imageRow ELSE None]]
  ELSE IF f.raw["ImagePricingRules"] # NoRules
       THEN [ImagePrice |-> None, ImagePricingRules |-> f.raw["ImagePricingRules"]]
       ELSE [ImagePrice |-> toNormalizedNumber(f.raw["ImagePrice"]),
             ImagePricingRules |-> NoRules]

\* A price per image row removes the price per call; a tier table with a
\* switch is written only while its switch is on, whichever model it is of.
serializeModel(f, shown) ==
  [k \in Keys |->
     CASE k = "ModelPrice" -> IF ImageRows(f) THEN None ELSE toNormalizedNumber(f.fixed)
       [] k \in RatioKeys -> Ratios(f)[k]
       [] k \in OptionalTierKeys -> IF k \in shown THEN f.tier[k] ELSE None
       [] k = "ModelTierRatio" -> f.tier[k]
       [] OTHER -> ImageMaps(f)[k]]

\* Mutant: the output is merged into the maps the server has.
buildPricingOutputFromModels_merges(list, shown) ==
  [m \in Models |-> IF m \in DOMAIN list THEN serializeModel(list[m], shown) ELSE stored[m]]

buildPricingOutputFromModels(list, shown) ==
  [m \in Models |-> IF m \in DOMAIN list THEN serializeModel(list[m], shown) ELSE Blank]

---------------------------------------------------------------------------
(* The page at rest.                                                        *)

Idle == [phase |-> "idle", output |-> [m \in Models |-> Blank], list |-> << >>, todo |-> {},
         refused |-> FALSE, deleted |-> {}, kept |-> {}]

\* The row an effect selects when the selected one is gone.
Reselect(list, m) ==
  IF m \in DOMAIN list THEN {m} ELSE IF DOMAIN list = {} THEN {NoModel} ELSE DOMAIN list

\* An effect of the page switches on the tier maps the selected model has.
Shown(list, m, on) ==
  IF m \in DOMAIN list
  THEN on \cup {k \in OptionalTierKeys : list[m].tier[k] # None}
  ELSE on

\* The part of the form that has not been edited since the maps were read.
Untouched == {m \in DOMAIN models : models[m] = buildModelState(m, options[m])}

PageInit ==
  /\ stored \in Stores
  /\ options = stored
  /\ models = BuildModels(stored)
  /\ pending = {} /\ checked = {}
  /\ selected \in Reselect(models, NoModel)
  /\ visible = Shown(models, selected, {})
  /\ save = Idle
  /\ stray = {} /\ own = TRUE /\ claimed = FALSE
  /\ edits = 0 /\ saves = 0 /\ faults = 0

\* The page can be used unless it is covered by the spinner of a reload.
Editing == save.phase # "refreshing" /\ edits < MaxEdits /\ edits' = edits + 1

UnchangedSave == UNCHANGED <<stored, options, save, stray, own, claimed, saves, faults>>

---------------------------------------------------------------------------
(* The list: selecting, ticking, adding and deleting rows.                  *)

Select(m) ==
  /\ Editing
  /\ m \in DOMAIN models \ {selected}
  /\ selected' = m
  /\ visible' = Shown(models, m, visible)
  /\ UnchangedSave /\ UNCHANGED <<models, pending, checked>>

Check(m) ==
  /\ Editing
  /\ m \in DOMAIN models
  /\ checked' = (checked \cup {m}) \ (checked \cap {m})
  /\ UnchangedSave /\ UNCHANGED <<models, pending, selected, visible>>

addModel(m) ==
  /\ Editing
  /\ m \in Models \ DOMAIN models
  /\ models' = [x \in DOMAIN models \cup {m} |-> IF x = m THEN EmptyModel ELSE models[x]]
  /\ selected' = m
  /\ visible' = Shown(models', m, visible)
  /\ UnchangedSave /\ UNCHANGED <<pending, checked>>

markModelForDelete(m) ==
  /\ Editing
  /\ m \in DOMAIN models \ pending
  /\ pending' = pending \cup {m}
  /\ checked' = checked \ {m}
  /\ UnchangedSave /\ UNCHANGED <<models, selected, visible>>

restorePendingDelete(m) ==
  /\ Editing
  /\ m \in pending
  /\ pending' = pending \ {m}
  /\ UnchangedSave /\ UNCHANGED <<models, selected, checked, visible>>

---------------------------------------------------------------------------
(* The form of the selected model.                                          *)

\* upsertModel: a change of the selected model's form.
Upsert(form) ==
  /\ Editing
  /\ models' = [models EXCEPT ![selected] = form]
  /\ UnchangedSave /\ UNCHANGED <<pending, selected, checked>>

Form == models[selected]

\* Typing an input price fills the empty prices the loaded ratios give.
fillDerivedPricesFromBase(f, base) ==
  LET Filled(k) ==
        IF k = "AudioCompletionRatio"
        THEN IF None \in {f.raw["AudioRatio"], f.raw[k]} THEN None
             ELSE formatNumber(RoundDiv(base * f.raw["AudioRatio"] * f.raw[k], Scale * Scale))
        ELSE Times(base, f.raw[k])
  IN [f EXCEPT !.price = [k \in PriceKeys |->
        IF k = "CompletionRatio" /\ f.lock # None THEN Times(base, f.lock)
        ELSE IF f.price[k] = None THEN Filled(k) ELSE f.price[k]]]

EditInput(v) ==
  /\ v # Form.input
  /\ LET f == [Form EXCEPT !.input = v]
     IN Upsert(IF v = None THEN f ELSE fillDerivedPricesFromBase(f, v))
  /\ UNCHANGED visible

\* The other prices can be typed once there is an input price; a locked
\* completion price cannot, and an audio output price needs the audio input one.
EditPrice(k, v) ==
  /\ Form.input # None /\ v # Form.price[k]
  /\ k = "CompletionRatio" => Form.lock = None
  /\ k = "AudioCompletionRatio" => Form.price["AudioRatio"] # None
  /\ Upsert([Form EXCEPT !.price[k] = v])
  /\ UNCHANGED visible

\* Switching an optional price off empties it, and the audio output with the input.
handleOptionalFieldToggle(k) ==
  /\ Form.price[k] # None
  /\ k = "CompletionRatio" => Form.lock = None
  /\ Upsert([Form EXCEPT !.price = [x \in PriceKeys |->
               IF x = k \/ (k = "AudioRatio" /\ x = "AudioCompletionRatio")
               THEN None ELSE @[x]]])
  /\ UNCHANGED visible

EditFixed(v) ==
  /\ v # Form.fixed
  /\ Upsert([Form EXCEPT !.fixed = v])
  /\ UNCHANGED visible

\* A tier table is edited where it is shown; the effect follows its change.
EditTier(k, v) ==
  /\ k \in OptionalTierKeys => k \in visible
  /\ v # Form.tier[k]
  /\ Upsert([Form EXCEPT !.tier[k] = v])
  /\ visible' = Shown(models', selected, visible)

clearAllTierRatios ==
  /\ \E k \in TierKeys : Form.tier[k] # None
  /\ Upsert([Form EXCEPT !.tier = [k \in TierKeys |-> None]])
  /\ UNCHANGED visible

\* A template replaces the tables and sets the switches to what it has; an
\* input table it lacks is left as it was.
applyTierTemplate(tpl) ==
  /\ Upsert([Form EXCEPT !.tier = [k \in TierKeys |->
               IF k = "ModelTierRatio" /\ tpl[k] = None THEN @[k] ELSE tpl[k]]])
  /\ visible' = {k \in OptionalTierKeys : tpl[k] # None}

SetVisible(k) ==
  /\ Editing
  /\ selected \in DOMAIN models
  /\ visible' = (visible \cup {k}) \ (visible \cap {k})
  /\ UnchangedSave /\ UNCHANGED <<models, pending, selected, checked>>

EditImageFixed(v) ==
  /\ v # Form.imageFixed
  /\ Upsert([Form EXCEPT !.imageFixed = v])
  /\ UNCHANGED visible

updateImageRuleRow(v) ==
  /\ v # Form.imageRow
  /\ Upsert([Form EXCEPT !.imageRow = v])
  /\ UNCHANGED visible

\* The switch of the per-image prices, turned off.
ClearImage ==
  /\ <<Form.imageFixed, Form.imageRow>> # <<None, None>>
  /\ Upsert([Form EXCEPT !.imageFixed = None, !.imageRow = None])
  /\ UNCHANGED visible

\* Another currency: what is shown is converted, through dollars.
handleImageGenPriceUnitChange(unit) ==
  LET Convert(v) ==
        IF v = None THEN None
        ELSE formatNumber(RoundDiv(v * RateOf(unit), RateOf(Form.unit)))
  IN /\ unit # Form.unit
     /\ Upsert([Form EXCEPT !.unit = unit, !.imageFixed = Convert(@), !.imageRow = Convert(@)])
     /\ UNCHANGED visible

\* The selected form is copied to the ticked rows; what the server fixed for
\* them, and the ratios they were loaded with, stay theirs.  byToken: the
\* selected row is shown as charged by tokens or tiers.
applySelectedModelPricing(byToken) ==
  LET Copy(m) ==
        LET f == [Form EXCEPT !.lock = models[m].lock, !.raw = models[m].raw]
        IN IF byToken /\ f.lock # None /\ f.input # None
           THEN [f EXCEPT !.price["CompletionRatio"] = Times(f.input, f.lock)]
           ELSE f
  IN /\ Editing
     /\ selected \in DOMAIN models /\ checked # {}
     /\ models' = [m \in DOMAIN models |-> IF m \in checked THEN Copy(m) ELSE models[m]]
     /\ visible' = IF selected \in checked THEN Shown(models', selected, visible) ELSE visible
     /\ UnchangedSave /\ UNCHANGED <<pending, selected, checked>>

---------------------------------------------------------------------------
(* Saving.                                                                  *)

\* handleSubmit: one write per map, all sent at once.
handleSubmit ==
  LET list == [m \in DOMAIN models \ pending |-> models[m]]
  IN /\ save.phase = "idle" /\ saves < MaxSaves
     /\ \A m \in DOMAIN list : ~Throws(list[m])
     /\ save' = [phase |-> "putting",
                 output |-> buildPricingOutputFromModels(list, visible),
                 list |-> list, todo |-> Writes, refused |-> FALSE, deleted |-> pending,
                 kept |-> Untouched \ pending]
     /\ saves' = saves + 1
     /\ claimed' = FALSE
     /\ UNCHANGED <<stored, options, models, pending, selected, checked, visible,
                    stray, own, edits, faults>>

\* UpdateOption: a write replaces whole maps.
Written(w, output) ==
  [m \in Models |-> [k \in Keys |-> IF k \in w THEN output[m][k] ELSE stored[m][k]]]

\* The server's answer to one write: done, or refused.
PutAnswered(w, ok) ==
  /\ save.phase = "putting" /\ w \in save.todo
  /\ faults' = IF ok THEN faults ELSE faults + 1
  /\ faults' <= MaxFaults
  /\ stored' = IF ok THEN Written(w, save.output) ELSE stored
  /\ LET rest == save.todo \ {w}
         refused == save.refused \/ ~ok
     IN save' = [save EXCEPT !.todo = rest, !.refused = refused,
                             !.phase = IF rest # {} THEN "putting"
                                       ELSE IF refused THEN "idle" ELSE "refreshing"]
  /\ UNCHANGED <<options, models, pending, selected, checked, visible, stray,
                 own, claimed, edits, saves>>

\* A write that gets no answer ends the save at once; the others stay on their way.
PutRejected(w) ==
  /\ save.phase = "putting" /\ w \in save.todo
  /\ faults < MaxFaults /\ faults' = faults + 1
  /\ stray' = stray \cup {<<x, save.output>> : x \in save.todo \ {w}}
  /\ save' = [save EXCEPT !.phase = "idle", !.todo = {}]
  /\ UNCHANGED <<stored, options, models, pending, selected, checked, visible,
                 own, claimed, edits, saves>>

StrayLands(w) ==
  /\ w \in stray
  /\ stored' = Written(w[1], w[2])
  /\ stray' = stray \ {w}
  /\ claimed' = FALSE
  /\ own' = FALSE
  /\ UNCHANGED <<options, models, pending, selected, checked, visible, save,
                 edits, saves, faults>>

\* The deleted rows are taken out of the list, every mark is cleared, and ticks
\* and selection move to rows that are left.
removeDeletedModelsFromState(list) ==
  /\ models' = [m \in DOMAIN list \ save.deleted |-> list[m]]
  /\ pending' = {}
  /\ checked' = checked \cap DOMAIN models'
  /\ selected' \in Reselect(models', selected)

\* The reload after the writes rebuilds the page from the maps.
RefreshDone ==
  /\ save.phase = "refreshing"
  /\ options' = stored
  /\ removeDeletedModelsFromState(BuildModels(stored))
  /\ visible' = Shown(models', selected', visible)
  /\ claimed' = (own /\ stray = {})
  /\ own' = TRUE
  /\ save' = [save EXCEPT !.phase = "idle"]
  /\ UNCHANGED <<stored, stray, edits, saves, faults>>

\* A reload that fails is reported and swallowed: the save still counts as done.
RefreshFailed ==
  /\ save.phase = "refreshing"
  /\ faults < MaxFaults /\ faults' = faults + 1
  /\ removeDeletedModelsFromState(models)
  /\ visible' = IF selected' = selected THEN visible ELSE Shown(models', selected', visible)
  /\ claimed' = (own /\ stray = {})
  /\ save' = [save EXCEPT !.phase = "idle"]
  /\ UNCHANGED <<stored, options, stray, own, edits, saves>>

---------------------------------------------------------------------------

EditList ==
  \E m \in Models :
    Select(m) \/ Check(m) \/ addModel(m) \/ markModelForDelete(m) \/ restorePendingDelete(m)

EditForm ==
  /\ selected \in DOMAIN models
  /\ \/ \E v \in Maybe(Typed) : EditInput(v) \/ EditFixed(v) \/ EditImageFixed(v)
                                \/ updateImageRuleRow(v)
     \/ \E k \in PriceKeys : handleOptionalFieldToggle(k) \/ \E v \in Maybe(Typed) : EditPrice(k, v)
     \/ \E k \in TierKeys, v \in TierRules : EditTier(k, v)
     \/ \E tpl \in Templates : applyTierTemplate(tpl)
     \/ \E unit \in Units : handleImageGenPriceUnitChange(unit)
     \/ \E k \in OptionalTierKeys : SetVisible(k)
     \/ \E byToken \in BOOLEAN : applySelectedModelPricing(byToken)
     \/ clearAllTierRatios
     \/ ClearImage

Answer ==
  \/ \E w \in Writes : PutRejected(w) \/ \E ok \in BOOLEAN : PutAnswered(w, ok)
  \/ RefreshDone
  \/ RefreshFailed

PageNext ==
  \/ EditList
  \/ EditForm
  \/ handleSubmit
  \/ Answer
  \/ \E w \in stray : StrayLands(w)

PageSpec == PageInit /\ [][PageNext]_pageVars

---------------------------------------------------------------------------
(* Properties.                                                              *)

\* The maps hold numbers or nothing, the page lists forms of known models, and
\* what is marked or ticked is on the list (markModelForDelete, rowSelection).
PageTypeOK ==
  /\ \A m \in Models : IsEntry(stored[m]) /\ IsEntry(options[m]) /\ IsEntry(save.output[m])
  /\ DOMAIN models \subseteq Models
  /\ \A m \in DOMAIN models :
       /\ \A k \in PriceKeys : models[m].price[k] \in Number
       /\ {models[m].input, models[m].fixed, models[m].imageFixed, models[m].imageRow}
            \subseteq Number
  /\ pending \subseteq DOMAIN models /\ checked \subseteq DOMAIN models
  /\ selected \in DOMAIN models \cup (IF DOMAIN models = {} THEN {NoModel} ELSE {})
  /\ visible \subseteq OptionalTierKeys
  /\ save.phase \in {"idle", "putting", "refreshing"}
  /\ save.todo # {} => save.phase = "putting"

\* The prices of tokens the maps of a model stand for.
TokenPrices(m, e) == <<ratioToBasePrice(e["ModelRatio"]), Prices(e, LockedRatio[m])>>

\* A ratio that is whole, or further from a whole number than what formatNumber
\* takes for whole after rounding once more.
Plain(r) ==
  LET off == IF r = None THEN 0 ELSE r % Scale
  IN off = 0 \/ (2 * Absorb <= off /\ off <= Scale - 2 * Absorb)

\* Applying changes never moves the token prices of a model that is on the page
\* as it was read and whose ratios are not almost whole: what
\* rounding does to a ratio on the way to a price and back is not seen in the
\* price, whichever of the maps are written already.  Models whose input price
\* is zero are out of it: nothing can be divided by it (serializeModel).
UntouchedPricesStay ==
  [][\A m \in save.kept :
       /\ save.phase = "putting" /\ own /\ own' /\ options[m]["ModelRatio"] # 0
       /\ \A k \in PriceKeys : Plain(options[m][k])
       /\ TokenPrices(m, stored[m]) = TokenPrices(m, options[m])
       => TokenPrices(m, stored'[m]) = TokenPrices(m, options[m])]_pageVars

Near(a, b, slack) ==
  IF None \in {a, b} THEN a = b ELSE a - b <= slack /\ b - a <= slack

\* What rounding a ratio, and taking almost whole ones for whole, may do to
\* a price with that base.
Slack(base) == (base * (Absorb + 1)) \div Scale + Absorb + 1

\* When a save is reported as done, the maps stand for the prices the page
\* showed when the button was pressed: to the digit for the input price, to
\* rounding for the prices derived from it and for a price per image, but for a
\* completion price the server fixes.  This holds though the page was edited on
\* while the maps were written, and though an earlier attempt wrote some maps
\* and failed (handleSubmit, serializeModel, and buildModelState, which shows
\* them again).
SavedAsShown ==
  claimed => \A m \in DOMAIN save.list :
    LET f == save.list[m]
        e == stored[m]
        price == Prices(e, f.lock)
    IN f.input \notin {None, 0} =>
         /\ ratioToBasePrice(e["ModelRatio"]) = f.input
         /\ \A k \in PriceKeys \ {"AudioCompletionRatio"} :
              (k = "CompletionRatio" => f.lock = None) => Near(price[k], f.price[k], Slack(f.input))
         /\ f.imageFixed # None =>
              Near(fromUSDToDisplay(e["ImagePrice"], f.unit), f.imageFixed, Rate * (Absorb + 1))

\* A model that was marked for deletion when the save began is in no map once
\* the save is reported as done, even after a failed attempt before it
\* (handleSubmit, buildPricingOutputFromModels).
DeletedIsGone ==
  claimed => \A m \in save.deleted : stored[m] = Blank

\* "Prices that are configured otherwise are kept and saved": a tier table
\* of a model that was not edited is still there when the save is done.
TiersAreKept ==
  [][\A m \in save.kept, k \in TierKeys :
       own /\ own' /\ stored[m][k] # None => stored'[m][k] # None]_pageVars

===========================================================================
