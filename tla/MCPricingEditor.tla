-------------------------- MODULE MCPricingEditor --------------------------
EXTENDS PricingEditor

CONSTANTS m1, m2

Entry(ratio, completion, audio, audioOut, fixed, row, tier) ==
  [Blank EXCEPT !["ModelRatio"] = ratio, !["CompletionRatio"] = completion,
                !["AudioRatio"] = audio, !["AudioCompletionRatio"] = audioOut,
                !["ModelPrice"] = fixed, !["CompletionTierRatio"] = tier,
                !["ImagePricingRules"] =
                  IF row = None THEN NoRules ELSE [unit |-> "USD", row |-> row]]

\* The server fixes the completion ratio of m2 at 2.5.
MCLocked == [m \in Models |-> IF m = m2 THEN 2500 ELSE None]

\* A cheap model, whose ratios rounding moves, with and without audio prices;
\* a dear one with a price per call and one per image; tiers; an empty row.
Cheap == Entry(20, 333, None, None, None, None, None)
Audio == Entry(350, 1333, 333, 167, None, None, 1)
Dear == Entry(1500, 333, 67, 1333, 60, 400, None)

MCStores ==
  { [m \in Models |-> IF m = m1 THEN p[1] ELSE p[2]] :
      p \in {<<Cheap, Audio>>, <<Dear, Blank>>} }

\* The order of the input ratio and the ratios derived from it is kept open.
MCWrites == {{"ModelRatio"}, RatioKeys \ {"ModelRatio"}, Keys \ RatioKeys}

MCTemplates ==
  { [k \in TierKeys |-> IF k = "ModelTierRatio" THEN 2 ELSE None],
    [k \in TierKeys |-> IF k = "ModelTierRatio" THEN None ELSE 2] }
=============================================================================
