-------------------------------- MODULE BagDraw --------------------------------
(***************************************************************************)
(* BagDraw<T> (server/lib, utils/game_random.h): a bag with each value as  *)
(* often as its weight, shuffled by an engine that a seed determines, drawn*)
(* to its end, then filled and shuffled again under a new seed. A bag can  *)
(* be saved as three numbers and built again from them, with equal weights.*)
(***************************************************************************)
EXTENDS Integers, Sequences, FiniteSets, SequencesExt

CONSTANTS
  WeightedItems,   \* m_weightedItems, a list of [value, weight]
  Seeds,           \* what MakeSeed may return
  Shuffle(_, _),   \* Shuffle(s, list): the first shuffle of an engine seeded with s
  NotSaved

\* refill_bag
Filled == FoldLeft(LAMBDA list, item : list \o [n \in 1 .. item.weight |-> item.value],
                   <<>>, WeightedItems)

Weight(v) == FoldLeft(LAMBDA sum, item : IF item.value = v /\ item.weight > 0
                                         THEN sum + item.weight ELSE sum,
                      0, WeightedItems)

\* Weights are ints. The constructors throw when nothing is filled in. std::shuffle permutes.
ASSUME BagAssumption ==
  /\ WeightedItems \in Seq(ToSet(WeightedItems))
  /\ \A item \in ToSet(WeightedItems) : item.weight \in Int
  /\ Filled # <<>>
  /\ \A s \in Seeds : \E p \in Bijection(DOMAIN Filled, DOMAIN Filled) :
       Shuffle(s, Filled) = [n \in DOMAIN Filled |-> Filled[p[n]]]

VARIABLES
  drawBag,    \* m_bag
  seed,       \* m_seed
  index,      \* m_index
  saved,      \* the last BagDrawState
  drawn,      \* history: the draws since the cycle began
  savedDrawn  \* history: drawn when the state was saved

bagVars == <<drawBag, seed, index, saved, drawn, savedDrawn>>

\* Slip: the engine is seeded anew and m_seed forgotten.
KeepsSeed(s) == seed' = seed

TakesSeed(s) == seed' = s

DrawRest ==
  /\ index < Len(drawBag)
  /\ index' = index + 1
  /\ drawn' = Append(drawn, drawBag[index + 1])
  /\ UNCHANGED <<drawBag, seed, saved, savedDrawn>>

\* start_new_cycle and the first draw from it
DrawNewCycle(s) ==
  /\ index >= Len(drawBag)
  /\ TakesSeed(s)
  /\ drawBag' = Shuffle(s, Filled)
  /\ index' = 1
  /\ drawn' = <<drawBag'[1]>>
  /\ UNCHANGED <<saved, savedDrawn>>

SaveState ==
  /\ saved' = [seed |-> seed, bag_size |-> Len(drawBag), index |-> index]
  /\ savedDrawn' = drawn
  /\ UNCHANGED <<drawBag, seed, index, drawn>>

\* The saved state of a bag that is used up is refused with an exception.
Restores(state) == state.bag_size = Len(Filled) /\ state.index \in 0 .. state.bag_size - 1

\* The bag is lost, and a new one made from the saved state.
Restore ==
  /\ saved # NotSaved
  /\ Restores(saved)
  /\ seed' = saved.seed
  /\ drawBag' = Shuffle(saved.seed, Filled)
  /\ index' = saved.index
  /\ drawn' = savedDrawn
  /\ UNCHANGED <<saved, savedDrawn>>

-----------------------------------------------------------------------------
BagInit ==
  /\ seed \in Seeds
  /\ drawBag = Shuffle(seed, Filled)
  /\ index = 0
  /\ saved = NotSaved
  /\ drawn = <<>> /\ savedDrawn = <<>>

BagNext ==
  \/ DrawRest
  \/ \E s \in Seeds : DrawNewCycle(s)
  \/ SaveState \/ Restore

BagSpec == BagInit /\ [][BagNext]_bagVars

-----------------------------------------------------------------------------
BagTypeOK ==
  /\ drawBag \in Seq(ToSet(Filled))
  /\ seed \in Seeds
  /\ index \in 0 .. Len(drawBag)
  /\ saved = NotSaved \/ saved \in [seed : Seeds, bag_size : {Len(Filled)}, index : 0 .. Len(Filled)]
  /\ drawn \in Seq(ToSet(Filled)) /\ savedDrawn \in Seq(ToSet(Filled))

\* Saving a bag and going on with the restored one is not seen in the draws: in
\* whichever cycle it was saved, and however often, the draws of the cycle
\* and what is left of the bag hold each value as often as its weight.
CyclesAreWhole ==
  \A v \in ToSet(Filled) :
    Cardinality({n \in 1 .. Len(drawn) : drawn[n] = v})
      + Cardinality({n \in index + 1 .. Len(drawBag) : drawBag[n] = v}) = Weight(v)
=============================================================================
