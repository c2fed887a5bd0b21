--------------------------- MODULE ComponentsProofs ---------------------------
(***************************************************************************)
(* The components that share a run are independent: what a behaviour of    *)
(* MCComponents shows of the variables of one is a behaviour of its own    *)
(* specification, so that the theorems about it hold of the run too, for   *)
(* every value of the constants and not only for the values of the run.    *)
(***************************************************************************)
EXTENDS MCComponents, JobSystemProofs, ClientProofs, ServerProofs

-----------------------------------------------------------------------------
\* All components begin in initial states.
LEMMA ComponentsBegin ==
  ComponentsInit => /\ SystemInit /\ InventoryInit /\ ItemsInit /\ HotbarInit
                    /\ PromptsInit /\ ViewsInit /\ BagInit /\ ClocksInit
BY DEF ComponentsInit

\* A step is one of a single component, and a stutter of the others.
LEMMA ComponentsStep ==
  [ComponentsNext]_allVars =>
    /\ [SystemNext]_systemVars /\ [InventoryNext]_inventoryVars
    /\ [ItemsNext]_itemVars /\ [HotbarNext]_hotbarVars /\ [PromptsNext]_promptVars
    /\ [ViewsNext]_viewVars /\ [BagNext]_bagVars /\ [ClocksNext]_clockVars
<1> SUFFICES ASSUME [ComponentsNext]_allVars
             PROVE  /\ [SystemNext]_systemVars /\ [InventoryNext]_inventoryVars
                    /\ [ItemsNext]_itemVars /\ [HotbarNext]_hotbarVars /\ [PromptsNext]_promptVars
                    /\ [ViewsNext]_viewVars /\ [BagNext]_bagVars /\ [ClocksNext]_clockVars
  OBVIOUS
<1>1. CASE ComponentsNext
  BY <1>1, Zenon DEF ComponentsNext
<1>2. CASE UNCHANGED allVars
  BY <1>2, Zenon DEF allVars
<1> QED
  BY <1>1, <1>2

\* A behaviour of the components is one of each of them.
THEOREM ComponentsAreThemselves ==
  ComponentsFairSpec =>
    /\ SystemSpec /\ InventorySpec /\ ItemsSpec /\ HotbarSpec
    /\ PromptsSpec /\ ViewsSpec /\ BagSpec /\ ClocksSpec
BY ComponentsBegin, ComponentsStep, PTL
   DEF ComponentsFairSpec, SystemSpec, InventorySpec, ItemsSpec, HotbarSpec, PromptsSpec,
       ViewsSpec, BagSpec, ClocksSpec

\* So every component keeps its types.
THEOREM ComponentsTypeCorrect == ComponentsFairSpec => []ComponentsTypeOK
BY ComponentsAreThemselves, SystemTypeCorrect, InventoryTyped, ItemsTypeCorrect,
   PromptsTypeCorrect, ViewsTypeCorrect, BagTypeCorrect, ClockTypeCorrect, PTL
   DEF ComponentsTypeOK

\* And what is said of the safety of each holds of the run.
THEOREM ComponentsSafe ==
  PlacesForAll /\ ComponentsFairSpec =>
    /\ [](PlaceForEveryQueue /\ NoJobDiesWithItsQueue /\ StoppedQueueHasFinished)
    /\ [](IndexesAgree /\ PlacesAgree /\ ViewsFollowTheirSource /\ CyclesAreWhole /\ DeltasAddUp)
    /\ StacksConserved /\ PromptsLeaveInTurn /\ PartsKeepTheirPromises
<1>1. CASE PlacesForAll
  <2>1. /\ SystemSpec => []NoJobDiesWithItsQueue
        /\ SystemSpec => []StoppedQueueHasFinished
    BY <1>1, NoJobDiesSafe, StoppedQueueSafe
  <2> QED
    BY <2>1, ComponentsAreThemselves, PlaceForEveryQueueSafe, IndexesStayInverse,
       PlacesAgreeSafe, ViewsFollowSafe, CyclesAreWholeSafe, DeltasAddUpSafe,
       StacksConservedSafe, PromptsLeaveInTurnSafe,
       PartsKeepTheirPromisesSafe, PTL
<1> QED
  BY <1>1
=============================================================================
