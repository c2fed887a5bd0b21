----------------------------- MODULE MCComponents -----------------------------
(***************************************************************************)
(* Instances of the components that are small enough to share one run:     *)
(* which of them a behaviour is about is chosen in its initial state, and  *)
(* the variables of the others keep their values.                          *)
(***************************************************************************)
EXTENDS JobSystem, ServerInventory, ClientItems, ClientPrompts, ClientViews,
        BagDraw, Clocks

VARIABLE component

-----------------------------------------------------------------------------
(* Values of constants that a .cfg cannot write                              *)

\* Two jobs that post themselves for ever, on two queues; a job posted by the
\* timer to the first that posts one to a third queue, which stops the second.
MCHome    == ("loop1" :> "q1") @@ ("loop2" :> "q2") @@ ("ask" :> "q1") @@ ("quit" :> "q3")
MCFollows == ("loop1" :> "loop1") @@ ("loop2" :> "loop2")
             @@ ("ask" :> "quit") @@ ("quit" :> NoJob)
MCStops   == [j \in Jobs |-> IF j = "quit" THEN "q2" ELSE NoQueue]

\* Three stacks of potions, or two stacks and two rings.
MCKind     == [i \in Items |-> IF i \in {"r1", "r2"} THEN "ring" ELSE "potion"]
MCMaxStack == ("potion" :> 2) @@ ("ring" :> 1)
MCInitialCounts ==
  {("p1" :> 1) @@ ("p2" :> 2) @@ ("p3" :> 2) @@ ("r1" :> 0) @@ ("r2" :> 0),
   ("p1" :> 1) @@ ("p2" :> 2) @@ ("p3" :> 0) @@ ("r1" :> 1) @@ ("r2" :> 1)}
MCEquipSlot == ("potion" :> NoSlot) @@ ("ring" :> "RingLeft")
MCCapacities == <<2, 1>>
MCRequired == ("slash" :> "sword") @@ ("roll" :> NoWeapon) @@ ("rage" :> NoWeapon)

\* Two values, one of them twice; seeds that give different orders.
MCWeightedItems == <<[value |-> "a", weight |-> 2], [value |-> "none", weight |-> 0],
                     [value |-> "b", weight |-> 1]>>
MCShuffle(s, list) == CASE s = 1 -> list
                        [] s = 2 -> Tail(list) \o <<Head(list)>>
                        [] s = 3 -> <<Last(list)>> \o Front(list)

\* An inventory view and two equipment views, with two containers of each type.
MCSourcesOf == [v \in Views |-> IF v = "bag" THEN {"items1", "items2"} ELSE {"worn1", "worn2"}]
MCOwnSource == [v \in Views |-> IF v = "bag" THEN "items1" ELSE "worn1"]

-----------------------------------------------------------------------------
allVars == <<component, systemVars, inventoryVars, itemVars, hotbarVars, promptVars, viewVars,
             bagVars, clockVars>>

ComponentsInit ==
  /\ component \in {"system", "inventory", "items", "hotbar", "prompts", "views", "bag", "clock"}
  /\ SystemInit /\ InventoryInit /\ ItemsInit /\ HotbarInit /\ PromptsInit
  /\ ViewsInit /\ BagInit /\ ClocksInit
  /\ component # "items" => count["r1"] = 0
  /\ component # "prompts" => widget = "toast"
  /\ component # "bag" => seed = 1
  /\ component # "clock" => clock = "manual"

Only(c) == component = c /\ UNCHANGED component

ComponentsNext ==
  \/ /\ Only("system") /\ SystemNext
     /\ UNCHANGED <<inventoryVars, itemVars, hotbarVars, promptVars, viewVars, bagVars, clockVars>>
  \/ /\ Only("inventory") /\ InventoryNext
     /\ UNCHANGED <<systemVars, itemVars, hotbarVars, promptVars, viewVars, bagVars, clockVars>>
  \/ /\ Only("items") /\ ItemsNext
     /\ UNCHANGED <<systemVars, inventoryVars, hotbarVars, promptVars, viewVars, bagVars, clockVars>>
  \/ /\ Only("hotbar") /\ HotbarNext
     /\ UNCHANGED <<systemVars, inventoryVars, itemVars, promptVars, viewVars, bagVars, clockVars>>
  \/ /\ Only("prompts") /\ PromptsNext
     /\ UNCHANGED <<systemVars, inventoryVars, itemVars, hotbarVars, viewVars, bagVars, clockVars>>
  \/ /\ Only("views") /\ ViewsNext
     /\ UNCHANGED <<systemVars, inventoryVars, itemVars, hotbarVars, promptVars, bagVars,
                    clockVars>>
  \/ /\ Only("bag") /\ BagNext
     /\ UNCHANGED <<systemVars, inventoryVars, itemVars, hotbarVars, promptVars, viewVars, clockVars>>
  \/ /\ Only("clock") /\ ClocksNext
     /\ UNCHANGED <<systemVars, inventoryVars, itemVars, hotbarVars, promptVars, viewVars, bagVars>>

\* The sequential components promise nothing about progress; the composed job
\* system has its own fairness, which the others meet by stuttering.
ComponentsFairSpec ==
  ComponentsInit /\ [][ComponentsNext]_allVars /\ SystemFairness

-----------------------------------------------------------------------------
\* The type invariants of the components.
ComponentsTypeOK ==
  /\ SystemTypeOK /\ InventoryTypeOK /\ ItemsTypeOK /\ PromptsTypeOK
  /\ ViewsTypeOK /\ BagTypeOK /\ ClocksTypeOK
=============================================================================
