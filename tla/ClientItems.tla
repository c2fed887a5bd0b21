------------------------------ MODULE ClientItems ------------------------------
(***************************************************************************)
(* The item containers of the client (client/Private/Inventory): inventory *)
(* list, storage tabs, equipment, consumable quick slots, and the skill    *)
(* hotbar beside them. The items are shared objects, each with a Count and *)
(* a Location, which the containers update as they take them and let go.   *)
(*                                                                         *)
(* Callers are blueprints. As the containers take and return pointers and  *)
(* never ask where an item comes from, a caller is assumed to add only     *)
(* items that no container holds and of which there is something left.     *)
(***************************************************************************)
EXTENDS Naturals, FiniteSets, FiniteSetsExt

CONSTANTS
  Items, NoItem,
  Kind,            \* Kind[i] : what CanStackWith compares
  MaxStack,        \* MaxStack[k] : StaticData.MaxStackCount, at least 1
  InitialCounts,   \* the counts to begin with, 0 for an item that is not in play
  Shareable,       \* the kinds with bCanUseSharedStorage
  EquipSlot,       \* EquipSlot[k], or NoSlot
  QuickKinds,      \* consumables with a MaxStackCount of at most 5
  Capacities,      \* the capacity of each storage tab
  EquipSlots, QuickSlots, NoSlot,
  Skills, NoSkill,
  Weapons, NoWeapon,
  Required,        \* Required[s] : a weapon, or NoWeapon
  IdentitySkills,
  ActiveSlots, IdentitySlot

Kinds   == DOMAIN MaxStack
Tabs    == DOMAIN Capacities
SlotsOf(t) == {<<t, n>> : n \in 1 .. Capacities[t]}
Slots   == UNION {SlotsOf(t) : t \in Tabs}
HotSlots == ActiveSlots \cup {IdentitySlot}

ASSUME ItemsAssumption ==
  /\ IsFiniteSet(Items) /\ NoItem \notin Items
  /\ NoSkill \notin Skills
  /\ \A k \in Kinds : MaxStack[k] \in Nat \ {0}
  /\ \A i \in Items : Kind[i] \in Kinds
  /\ InitialCounts \subseteq [Items -> Nat]
  /\ \A n \in InitialCounts : \A i \in Items : n[i] <= MaxStack[Kind[i]]
  /\ \A t \in Tabs : Capacities[t] \in Nat
  /\ IdentitySkills \subseteq Skills /\ IdentitySlot \notin ActiveSlots

VARIABLES
  count,     \* RuntimeData.Count of each item
  place,     \* RuntimeData.Location, without the fields its StorageKind ignores
  bag,       \* ClientInventoryComponent::Items
  storage,   \* ClientStorageComponent::Tabs
  worn,      \* ClientEquipmentComponent::EquippedItems
  quick,     \* ClientConsumableQuickSlotComponent::SlotItems
  weapon,    \* ClientSkillHotbarComponent::EquippedWeaponType
  bindings   \* ClientSkillHotbarComponent::SlotBindings

containers == <<bag, storage, worn, quick>>
hotbarVars == <<weapon, bindings>>
itemVars   == <<count, place, containers>>

Nowhere == <<"None">>
InInventory == <<"Inventory">>
InStorage(s) == <<"SharedStorage", s>>
InEquipment(e) == <<"Equipment", e>>
InQuickSlot(q) == <<"ConsumableQuickSlot", q>>

Held == bag \cup {storage[s] : s \in Slots} \cup {worn[e] : e \in EquipSlots}
            \cup {quick[q] : q \in QuickSlots}

\* What a caller may add.
Loose(i) == i \notin Held /\ count[i] > 0

-----------------------------------------------------------------------------
(* Stacks. The functions below take the counts and give the new ones.        *)

\* SetCount
Clamped(i, n) == Min({n, MaxStack[Kind[i]]})

\* TryStackIntoExisting and TryStackIntoSlot take a stack of the same kind
\* that has room.
TakesFrom(n, to, from) ==
  /\ Kind[to] = Kind[from]
  /\ MaxStack[Kind[to]] > 1
  /\ n[to] < MaxStack[Kind[to]]

\* Slip: the whole stack is moved and SetCount cuts what does not fit.
MoveCountAll(room, n) == n

MoveCount(room, n) == Min({room, n})

Merged(n, to, from) ==
  IF ~TakesFrom(n, to, from) THEN n
  ELSE LET m     == MoveCount(MaxStack[Kind[to]] - n[to], n[from])
           grown == [n EXCEPT ![to] = Clamped(to, @ + m)]
       IN [grown EXCEPT ![from] = Clamped(from, @ - m)]

-----------------------------------------------------------------------------
(* ClientInventoryComponent                                                  *)

\* The list is sorted by what the items of a kind have in common and the sort
\* is not stable: which of their stacks comes first is left open.
AddItem(i) ==
  /\ Loose(i)
  /\ \E n \in IF \E x \in bag : TakesFrom(count, x, i)
              THEN {Merged(count, x, i) : x \in {y \in bag : TakesFrom(count, y, i)}}
              ELSE {count} :
       /\ count' = n
       /\ IF n[i] = 0 THEN UNCHANGED <<bag, place>>
          ELSE /\ bag' = bag \cup {i}
               /\ place' = [place EXCEPT ![i] = InInventory]
  /\ UNCHANGED <<storage, worn, quick>>

RemoveItemByKey(i) ==
  /\ i \in bag
  /\ bag' = bag \ {i}
  /\ place' = [place EXCEPT ![i] = Nowhere]
  /\ UNCHANGED <<count, storage, worn, quick>>

-----------------------------------------------------------------------------
(* ClientStorageComponent                                                    *)

PouredInto(n, s, i) == IF storage[s] = NoItem THEN n ELSE Merged(n, storage[s], i)

\* The counts after item i has been poured over the slots of tab t in turn.
Poured(i, t) ==
  LET after[k \in 0 .. Capacities[t]] ==
        IF k = 0 THEN count ELSE PouredInto(after[k - 1], <<t, k>>, i)
  IN  after[Capacities[t]]

FreeIn(t) == {k \in 1 .. Capacities[t] : storage[<<t, k>>] = NoItem}

AssignItemToSlot(i, s) ==
  /\ storage' = [storage EXCEPT ![s] = i]
  /\ place' = [place EXCEPT ![i] = InStorage(s)]

\* preferred is 0 for INDEX_NONE. Without a free slot the answer is false, yet
\* part of the stack may have gone into others.
AddItemToTab(i, t, preferred) ==
  /\ Loose(i) /\ Kind[i] \in Shareable
  /\ count' = Poured(i, t)
  /\ IF count'[i] = 0 \/ FreeIn(t) = {} THEN UNCHANGED <<storage, place>>
     ELSE AssignItemToSlot(i, <<t, IF preferred \in FreeIn(t) THEN preferred
                                   ELSE Min(FreeIn(t))>>)
  /\ UNCHANGED <<bag, worn, quick>>

\* Slip: an emptied stack stays in its slot.
ClearedIfSwapped(slots, n, from) == slots

\* ClearSlot of a source whose count has become 0.
ClearedIfEmptied(slots, n, from) ==
  IF n[slots[from]] = 0 THEN [slots EXCEPT ![from] = NoItem] ELSE slots

MoveOnto(from, to) ==
  LET source == storage[from]
      target == storage[to] IN
  /\ source # NoItem /\ target # NoItem
  /\ Kind[target] = Kind[source] /\ MaxStack[Kind[target]] > 1
  /\ count' = Merged(count, target, source)
  /\ storage' = ClearedIfEmptied(storage, count', from)
  /\ place' = IF count'[source] = 0 THEN [place EXCEPT ![source] = Nowhere] ELSE place
  /\ UNCHANGED <<bag, worn, quick>>

\* Slip: what was in the target slot keeps its location.
SwappedKeepsPlace(p, i, s) == p

\* The displaced item is told where it is now; without one the source slot is
\* cleared.
SwappedPlace(p, i, s) == IF i = NoItem THEN p ELSE [p EXCEPT ![i] = InStorage(s)]

MoveSwap(from, to) ==
  LET source == storage[from]
      target == storage[to] IN
  /\ source # NoItem
  /\ target # NoItem => Kind[target] # Kind[source] \/ MaxStack[Kind[target]] = 1
  /\ storage' = [storage EXCEPT ![to] = source, ![from] = target]
  /\ place' = SwappedPlace([place EXCEPT ![source] = InStorage(to)], target, from)
  /\ UNCHANGED <<count, bag, worn, quick>>

RemoveItem(s) ==
  /\ storage[s] # NoItem
  /\ storage' = [storage EXCEPT ![s] = NoItem]
  /\ place' = [place EXCEPT ![storage[s]] = Nowhere]
  /\ UNCHANGED <<count, bag, worn, quick>>

-----------------------------------------------------------------------------
(* ClientEquipmentComponent and ClientConsumableQuickSlotComponent           *)

Unequipped(e) ==
  IF worn[e] = NoItem THEN place ELSE [place EXCEPT ![worn[e]] = Nowhere]

\* EquipItem is the same call without its result, the previous item.
SwapEquipItem(i, e) ==
  /\ Loose(i) /\ EquipSlot[Kind[i]] = e
  /\ worn' = [worn EXCEPT ![e] = i]
  /\ place' = [Unequipped(e) EXCEPT ![i] = InEquipment(e)]
  /\ UNCHANGED <<count, bag, storage, quick>>

UnequipItem(e) ==
  /\ worn' = [worn EXCEPT ![e] = NoItem]
  /\ place' = Unequipped(e)
  /\ UNCHANGED <<count, bag, storage, quick>>

\* An item that is replaced keeps the location that it had.
AssignConsumable(i, q) ==
  /\ Loose(i) /\ Kind[i] \in QuickKinds
  /\ quick' = [quick EXCEPT ![q] = i]
  /\ place' = [place EXCEPT ![i] = InQuickSlot(q)]
  /\ UNCHANGED <<count, bag, storage, worn>>

ClearQuickSlot(q) ==
  /\ quick[q] # NoItem
  /\ quick' = [quick EXCEPT ![q] = NoItem]
  /\ place' = [place EXCEPT ![quick[q]] = Nowhere]
  /\ UNCHANGED <<count, bag, storage, worn>>

ConsumeFromSlot(q) ==
  LET i == quick[q] IN
  /\ i # NoItem /\ count[i] > 0
  /\ count' = [count EXCEPT ![i] = @ - 1]
  /\ quick' = IF count'[i] = 0 THEN [quick EXCEPT ![q] = NoItem] ELSE quick
  /\ UNCHANGED <<place, bag, storage, worn>>

-----------------------------------------------------------------------------
(* ClientSkillHotbarComponent                                                *)

SetEquippedWeaponType(w) ==
  /\ weapon' = w
  /\ UNCHANGED bindings

CanRegisterSkillToSlot(s, h) ==
  IF s \in IdentitySkills THEN h = IdentitySlot
  ELSE h \in ActiveSlots /\ (Required[s] = NoWeapon \/ weapon \in {NoWeapon, Required[s]})

RegisterSkillToSlot(s, h) ==
  /\ CanRegisterSkillToSlot(s, h)
  /\ bindings' = [x \in HotSlots |-> IF x = h THEN s
                                     ELSE IF bindings[x] = s THEN NoSkill ELSE bindings[x]]
  /\ UNCHANGED weapon

ClearHotSlot(h) ==
  /\ bindings[h] # NoSkill
  /\ bindings' = [bindings EXCEPT ![h] = NoSkill]
  /\ UNCHANGED weapon

-----------------------------------------------------------------------------
\* The tabs are made once, by InitializeStorage.
ItemsInit ==
  /\ count \in InitialCounts
  /\ place = [i \in Items |-> Nowhere]
  /\ bag = {}
  /\ storage = [s \in Slots |-> NoItem]
  /\ worn = [e \in EquipSlots |-> NoItem]
  /\ quick = [q \in QuickSlots |-> NoItem]

HotbarInit ==
  /\ weapon = NoWeapon
  /\ bindings = [h \in HotSlots |-> NoSkill]

ItemsNext ==
  \/ \E i \in Items :
       \/ AddItem(i)
       \/ RemoveItemByKey(i)
       \/ \E t \in Tabs : \E n \in 0 .. Capacities[t] : AddItemToTab(i, t, n)
       \/ \E e \in EquipSlots : SwapEquipItem(i, e)
       \/ \E q \in QuickSlots : AssignConsumable(i, q)
  \/ \E s1, s2 \in Slots : MoveOnto(s1, s2) \/ MoveSwap(s1, s2)
  \/ \E s \in Slots : RemoveItem(s)
  \/ \E e \in EquipSlots : UnequipItem(e)
  \/ \E q \in QuickSlots : ClearQuickSlot(q) \/ ConsumeFromSlot(q)

HotbarNext ==
  \/ \E w \in Weapons \cup {NoWeapon} : SetEquippedWeaponType(w)
  \/ \E s \in Skills, h \in HotSlots : RegisterSkillToSlot(s, h)
  \/ \E h \in HotSlots : ClearHotSlot(h)

ItemsSpec == ItemsInit /\ [][ItemsNext]_itemVars
HotbarSpec == HotbarInit /\ [][HotbarNext]_hotbarVars

-----------------------------------------------------------------------------
\* Counts within the stack limits, containers with items in them.
ItemsTypeOK ==
  /\ \A i \in Items : count[i] \in 0 .. MaxStack[Kind[i]]
  /\ place \in [Items -> {Nowhere, InInventory}
                           \cup {InStorage(s) : s \in Slots}
                           \cup {InEquipment(e) : e \in EquipSlots}
                           \cup {InQuickSlot(q) : q \in QuickSlots}]
  /\ bag \subseteq Items
  /\ storage \in [Slots -> Items \cup {NoItem}]
  /\ worn \in [EquipSlots -> Items \cup {NoItem}]
  /\ quick \in [QuickSlots -> Items \cup {NoItem}]
  /\ weapon \in Weapons \cup {NoWeapon}
  /\ bindings \in [HotSlots -> Skills \cup {NoSkill}]

Total(n, k) == MapThenSumSet(LAMBDA i : n[i], {i \in Items : Kind[i] = k})

\* Merging, moving, swapping and refusing neither make nor lose a piece: the
\* number of pieces of a kind falls only when one is consumed out of a quick
\* slot, by that one. Stacks are cut and joined in three places, each of which
\* computes what fits, and the clamp of SetCount would hide a miscalculation.
StacksConserved ==
  [][count' # count => \A k \in Kinds :
       \/ Total(count', k) = Total(count, k)
       \/ \E q \in QuickSlots :
            /\ quick[q] # NoItem /\ Kind[quick[q]] = k
            /\ count' = [count EXCEPT ![quick[q]] = @ - 1]]_itemVars

\* Location and containers tell the same story: an item is where its location
\* says, in one container only, and no container holds an empty stack. Excepted
\* are items that were replaced in, or consumed out of, a quick slot, whose
\* location goes on naming it. A skill is in one slot of the hotbar, and an
\* identity skill in the identity slot.
PlacesAgree ==
  /\ NoItem \notin bag
  /\ \A i \in Items :
       /\ i \in bag <=> place[i] = InInventory
       /\ \A s \in Slots : storage[s] = i <=> place[i] = InStorage(s)
       /\ \A e \in EquipSlots : worn[e] = i <=> place[i] = InEquipment(e)
       /\ \A q \in QuickSlots : quick[q] = i => place[i] = InQuickSlot(q)
  /\ \A i \in Held \ {NoItem} : count[i] > 0
  /\ \A g, h \in HotSlots : bindings[g] = bindings[h] /\ bindings[g] # NoSkill => g = h
  /\ \A h \in HotSlots : bindings[h] \in IdentitySkills <=> h = IdentitySlot /\ bindings[h] # NoSkill
=============================================================================
