--------------------------- MODULE ServerInventory ---------------------------
(***************************************************************************)
(* The two-index inventory of the game server (inventory.h, inventory.cpp):*)
(* repo1_ owns a datum for every entity, repo2_ lists the data of each     *)
(* content id, and every datum remembers its place in that list so that it *)
(* can be taken out by a swap with the last one. An item is known by its   *)
(* content id; Delete(item) is Delete of its entity id.                    *)
(***************************************************************************)
EXTENDS Naturals, Sequences, SequencesExt

CONSTANTS
  EntityIds,
  ContentIds

VARIABLES
  repo1,   \* EntityId -> Datum, the Item being its content id
  repo2    \* ContentId -> list of data, each named by the key of repo1 it has

inventoryVars == <<repo1, repo2>>

\* repo2_[c] makes an empty list where there is none.
ListOf(c) == IF c \in DOMAIN repo2 THEN repo2[c] ELSE <<>>

\* repo2_[c] = list
Put(c, list) == [k \in DOMAIN repo2 \cup {c} |-> IF k = c THEN list ELSE repo2[k]]

-----------------------------------------------------------------------------
\* Slips: the place of the last one so far; the place read after the list grew.
NextPlaceTaken(c) == Len(ListOf(c))

\* The place is the length of the list before it grows.
NextPlace(c) == Len(ListOf(c)) + 1

InsertNew(e, c) ==
  /\ e \notin DOMAIN repo1
  /\ repo1' = [x \in DOMAIN repo1 \cup {e} |->
                 IF x = e THEN [content |-> c, slot |-> NextPlace(c)] ELSE repo1[x]]
  /\ repo2' = Put(c, Append(ListOf(c), e))

\* emplace finds the entity id taken. The list of c was looked up before, which
\* may have made it, and stays.
InsertDuplicate(e, c) ==
  /\ e \in DOMAIN repo1
  /\ repo2' = Put(c, ListOf(c))
  /\ UNCHANGED repo1

-----------------------------------------------------------------------------
\* Slip: the datum that moves keeps its old place.
MovedKeepsPlace(d, slot) == d

\* bucket[slotIndex]->slotIndex = slotIndex
Moved(d, slot) == [d EXCEPT !.slot = slot]

\* extract and DeleteFromRepo2: the last datum of the list takes the place of
\* the one that goes; an empty list goes too.
DeleteFound(e) ==
  /\ e \in DOMAIN repo1
  /\ LET c    == repo1[e].content
         i    == repo1[e].slot
         last == Last(repo2[c])
         list == Front([repo2[c] EXCEPT ![i] = last])
     IN /\ repo1' = [x \in DOMAIN repo1 \ {e} |->
                       IF x = last THEN Moved(repo1[x], i) ELSE repo1[x]]
        /\ repo2' = IF list = <<>>
                    THEN [k \in DOMAIN repo2 \ {c} |-> repo2[k]]
                    ELSE Put(c, list)

DeleteMissing(e) ==
  /\ e \notin DOMAIN repo1
  /\ UNCHANGED inventoryVars

-----------------------------------------------------------------------------
InventoryInit ==
  /\ repo1 = [e \in {} |-> {}]
  /\ repo2 = [c \in {} |-> <<>>]

InventoryNext ==
  \E e \in EntityIds :
    \/ \E c \in ContentIds : InsertNew(e, c) \/ InsertDuplicate(e, c)
    \/ DeleteFound(e)
    \/ DeleteMissing(e)

InventorySpec == InventoryInit /\ [][InventoryNext]_inventoryVars

-----------------------------------------------------------------------------
\* Both indexes are maps from identifiers to what inventory.h declares.
InventoryTypeOK ==
  /\ DOMAIN repo1 \subseteq EntityIds
  /\ \A e \in DOMAIN repo1 : repo1[e] \in [content : ContentIds, slot : Nat \ {0}]
  /\ DOMAIN repo2 \subseteq ContentIds
  /\ \A c \in DOMAIN repo2 : repo2[c] \in Seq(EntityIds)

\* What the assertions of DeleteFromRepo2 demand of every datum that may be
\* deleted: its list exists and has it at the place it remembers.
DatumIsWhereItSays ==
  \A e \in DOMAIN repo1 :
    LET c == repo1[e].content
        i == repo1[e].slot
    IN c \in DOMAIN repo2 /\ i <= Len(repo2[c]) /\ repo2[c][i] = e

\* No list holds a pointer to a datum that repo1_ has destroyed, nor one twice
\* or of another content id.
NoDanglingDatum ==
  \A c \in DOMAIN repo2 : \A i \in 1 .. Len(repo2[c]) :
    LET e == repo2[c][i] IN
    e \in DOMAIN repo1 /\ repo1[e] = [content |-> c, slot |-> i]

\* The two indexes are inverse to each other.
IndexesAgree == DatumIsWhereItSays /\ NoDanglingDatum
=============================================================================
