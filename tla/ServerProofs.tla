----------------------------- MODULE ServerProofs -----------------------------
(***************************************************************************)
(* Theorems about the sequential parts of the server: its inventory, the   *)
(* clocks and the bag draw of its library, for any entities, contents,     *)
(* widths, weights, shuffles and sequences of calls.                       *)
(***************************************************************************)
EXTENDS ServerInventory, Clocks, BagDraw, FiniteSetTheorems, SequenceTheorems,
        WellFoundedInduction, TLAPS

-----------------------------------------------------------------------------
(* ServerInventory                                                           *)

IndexInv == InventoryTypeOK /\ DatumIsWhereItSays /\ NoDanglingDatum

\* An inventory starts without data and without lists.
LEMMA IndexInit == InventoryInit => IndexInv
  BY DEF InventoryInit, IndexInv, InventoryTypeOK, DatumIsWhereItSays, NoDanglingDatum

\* The list that a content id has, or that repo2_[c] makes for it, is a list of
\* entity ids, and every place in it is the one its datum remembers.
LEMMA ListOfContent ==
  ASSUME IndexInv, NEW c \in ContentIds
  PROVE  /\ ListOf(c) \in Seq(EntityIds)
         /\ Len(ListOf(c)) \in Nat
         /\ \A i \in 1 .. Len(ListOf(c)) :
              /\ ListOf(c)[i] \in DOMAIN repo1
              /\ repo1[ListOf(c)[i]] = [content |-> c, slot |-> i]
  BY DEF IndexInv, InventoryTypeOK, NoDanglingDatum, ListOf

\* Insert of a new entity id puts the datum at the place that it remembers, and
\* moves no other.
LEMMA InsertNewKeeps ==
  ASSUME IndexInv, NEW e \in EntityIds, NEW c \in ContentIds, InsertNew(e, c)
  PROVE  IndexInv'
<1> DEFINE old == ListOf(c)
           new == Append(old, e)
<1>1. /\ old \in Seq(EntityIds)
      /\ Len(old) \in Nat
      /\ \A i \in 1 .. Len(old) :
           old[i] \in DOMAIN repo1 /\ repo1[old[i]] = [content |-> c, slot |-> i]
  BY ListOfContent
<1>2. /\ new \in Seq(EntityIds)
      /\ Len(new) = Len(old) + 1
      /\ \A i \in 1 .. Len(old) : new[i] = old[i]
      /\ new[Len(old) + 1] = e
  BY <1>1, AppendProperties
<1> HIDE DEF new
<1>3. /\ DOMAIN repo1' = DOMAIN repo1 \cup {e}
      /\ \A x \in DOMAIN repo1 : x # e /\ repo1'[x] = repo1[x]
      /\ repo1'[e] = [content |-> c, slot |-> Len(old) + 1]
  BY DEF InsertNew, NextPlace
<1>4. /\ DOMAIN repo2' = DOMAIN repo2 \cup {c}
      /\ repo2'[c] = new
      /\ \A k \in DOMAIN repo2 : k # c => repo2'[k] = repo2[k]
  BY DEF InsertNew, Put, new
<1>5. InventoryTypeOK'
  <2>1. \A x \in DOMAIN repo1' :
          repo1'[x] \in [content : ContentIds, slot : Nat \ {0}]
    BY <1>1, <1>3 DEF IndexInv, InventoryTypeOK
  <2>2. \A k \in DOMAIN repo2' : repo2'[k] \in Seq(EntityIds)
    BY <1>2, <1>4 DEF IndexInv, InventoryTypeOK
  <2> QED  BY <2>1, <2>2, <1>3, <1>4 DEF IndexInv, InventoryTypeOK
<1>6. DatumIsWhereItSays'
  <2> SUFFICES ASSUME NEW x \in DOMAIN repo1'
               PROVE  /\ repo1'[x].content \in DOMAIN repo2'
                      /\ repo1'[x].slot <= Len(repo2'[repo1'[x].content])
                      /\ repo2'[repo1'[x].content][repo1'[x].slot] = x
    BY DEF DatumIsWhereItSays
  <2>1. CASE x = e
    BY <2>1, <1>1, <1>2, <1>3, <1>4
  <2>2. CASE x # e
    <3>1. /\ x \in DOMAIN repo1 /\ repo1'[x] = repo1[x]
          /\ repo1[x].content \in DOMAIN repo2
          /\ repo1[x].slot \in Nat \ {0}
          /\ repo1[x].slot <= Len(repo2[repo1[x].content])
          /\ repo2[repo1[x].content][repo1[x].slot] = x
      BY <2>2, <1>3 DEF IndexInv, InventoryTypeOK, DatumIsWhereItSays
    <3>2. CASE repo1[x].content # c
      BY <3>1, <3>2, <1>4
    <3>3. CASE repo1[x].content = c
      <4>1. old = repo2[c]
        BY <3>1, <3>3 DEF ListOf
      <4> QED  BY <4>1, <3>1, <3>3, <1>1, <1>2, <1>4
    <3> QED  BY <3>2, <3>3
  <2> QED  BY <2>1, <2>2
<1>7. NoDanglingDatum'
  <2> SUFFICES ASSUME NEW k \in DOMAIN repo2', NEW i \in 1 .. Len(repo2'[k])
               PROVE  /\ repo2'[k][i] \in DOMAIN repo1'
                      /\ repo1'[repo2'[k][i]] = [content |-> k, slot |-> i]
    BY DEF NoDanglingDatum
  <2>1. CASE k # c
    BY <2>1, <1>3, <1>4 DEF IndexInv, NoDanglingDatum
  <2>2. CASE k = c
    <3>1. CASE i = Len(old) + 1
      BY <2>2, <3>1, <1>2, <1>3, <1>4
    <3>2. CASE i # Len(old) + 1
      BY <2>2, <3>2, <1>1, <1>2, <1>3, <1>4
    <3> QED  BY <3>1, <3>2
  <2> QED  BY <2>1, <2>2
<1> QED  BY <1>5, <1>6, <1>7 DEF IndexInv

\* Insert of a taken entity id changes at most which content ids have a list.
LEMMA InsertDuplicateKeeps ==
  ASSUME IndexInv, NEW e \in EntityIds, NEW c \in ContentIds, InsertDuplicate(e, c)
  PROVE  IndexInv'
<1>1. /\ repo1' = repo1
      /\ DOMAIN repo2' = DOMAIN repo2 \cup {c}
      /\ \A k \in DOMAIN repo2 : repo2'[k] = repo2[k]
      /\ \A k \in DOMAIN repo2' : k \in DOMAIN repo2 \/ repo2'[k] = <<>>
  BY DEF InsertDuplicate, Put, ListOf
<1>2. InventoryTypeOK'
  <2>1. \A k \in DOMAIN repo2' : repo2'[k] \in Seq(EntityIds)
    BY <1>1, EmptySeq DEF IndexInv, InventoryTypeOK
  <2> QED  BY <1>1, <2>1 DEF IndexInv, InventoryTypeOK
<1>3. DatumIsWhereItSays'
  BY <1>1 DEF IndexInv, DatumIsWhereItSays
<1>4. NoDanglingDatum'
  <2> SUFFICES ASSUME NEW k \in DOMAIN repo2', NEW i \in 1 .. Len(repo2'[k])
               PROVE  /\ repo2'[k][i] \in DOMAIN repo1'
                      /\ repo1'[repo2'[k][i]] = [content |-> k, slot |-> i]
    BY DEF NoDanglingDatum
  <2>1. k \in DOMAIN repo2
    BY <1>1, EmptySeq
  <2> QED  BY <2>1, <1>1 DEF IndexInv, NoDanglingDatum
<1> QED  BY <1>2, <1>3, <1>4 DEF IndexInv

\* Delete takes one pointer out of the list, moves the last one into its place
\* and tells the datum that moved.
LEMMA DeleteFoundKeeps ==
  ASSUME IndexInv, NEW e \in EntityIds, DeleteFound(e)
  PROVE  IndexInv'
<1> DEFINE c    == repo1[e].content
           i    == repo1[e].slot
           old  == repo2[c]
           n    == Len(old)
           last == Last(old)
           list == Front([old EXCEPT ![i] = last])
<1>1. /\ e \in DOMAIN repo1
      /\ c \in ContentIds /\ c \in DOMAIN repo2
      /\ old \in Seq(EntityIds) /\ n \in Nat
      /\ i \in 1 .. n /\ old[i] = e
  BY DEF DeleteFound, IndexInv, InventoryTypeOK, DatumIsWhereItSays
<1>2. \A j \in 1 .. n : /\ old[j] \in DOMAIN repo1
                        /\ repo1[old[j]] = [content |-> c, slot |-> j]
                        /\ repo1[old[j]].content = c
                        /\ repo1[old[j]].slot = j
  BY <1>1 DEF IndexInv, NoDanglingDatum
<1>3. /\ last = old[n]
      /\ last \in EntityIds
      /\ repo1[last] = [content |-> c, slot |-> n]
      /\ repo1[last].content = c
      /\ repo1[last].slot = n
  BY <1>1, <1>2 DEF Last
<1>4. /\ list \in Seq(EntityIds)
      /\ Len(list) = n - 1
      /\ \A j \in 1 .. n - 1 : list[j] = IF j = i THEN last ELSE old[j]
  <2> DEFINE swapped == [old EXCEPT ![i] = last]
  <2>1. /\ swapped \in Seq(EntityIds)
        /\ Len(swapped) = n
        /\ \A j \in 1 .. n : swapped[j] = IF j = i THEN last ELSE old[j]
    BY <1>1, <1>3, ExceptSeq
  <2>2. list = SubSeq(swapped, 1, n - 1)
    BY <2>1 DEF Front
  <2> HIDE DEF swapped, list
  <2>3. \A j \in 1 .. n - 1 : swapped[j] \in EntityIds
    BY <2>1, <1>1, <1>3
  <2>4. /\ SubSeq(swapped, 1, n - 1) \in Seq(EntityIds)
        /\ Len(SubSeq(swapped, 1, n - 1)) = IF 1 <= n - 1 THEN (n - 1) - 1 + 1 ELSE 0
        /\ \A j \in 1 .. (n - 1) - 1 + 1 :
             SubSeq(swapped, 1, n - 1)[j] = swapped[1 + j - 1]
    BY <2>3, <1>1, SubSeqProperties
  <2> HIDE DEF n, i, old, last
  <2>5. list \in Seq(EntityIds) /\ Len(list) = n - 1
    BY <2>2, <2>4, <1>1
  <2>6. ASSUME NEW j \in 1 .. n - 1
        PROVE  list[j] = IF j = i THEN last ELSE old[j]
    <3>1. list[j] = swapped[j]
      BY <2>2, <2>4, <1>1
    <3> QED  BY <3>1, <2>1, <1>1
  <2> QED  BY <2>5, <2>6
<1>5. /\ DOMAIN repo1' = DOMAIN repo1 \ {e}
      /\ \A x \in DOMAIN repo1 \ {e} :
           repo1'[x] = IF x = last THEN [content |-> c, slot |-> i] ELSE repo1[x]
  BY <1>3 DEF DeleteFound, Moved
<1>6. /\ DOMAIN repo2' = IF list = <<>> THEN DOMAIN repo2 \ {c} ELSE DOMAIN repo2
      /\ \A k \in DOMAIN repo2 : k # c => repo2'[k] = repo2[k]
      /\ list # <<>> => repo2'[c] = list
  BY <1>1 DEF DeleteFound, Put
<1>10. c = repo1[e].content /\ i = repo1[e].slot /\ old = repo2[c] /\ n = Len(old)
  OBVIOUS
<1> HIDE DEF list, last, n, old, i, c
<1>7. InventoryTypeOK'
  <2>1. \A x \in DOMAIN repo1' :
          repo1'[x] \in [content : ContentIds, slot : Nat \ {0}]
    BY <1>1, <1>5 DEF IndexInv, InventoryTypeOK
  <2>2. \A k \in DOMAIN repo2' : repo2'[k] \in Seq(EntityIds)
    BY <1>4, <1>6 DEF IndexInv, InventoryTypeOK
  <2> QED  BY <2>1, <2>2, <1>5, <1>6 DEF IndexInv, InventoryTypeOK
<1>8. DatumIsWhereItSays'
  <2> SUFFICES ASSUME NEW x \in DOMAIN repo1'
               PROVE  /\ repo1'[x].content \in DOMAIN repo2'
                      /\ repo1'[x].slot <= Len(repo2'[repo1'[x].content])
                      /\ repo2'[repo1'[x].content][repo1'[x].slot] = x
    BY DEF DatumIsWhereItSays
  <2>1. /\ x \in DOMAIN repo1 /\ x # e
        /\ repo1[x].content \in DOMAIN repo2
        /\ repo1[x].slot \in 1 .. Len(repo2[repo1[x].content])
        /\ repo2[repo1[x].content][repo1[x].slot] = x
    BY <1>5 DEF IndexInv, InventoryTypeOK, DatumIsWhereItSays
  <2>2. CASE x = last
    <3>1. i \in 1 .. n - 1
      BY <2>1, <2>2, <1>1, <1>3, <1>10
    <3>2. list # <<>>
      BY <3>1, <1>1, <1>4
    <3>3. repo1'[x] = [content |-> c, slot |-> i]
      BY <2>1, <2>2, <1>5
    <3>4. repo1'[x].content = c /\ repo1'[x].slot = i
      BY <3>3
    <3>5. repo2'[c] = list /\ c \in DOMAIN repo2'
      BY <3>2, <1>1, <1>6
    <3> QED  BY <2>2, <3>1, <3>4, <3>5, <1>1, <1>4
  <2>3. CASE x # last /\ repo1[x].content = c
    <3>1. repo1[x].slot \in 1 .. n - 1 /\ repo1[x].slot # i
      BY <2>1, <2>3, <1>1, <1>3, <1>10
    <3>2. list # <<>>
      BY <3>1, <1>1, <1>4
    <3>3. repo1'[x] = repo1[x]
      BY <2>1, <2>3, <1>5
    <3>4. repo2'[c] = list /\ c \in DOMAIN repo2'
      BY <3>2, <1>1, <1>6
    <3>5. old[repo1[x].slot] = x
      BY <2>1, <2>3, <1>10
    <3>6. list[repo1[x].slot] = x /\ repo1[x].slot <= Len(list)
      BY <3>1, <3>5, <1>1, <1>4
    <3> QED  BY <2>3, <3>3, <3>4, <3>6
  <2>4. CASE x # last /\ repo1[x].content # c
    BY <2>1, <2>4, <1>5, <1>6
  <2> QED  BY <2>2, <2>3, <2>4
<1>9. NoDanglingDatum'
  <2> SUFFICES ASSUME NEW k \in DOMAIN repo2', NEW j \in 1 .. Len(repo2'[k])
               PROVE  /\ repo2'[k][j] \in DOMAIN repo1'
                      /\ repo1'[repo2'[k][j]] = [content |-> k, slot |-> j]
    BY DEF NoDanglingDatum
  <2>1. CASE k # c
    <3>1. /\ k \in DOMAIN repo2 /\ repo2'[k] = repo2[k]
      BY <2>1, <1>6
    <3>2. /\ repo2[k][j] \in DOMAIN repo1
          /\ repo1[repo2[k][j]] = [content |-> k, slot |-> j]
      BY <3>1 DEF IndexInv, NoDanglingDatum
    <3>3. repo2[k][j] # e /\ repo2[k][j] # last
      <4>1. repo1[repo2[k][j]].content = k
        BY <3>2
      <4> QED  BY <4>1, <2>1, <1>3, <1>10
    <3> QED  BY <3>1, <3>2, <3>3, <1>5
  <2>2. CASE k = c
    <3>1. list # <<>> /\ repo2'[k] = list /\ j \in 1 .. n - 1
      BY <2>2, <1>1, <1>4, <1>6
    <3>2. CASE j = i
      <4>1. repo2'[k][j] = last /\ i # n
        BY <3>1, <3>2, <1>1, <1>4
      <4>2. last # e
        BY <4>1, <1>3, <1>10
      <4>3. last \in DOMAIN repo1
        BY <1>1, <1>2, <1>3
      <4>4. last \in DOMAIN repo1' /\ repo1'[last] = [content |-> c, slot |-> i]
        BY <4>2, <4>3, <1>5
      <4> QED  BY <4>1, <4>4, <3>2, <2>2
    <3>3. CASE j # i
      <4>1. j \in 1 .. n /\ j # n /\ list[j] = old[j]
        BY <3>1, <3>3, <1>1, <1>4
      <4>2. old[j] # last /\ old[j] # e
        BY <4>1, <3>3, <1>2, <1>3, <1>10
      <4> QED  BY <4>1, <4>2, <3>1, <2>2, <1>2, <1>5
    <3> QED  BY <3>2, <3>3
  <2> QED  BY <2>1, <2>2
<1> QED  BY <1>7, <1>8, <1>9 DEF IndexInv

-----------------------------------------------------------------------------
\* The agreement of the indexes survives every operation.
LEMMA IndexStep == IndexInv /\ [InventoryNext]_inventoryVars => IndexInv'
<1> SUFFICES ASSUME IndexInv, [InventoryNext]_inventoryVars
             PROVE  IndexInv'
  OBVIOUS
<1>1. CASE InventoryNext
  <2>1. PICK e \in EntityIds :
          \/ \E c \in ContentIds : InsertNew(e, c) \/ InsertDuplicate(e, c)
          \/ DeleteFound(e)
          \/ DeleteMissing(e)
    BY <1>1 DEF InventoryNext
  <2>2. ASSUME NEW c \in ContentIds, InsertNew(e, c)
        PROVE  IndexInv'
    BY <2>2, InsertNewKeeps
  <2>3. ASSUME NEW c \in ContentIds, InsertDuplicate(e, c)
        PROVE  IndexInv'
    BY <2>3, InsertDuplicateKeeps
  <2>4. CASE DeleteFound(e)
    BY <2>4, DeleteFoundKeeps
  <2>5. CASE DeleteMissing(e)
    BY <2>5 DEF DeleteMissing, inventoryVars, IndexInv, InventoryTypeOK, DatumIsWhereItSays, NoDanglingDatum
  <2> QED  BY <2>1, <2>2, <2>3, <2>4, <2>5
<1>2. CASE UNCHANGED inventoryVars
  BY <1>2 DEF inventoryVars, IndexInv, InventoryTypeOK, DatumIsWhereItSays, NoDanglingDatum
<1> QED  BY <1>1, <1>2

\* The inventory never holds an ill-typed datum or list.
THEOREM InventoryTyped == InventorySpec => []InventoryTypeOK
<1>1. IndexInv => InventoryTypeOK
  BY DEF IndexInv
<1> QED  BY <1>1, IndexInit, IndexStep, PTL DEF InventorySpec

\* The assertions of DeleteFromRepo2 hold for whatever entity is deleted next,
\* and no content list ever points to a datum that has been deleted.
THEOREM IndexesStayInverse == InventorySpec => []IndexesAgree
<1>1. IndexInv => IndexesAgree
  BY DEF IndexInv, IndexesAgree
<1> QED  BY <1>1, IndexInit, IndexStep, PTL DEF InventorySpec

-----------------------------------------------------------------------------
(* Clocks: unsigned arithmetic                                               *)

\* A remainder is a number of Width, and such a number is its own remainder.
LEMMA Remainders ==
  /\ \A x \in Int : x % Width \in 0 .. Width - 1
  /\ \A x \in 0 .. Width - 1 : x % Width = x
BY ClocksAssumption

\* To add what was subtracted gives the number back, wrapped around or not.
LEMMA DeltaLeadsTo ==
  ASSUME NEW old \in 0 .. Width - 1, NEW new \in 0 .. Width - 1
  PROVE  (old + ((new - old) % Width)) % Width = new
<1>0. Width \in Nat \ {0}
  BY ClocksAssumption
<1>1. CASE new >= old
  <2>1. (new - old) % Width = new - old
    BY <1>0, <1>1, Remainders
  <2> QED
    BY <1>0, <1>1, <2>1, Remainders
<1>2. CASE new < old
  <2>1. (new - old) % Width = new - old + Width
    BY <1>0, <1>2
  <2>2. (new + Width) % Width = new
    BY <1>0
  <2> QED
    BY <1>0, <2>1, <2>2
<1> QED
  BY <1>1, <1>2

-----------------------------------------------------------------------------
(* Clocks: the invariant                                                     *)

\* The last tick is where the sum of the deltas has got to, and where the
\* current time is as long as the thread is not between its two stores.
SumInv ==
  /\ clock # "steady" => ticker = "none" /\ ~ticking /\ ~joining /\ starts = 0
  /\ clock = "manual" => summed = currentTime
  /\ clock = "tick" => summed = currentTime /\ lastTick = currentTime
  /\ clock = "steady" /\ starts <= 1 =>
       /\ summed = lastTick
       /\ ticker # "half" => currentTime = lastTick
  /\ starts = 0 => ticker = "none"
  /\ starts = 0 /\ clock = "steady" => currentTime = 0

\* A thread exists while the clock runs, or until Stop has joined it, and never
\* reads a time that is before its last tick.
ThreadInv ==
  /\ ~ticking /\ ~joining => ticker = "none"
  /\ lastTick <= now /\ looked <= now
  /\ ticker = "half" => lastTick <= looked /\ currentTime = looked

ClockInv == ClocksTypeOK /\ SumInv /\ ThreadInv

\* A clock begins at zero.
LEMMA ClockInvInit == ClocksInit => ClockInv
<1> SUFFICES ASSUME ClocksInit PROVE ClockInv
  OBVIOUS
<1>1. 0 \in 0 .. Width - 1 /\ 0 \in 0 .. MaxTime /\ 0 \in 0 .. MaxStarts
  BY ClocksAssumption
<1>2. ClocksTypeOK
  BY <1>1 DEF ClocksInit, ClocksTypeOK
<1>3. SumInv
  BY DEF ClocksInit, SumInv
<1>4. ThreadInv
  BY DEF ClocksInit, ThreadInv
<1> QED
  BY <1>2, <1>3, <1>4 DEF ClockInv

\* Every step keeps the sum.
LEMMA ClockInvStep == ClockInv /\ [ClocksNext]_clockVars => ClockInv'
<1> SUFFICES ASSUME ClockInv, [ClocksNext]_clockVars PROVE ClockInv'
  OBVIOUS
<1> USE DEF threadVars, ClockInv, ClocksTypeOK, SumInv, ThreadInv
<1>0. /\ Width \in Nat \ {0} /\ MaxTime \in 0 .. Width - 1 /\ MaxStarts \in Nat
      /\ now \in 0 .. MaxTime /\ currentTime \in 0 .. Width - 1
      /\ lastTick \in 0 .. MaxTime /\ looked \in 0 .. MaxTime /\ starts \in 0 .. MaxStarts
      /\ summed \in 0 .. Width - 1
  BY ClocksAssumption
<1>1. CASE TimePasses
  BY <1>0, <1>1 DEF TimePasses
<1>2. ASSUME NEW time \in 0 .. Width - 1, SetCurrentTime(time) PROVE ClockInv'
  <2>1. /\ (time - currentTime) % Width \in 0 .. Width - 1
        /\ (currentTime + ((time - currentTime) % Width)) % Width = time
    <3>1. time - currentTime \in Int
      BY <1>0
    <3>2. (time - currentTime) % Width \in 0 .. Width - 1
      BY <3>1, Remainders
    <3>3. (currentTime + ((time - currentTime) % Width)) % Width = time
      BY <1>0, DeltaLeadsTo
    <3> QED
      BY <3>2, <3>3
  <2>2. summed = currentTime /\ clock = "manual"
    BY <1>2 DEF SetCurrentTime
  <2>3. /\ currentTime' = time /\ deltaTime' = (time - currentTime) % Width
        /\ summed' = time
    BY <1>2, <2>1, <2>2 DEF SetCurrentTime, Publish
  <2> QED
    BY <1>0, <1>2, <2>1, <2>2, <2>3 DEF SetCurrentTime
<1>3. ASSUME NEW time \in 0 .. Width - 1, AdvanceBy(time) PROVE ClockInv'
  <2>1. (currentTime + time) % Width \in 0 .. Width - 1
    BY <1>0, Remainders
  <2>2. summed = currentTime /\ clock = "manual"
    BY <1>3 DEF AdvanceBy
  <2>3. /\ currentTime' = (currentTime + time) % Width /\ deltaTime' = time
        /\ summed' = (currentTime + time) % Width
    BY <1>3, <2>2 DEF AdvanceBy, Publish
  <2> QED
    BY <1>0, <1>3, <2>1, <2>2, <2>3 DEF AdvanceBy
<1>4. CASE Tick
  <2>1. /\ clock = "tick" /\ summed = currentTime /\ lastTick = currentTime
        /\ now - lastTick \in 0 .. Width - 1
    BY <1>0, <1>4 DEF Tick
  <2>2. summed + (now - lastTick) = now
    BY <1>0, <2>1
  <2>3. now % Width = now
    BY <1>0, Remainders
  <2>4. currentTime' = now /\ deltaTime' = now - lastTick /\ summed' = now /\ lastTick' = now
    BY <1>4, <2>2, <2>3 DEF Tick, Publish, LastIs
  <2> QED
    BY <1>0, <1>4, <2>1, <2>4 DEF Tick
<1>5. CASE StartClock
  BY <1>0, <1>5 DEF StartClock
<1>6. CASE StopClock
  BY <1>0, <1>6 DEF StopClock
<1>7. CASE ClockJoined
  BY <1>0, <1>7 DEF ClockJoined
<1>8. CASE TestRunning
  BY <1>0, <1>8 DEF TestRunning
<1>9. CASE StoreCurrent
  BY <1>0, <1>9 DEF StoreCurrent
<1>10. CASE StoreDelta
  <2>1. /\ clock = "steady" /\ currentTime = looked
        /\ looked - lastTick \in 0 .. Width - 1
    BY <1>0, <1>10 DEF StoreDelta, ClockKinds
  <2>2. /\ currentTime' = looked /\ deltaTime' = looked - lastTick /\ lastTick' = looked
        /\ summed' = (summed + (looked - lastTick)) % Width
    BY <1>10, <2>1 DEF StoreDelta, Publish, LastIs
  <2>3. summed' \in 0 .. Width - 1
    BY <1>0, <2>1, <2>2, Remainders
  <2>4. starts <= 1 => summed' = looked
    <3> HAVE starts <= 1
    <3>1. summed + (looked - lastTick) = looked
      BY <1>0, <2>1
    <3> QED
      BY <1>0, <2>2, <3>1, Remainders
  <2> QED
    BY <1>0, <1>10, <2>1, <2>2, <2>3, <2>4 DEF StoreDelta
<1>11. CASE UNCHANGED clockVars
  BY <1>11 DEF clockVars
<1> QED
  BY <1>1, <1>2, <1>3, <1>4, <1>5, <1>6, <1>7, <1>8, <1>9, <1>10, <1>11 DEF ClocksNext

\* Every variable of a clock keeps its type: no difference of times is negative.
THEOREM ClockTypeCorrect == ClocksSpec => []ClocksTypeOK
<1>1. ClockInv => ClocksTypeOK
  BY DEF ClockInv
<1> QED
  BY <1>1, ClockInvInit, ClockInvStep, PTL DEF ClocksSpec

\* The deltas of a clock add up to its time, except for a steady clock between
\* the two stores of its thread or after a second Start; and a clock that was
\* stopped has no thread.
THEOREM DeltasAddUpSafe == ClocksSpec => []DeltasAddUp
<1>1. ClockInv => DeltasAddUp
  BY DEF ClockInv, ClocksTypeOK, ClockKinds, SumInv, ThreadInv, DeltasAddUp
<1> QED
  BY <1>1, ClockInvInit, ClockInvStep, PTL DEF ClocksSpec

-----------------------------------------------------------------------------
(* BagDraw: least and greatest numbers                                       *)

\* A set of natural numbers has a least one.
LEMMA LeastNumber ==
  ASSUME NEW S, S \subseteq Nat, S # {}
  PROVE  \E m \in S : \A k \in S : m <= k
<1>1. PICK m \in S : \A k \in S : <<k, m>> \notin OpToRel(<, Nat)
  BY NatLessThanWellFounded, WFMin
<1>2. \A k \in S : ~(k < m)
  BY <1>1, Zenon DEF OpToRel
<1> QED
  BY <1>2

\* The greatest of some of the numbers up to k, which a fold from the left takes first.
LEMMA GreatestUpTo ==
  ASSUME NEW k \in Nat, NEW s \in SUBSET (1 .. k), s # {}
  PROVE  Max(s) \in s /\ \A y \in s : Max(s) >= y
<1> DEFINE Below == {k - x : x \in s}
<1>1. Below \subseteq Nat /\ Below # {}
  <2>1. \A x \in s : k - x \in Nat
    OBVIOUS
  <2> QED
    BY <2>1
<1>2. PICK b \in Below : \A c \in Below : b <= c
  BY <1>1, LeastNumber
<1>3. PICK x \in s : b = k - x
  BY <1>2
<1>4. \A y \in s : x >= y
  <2> TAKE y \in s
  <2>1. k - y \in Below
    OBVIOUS
  <2>2. b <= k - y
    BY <1>2, <2>1
  <2> QED
    BY <1>3, <2>2
<1> QED
  BY <1>4 DEF Max

\* The greatest of all of them.
LEMMA GreatestOfAll ==
  ASSUME NEW k \in Nat, NEW m \in 1 .. k
  PROVE  /\ 1 .. m \in SUBSET (1 .. k) /\ 1 .. m # {}
         /\ Max(1 .. m) = m /\ (1 .. m) \ {m} = 1 .. m - 1
<1>1. 1 .. m \in SUBSET (1 .. k) /\ m \in 1 .. m
  OBVIOUS
<1>2. Max(1 .. m) \in 1 .. m /\ Max(1 .. m) >= m
  BY <1>1, GreatestUpTo
<1> QED
  BY <1>1, <1>2

-----------------------------------------------------------------------------
(* BagDraw: folds from the left over the numbers up to k                     *)

\* What FoldLeft says of the values over the subsets of D, when the step for
\* the index i maps the value x to step[i][x].
Folds(D, base, step, f) ==
  f = [s \in SUBSET D |-> IF s = {} THEN base ELSE step[Max(s)][f[s \ {Max(s)}]]]

\* The recursion of a fold has a solution: one over the subsets of the numbers up
\* to m, for every m.
LEMMA FoldsExist ==
  ASSUME NEW k \in Nat, NEW V, NEW base \in V, NEW step \in [1 .. k -> [V -> V]]
  PROVE  \E f \in [SUBSET (1 .. k) -> V] : Folds(1 .. k, base, step, f)
<1> DEFINE Has(m) == \E f \in [SUBSET (1 .. m) -> V] : Folds(1 .. m, base, step, f)
           Without == {m \in 0 .. k : ~Has(m)}
<1> SUFFICES ASSUME ~Has(k) PROVE FALSE
  OBVIOUS
<1>1. PICK m \in Without : \A n \in Without : m <= n
  <2>1. Without \subseteq Nat
    OBVIOUS
  <2>2. k \in Without
    <3>1. k \in 0 .. k
      OBVIOUS
    <3> HIDE DEF Has
    <3> QED
      BY <3>1
  <2> HIDE DEF Without
  <2> QED
    BY <2>1, <2>2, LeastNumber
<1>2. m # 0
  <2>1. SUBSET (1 .. 0) = {{}}
    OBVIOUS
  <2>2. Folds(1 .. 0, base, step, [s \in {{}} |-> base])
    BY <2>1 DEF Folds
  <2>3. Has(0)
    BY <2>1, <2>2
  <2> QED
    BY <1>1, <2>3
<1>3. m \in 1 .. k /\ Has(m - 1)
  <2>1. m \in 0 .. k
    BY <1>1
  <2>2. m \in 1 .. k /\ m - 1 \in 0 .. k
    BY <1>2, <2>1
  <2>3. m - 1 \notin Without
    <3> HIDE DEF Without
    <3> QED
      BY <1>1, <2>1
  <2> HIDE DEF Has
  <2> QED
    BY <2>2, <2>3
<1> HIDE DEF Without
<1>4. PICK f \in [SUBSET (1 .. m - 1) -> V] : Folds(1 .. m - 1, base, step, f)
  BY <1>3
<1> DEFINE g == [s \in SUBSET (1 .. m) |-> IF m \in s THEN step[m][f[s \ {m}]] ELSE f[s]]
<1>5. ASSUME NEW s \in SUBSET (1 .. m)
      PROVE  /\ g[s] \in V
             /\ g[s] = IF s = {} THEN base ELSE step[Max(s)][g[s \ {Max(s)}]]
  <2>1. CASE m \in s
    <3>1. Max(s) = m
      <4>1. m \in Nat /\ s # {}
        BY <1>3, <2>1
      <4>2. Max(s) \in s /\ Max(s) >= m
        BY <2>1, <4>1, GreatestUpTo
      <4>3. Max(s) \in 1 .. m
        BY <4>2
      <4> QED
        BY <4>1, <4>2, <4>3
    <3>2. s \ {m} \in SUBSET (1 .. m - 1) /\ s \ {m} \in SUBSET (1 .. m)
      BY <1>3
    <3>3. g[s] = step[m][f[s \ {m}]] /\ g[s \ {m}] = f[s \ {m}]
      BY <2>1, <3>2
    <3>4. f[s \ {m}] \in V
      BY <3>2
    <3>5. step[m] \in [V -> V]
      BY <1>3
    <3>6. step[m][f[s \ {m}]] \in V
      BY <3>4, <3>5
    <3> QED
      BY <2>1, <3>1, <3>3, <3>6
  <2>2. CASE m \notin s
    <3>1. s \in SUBSET (1 .. m - 1)
      BY <1>3, <2>2
    <3>2. g[s] = f[s] /\ f[s] \in V
      BY <2>2, <3>1
    <3>3. f[s] = IF s = {} THEN base ELSE step[Max(s)][f[s \ {Max(s)}]]
      BY <1>4, <3>1 DEF Folds
    <3>4. CASE s # {}
      <4>1. s \ {Max(s)} \in SUBSET (1 .. m - 1) /\ s \ {Max(s)} \in SUBSET (1 .. m)
        BY <3>1
      <4>2. g[s \ {Max(s)}] = f[s \ {Max(s)}]
        BY <2>2, <4>1
      <4> QED
        BY <3>2, <3>3, <3>4, <4>2
    <3> QED
      BY <3>2, <3>3, <3>4
  <2> QED
    BY <2>1, <2>2
<1>6. g \in [SUBSET (1 .. m) -> V]
  BY <1>5
<1>7. Folds(1 .. m, base, step, g)
  BY <1>5 DEF Folds
<1>8. Has(m)
  BY <1>6, <1>7
<1> QED
  BY <1>1, <1>8 DEF Without

-----------------------------------------------------------------------------
(* BagDraw: what refill_bag fills in, item by item                           *)

N == Len(WeightedItems)

Values == {WeightedItems[i].value : i \in 1 .. N}

Repeated(i) == [n \in 1 .. WeightedItems[i].weight |-> WeightedItems[i].value]

Added(i, v) == IF WeightedItems[i].value = v /\ WeightedItems[i].weight > 0
               THEN WeightedItems[i].weight ELSE 0

\* What the folds in Filled and in Weight say of the items at the places of a set.
Fills(f) ==
  f = [s \in SUBSET (1 .. N) |-> IF s = {} THEN <<>> ELSE f[s \ {Max(s)}] \o Repeated(Max(s))]

Weighs(v, f) ==
  f = [s \in SUBSET (1 .. N) |->
         IF s = {} THEN 0
         ELSE IF WeightedItems[Max(s)].value = v /\ WeightedItems[Max(s)].weight > 0
              THEN f[s \ {Max(s)}] + WeightedItems[Max(s)].weight ELSE f[s \ {Max(s)}]]

FillOf == CHOOSE f : Fills(f)
WeightOf(v) == CHOOSE f : Weighs(v, f)

\* The list of weighted items has a length, and integers for weights.
LEMMA ItemsListed ==
  /\ N \in Nat /\ DOMAIN WeightedItems = 1 .. N
  /\ \A i \in 1 .. N : WeightedItems[i].weight \in Int /\ WeightedItems[i].value \in Values
<1>1. N \in Nat /\ DOMAIN WeightedItems = 1 .. N
  BY BagAssumption DEF N
<1>2. \A i \in 1 .. N : WeightedItems[i] \in ToSet(WeightedItems)
  BY <1>1 DEF ToSet
<1> QED
  BY <1>1, <1>2, BagAssumption DEF Values

\* Filled and Weight are those folds over the whole list.
LEMMA FilledIsFold == Filled = FillOf[1 .. N]
BY ItemsListed DEF Filled, FoldLeft, MapThenFoldSet, FillOf, Fills, Repeated

LEMMA WeightIsFold == \A v : Weight(v) = WeightOf(v)[1 .. N]
BY ItemsListed DEF Weight, FoldLeft, MapThenFoldSet, WeightOf, Weighs

\* The fold of the bag has a solution.
LEMMA FillExists == Fills(FillOf)
<1>0. N \in Nat
  BY ItemsListed
<1> DEFINE step == [i \in 1 .. N |-> [l \in Seq(Values) |-> l \o Repeated(i)]]
<1>1. ASSUME NEW i \in 1 .. N PROVE Repeated(i) \in Seq(Values)
  <2>1. WeightedItems[i].weight \in Int /\ WeightedItems[i].value \in Values
    BY ItemsListed
  <2>2. CASE WeightedItems[i].weight >= 0
    BY <2>1, <2>2 DEF Repeated
  <2>3. CASE WeightedItems[i].weight < 0
    <3>1. 1 .. WeightedItems[i].weight = 1 .. 0
      BY <2>1, <2>3
    <3> QED
      BY <2>1, <3>1 DEF Repeated
  <2> QED
    BY <2>1, <2>2, <2>3
<1>2. ASSUME NEW i \in 1 .. N, NEW l \in Seq(Values) PROVE l \o Repeated(i) \in Seq(Values)
  BY <1>1
<1>3. step \in [1 .. N -> [Seq(Values) -> Seq(Values)]]
  BY <1>2
<1>4. <<>> \in Seq(Values)
  OBVIOUS
<1>5. PICK f \in [SUBSET (1 .. N) -> Seq(Values)] : Folds(1 .. N, <<>>, step, f)
  <2> HIDE DEF step
  <2> QED
    BY <1>0, <1>3, <1>4, FoldsExist
<1>6. ASSUME NEW s \in SUBSET (1 .. N)
      PROVE  f[s] = IF s = {} THEN <<>> ELSE f[s \ {Max(s)}] \o Repeated(Max(s))
  <2>1. f[s] = IF s = {} THEN <<>> ELSE step[Max(s)][f[s \ {Max(s)}]]
    BY <1>5 DEF Folds
  <2>2. CASE s # {}
    <3>1. Max(s) \in 1 .. N
      BY <1>0, <2>2, GreatestUpTo
    <3>2. f[s \ {Max(s)}] \in Seq(Values)
      OBVIOUS
    <3> QED
      BY <2>1, <2>2, <3>1, <3>2
  <2> QED
    BY <2>1, <2>2
<1>7. Fills(f)
  BY <1>6 DEF Fills
<1> QED
  BY <1>7 DEF FillOf

\* So has the fold of the weights.
LEMMA WeightExists == \A v : Weighs(v, WeightOf(v))
<1> TAKE v
<1>0. N \in Nat
  BY ItemsListed
<1> DEFINE step == [i \in 1 .. N |-> [x \in Int |->
                      IF WeightedItems[i].value = v /\ WeightedItems[i].weight > 0
                      THEN x + WeightedItems[i].weight ELSE x]]
<1>1. step \in [1 .. N -> [Int -> Int]]
  BY ItemsListed
<1>2. PICK f \in [SUBSET (1 .. N) -> Int] : Folds(1 .. N, 0, step, f)
  <2>1. 0 \in Int
    OBVIOUS
  <2> HIDE DEF step
  <2> QED
    BY <1>0, <1>1, <2>1, FoldsExist
<1>3. ASSUME NEW s \in SUBSET (1 .. N)
      PROVE  f[s] = IF s = {} THEN 0
                    ELSE IF WeightedItems[Max(s)].value = v /\ WeightedItems[Max(s)].weight > 0
                         THEN f[s \ {Max(s)}] + WeightedItems[Max(s)].weight
                         ELSE f[s \ {Max(s)}]
  <2>1. f[s] = IF s = {} THEN 0 ELSE step[Max(s)][f[s \ {Max(s)}]]
    BY <1>2 DEF Folds
  <2>2. CASE s # {}
    <3>1. Max(s) \in 1 .. N
      BY <1>0, <2>2, GreatestUpTo
    <3>2. f[s \ {Max(s)}] \in Int
      OBVIOUS
    <3> QED
      BY <2>1, <2>2, <3>1, <3>2
  <2> QED
    BY <2>1, <2>2
<1>4. Weighs(v, f)
  BY <1>3 DEF Weighs
<1> QED
  BY <1>4 DEF WeightOf

\* The item at place i adds its value as often as its weight.
LEMMA FillByItems ==
  /\ FillOf[1 .. 0] = <<>>
  /\ \A i \in 1 .. N : FillOf[1 .. i] = FillOf[1 .. i - 1] \o Repeated(i)
<1>1. 1 .. 0 \in SUBSET (1 .. N) /\ 1 .. 0 = {}
  OBVIOUS
<1>2. ASSUME NEW i \in 1 .. N
      PROVE  1 .. i \in SUBSET (1 .. N) /\ 1 .. i # {}
             /\ Max(1 .. i) = i /\ (1 .. i) \ {i} = 1 .. i - 1
  BY ItemsListed, GreatestOfAll
<1>3. \A s \in SUBSET (1 .. N) :
        FillOf[s] = IF s = {} THEN <<>> ELSE FillOf[s \ {Max(s)}] \o Repeated(Max(s))
  BY FillExists DEF Fills
<1>4. FillOf[1 .. 0] = <<>>
  BY <1>1, <1>3
<1>5. ASSUME NEW i \in 1 .. N PROVE FillOf[1 .. i] = FillOf[1 .. i - 1] \o Repeated(i)
  <2>1. FillOf[1 .. i] = FillOf[(1 .. i) \ {Max(1 .. i)}] \o Repeated(Max(1 .. i))
    BY <1>2, <1>3, Zenon
  <2> QED
    BY <1>2, <2>1, Zenon
<1> QED
  BY <1>4, <1>5

LEMMA WeightByItems ==
  \A v : /\ WeightOf(v)[1 .. 0] = 0
         /\ \A i \in 1 .. N :
              WeightOf(v)[1 .. i - 1] \in Int
                => WeightOf(v)[1 .. i] = WeightOf(v)[1 .. i - 1] + Added(i, v)
<1> TAKE v
<1>1. 1 .. 0 \in SUBSET (1 .. N) /\ 1 .. 0 = {}
  OBVIOUS
<1>2. ASSUME NEW i \in 1 .. N
      PROVE  1 .. i \in SUBSET (1 .. N) /\ 1 .. i # {}
             /\ Max(1 .. i) = i /\ (1 .. i) \ {i} = 1 .. i - 1
  BY ItemsListed, GreatestOfAll
<1>3. Weighs(v, WeightOf(v))
  BY WeightExists
<1>4. WeightOf(v)[1 .. 0] = 0
  BY <1>1, <1>3 DEF Weighs
<1>5. ASSUME NEW i \in 1 .. N, WeightOf(v)[1 .. i - 1] \in Int
      PROVE  WeightOf(v)[1 .. i] = WeightOf(v)[1 .. i - 1] + Added(i, v)
  <2>1. WeightOf(v)[1 .. i] =
          IF WeightedItems[i].value = v /\ WeightedItems[i].weight > 0
          THEN WeightOf(v)[1 .. i - 1] + WeightedItems[i].weight ELSE WeightOf(v)[1 .. i - 1]
    <3>1. \A s \in SUBSET (1 .. N) :
            WeightOf(v)[s] =
              IF s = {} THEN 0
              ELSE IF WeightedItems[Max(s)].value = v /\ WeightedItems[Max(s)].weight > 0
                   THEN WeightOf(v)[s \ {Max(s)}] + WeightedItems[Max(s)].weight
                   ELSE WeightOf(v)[s \ {Max(s)}]
      BY <1>3 DEF Weighs
    <3>2. WeightOf(v)[1 .. i] =
            IF WeightedItems[Max(1 .. i)].value = v /\ WeightedItems[Max(1 .. i)].weight > 0
            THEN WeightOf(v)[(1 .. i) \ {Max(1 .. i)}] + WeightedItems[Max(1 .. i)].weight
            ELSE WeightOf(v)[(1 .. i) \ {Max(1 .. i)}]
      BY <1>2, <3>1, Zenon
    <3> QED
      BY <1>2, <3>2, Zenon
  <2> QED
    BY <1>5, <2>1 DEF Added
<1> QED
  BY <1>4, <1>5

-----------------------------------------------------------------------------
(* BagDraw: counting a value in a list                                       *)

At(l, v) == {n \in 1 .. Len(l) : l[n] = v}

Count(l, v) == Cardinality(At(l, v))

\* The places of a value are finitely many.
LEMMA PlacesFinite ==
  \A l, v : Len(l) \in Nat => IsFiniteSet(At(l, v)) /\ Count(l, v) \in Nat
<1> TAKE l, v
<1> HAVE Len(l) \in Nat
<1>1. IsFiniteSet(1 .. Len(l))
  BY FS_Interval
<1>2. At(l, v) \in SUBSET (1 .. Len(l))
  BY DEF At
<1>3. IsFiniteSet(At(l, v))
  BY <1>1, <1>2, FS_Subset
<1> QED
  BY <1>3, FS_CardinalityType DEF Count

\* In the empty list there are none.
LEMMA CountEmpty == \A v : Count(<<>>, v) = 0
<1> TAKE v
<1>1. At(<<>>, v) = {}
  BY DEF At
<1> QED
  BY <1>1, FS_EmptySet DEF Count

\* The count in two lists end to end is the sum of the counts.
LEMMA CountConcat ==
  ASSUME NEW V, NEW l \in Seq(V), NEW r \in Seq(V), NEW v
  PROVE  Count(l \o r, v) = Count(l, v) + Count(r, v)
<1> DEFINE Behind == {n \in Len(l) + 1 .. Len(l) + Len(r) : (l \o r)[n] = v}
           shift == [n \in At(r, v) |-> n + Len(l)]
<1>1. /\ Len(l) \in Nat /\ Len(r) \in Nat /\ Len(l \o r) = Len(l) + Len(r)
      /\ \A n \in 1 .. Len(l) : (l \o r)[n] = l[n]
      /\ \A n \in 1 .. Len(r) : (l \o r)[n + Len(l)] = r[n]
  OBVIOUS
<1>2. At(l \o r, v) = At(l, v) \cup Behind /\ At(l, v) \cap Behind = {}
  BY <1>1 DEF At
<1>3. shift \in Bijection(At(r, v), Behind)
  <2>1. \A n \in At(r, v) : n + Len(l) \in Behind
    BY <1>1 DEF At
  <2>2. \A n, m \in At(r, v) : n + Len(l) = m + Len(l) => n = m
    BY <1>1 DEF At
  <2>3. \A m \in Behind : \E n \in At(r, v) : n + Len(l) = m
    <3> TAKE m \in Behind
    <3>1. m - Len(l) \in 1 .. Len(r) /\ (m - Len(l)) + Len(l) = m
      BY <1>1
    <3>2. r[m - Len(l)] = v
      BY <1>1, <3>1
    <3>3. m - Len(l) \in At(r, v)
      BY <3>1, <3>2 DEF At
    <3> QED
      BY <3>1, <3>3
  <2> HIDE DEF Behind
  <2> QED
    BY <2>1, <2>2, <2>3 DEF Bijection, Injection, Surjection, IsInjective
<1>4. IsFiniteSet(At(l, v)) /\ IsFiniteSet(At(r, v)) /\ Count(l, v) \in Nat /\ Count(r, v) \in Nat
  BY <1>1, PlacesFinite
<1> HIDE DEF Behind, shift
<1>5. IsFiniteSet(Behind) /\ Cardinality(Behind) = Count(r, v)
  BY <1>3, <1>4, FS_Bijection DEF ExistsBijection, Count
<1>6. Cardinality(At(l, v) \cap Behind) = 0
  BY <1>2, FS_EmptySet
<1>7. Cardinality(At(l, v) \cup Behind)
        = Cardinality(At(l, v)) + Cardinality(Behind) - Cardinality(At(l, v) \cap Behind)
  BY <1>4, <1>5, FS_Union
<1>8. Count(l \o r, v) = Count(l, v) + Count(r, v) - 0
  BY <1>2, <1>5, <1>6, <1>7 DEF Count
<1> QED
  BY <1>4, <1>8

\* An item adds its weight to the count of its value.
LEMMA CountRepeated ==
  ASSUME NEW i \in 1 .. N, NEW v
  PROVE  /\ Repeated(i) \in Seq(Values)
         /\ Count(Repeated(i), v) = Added(i, v)
<1> DEFINE w == WeightedItems[i].weight
<1>0. w \in Int /\ WeightedItems[i].value \in Values
  BY ItemsListed
<1>1. CASE w > 0
  <2>1. Repeated(i) \in Seq(Values) /\ Len(Repeated(i)) = w
    BY <1>0, <1>1 DEF Repeated
  <2>2. \A n \in 1 .. w : Repeated(i)[n] = WeightedItems[i].value
    BY DEF Repeated
  <2>3. At(Repeated(i), v) = IF WeightedItems[i].value = v THEN 1 .. w ELSE {}
    BY <2>1, <2>2 DEF At
  <2>4. Cardinality(1 .. w) = w /\ Cardinality({}) = 0
    BY <1>0, <1>1, FS_Interval, FS_EmptySet
  <2> QED
    BY <1>1, <2>1, <2>3, <2>4 DEF Count, Added
<1>2. CASE ~(w > 0)
  <2>1. 1 .. w = {} /\ 1 .. 0 = {}
    BY <1>0, <1>2
  <2>2. Repeated(i) = <<>>
    BY <2>1 DEF Repeated
  <2>3. Added(i, v) = 0
    BY <1>2 DEF Added
  <2> QED
    BY <2>2, <2>3, CountEmpty
<1> QED
  BY <1>1, <1>2

\* The bag holds each value as often as its weight.
LEMMA FilledHoldsWeights ==
  /\ Filled \in Seq(Values)
  /\ \A v : Count(Filled, v) = Weight(v) /\ Weight(v) \in Nat
<1> SUFFICES ASSUME NEW v
             PROVE  /\ Filled \in Seq(Values)
                    /\ Count(Filled, v) = Weight(v) /\ Weight(v) \in Nat
  OBVIOUS
<1>0. N \in Nat
  BY ItemsListed
<1> DEFINE Good(i) == /\ FillOf[1 .. i] \in Seq(Values)
                      /\ WeightOf(v)[1 .. i] \in Nat
                      /\ Count(FillOf[1 .. i], v) = WeightOf(v)[1 .. i]
           Bad == {i \in 0 .. N : ~Good(i)}
<1>1. Good(0)
  <2>1. FillOf[1 .. 0] = <<>> /\ WeightOf(v)[1 .. 0] = 0
    BY FillByItems, WeightByItems
  <2> QED
    BY <2>1, CountEmpty
<1>2. ASSUME NEW i \in 1 .. N, Good(i - 1) PROVE Good(i)
  <2>0. WeightOf(v)[1 .. i - 1] \in Int
    BY <1>2
  <2>1. /\ FillOf[1 .. i] = FillOf[1 .. i - 1] \o Repeated(i)
        /\ WeightOf(v)[1 .. i] = WeightOf(v)[1 .. i - 1] + Added(i, v)
    <3> HIDE DEF Good
    <3> QED
      BY <2>0, FillByItems, WeightByItems, Zenon
  <2>2. Repeated(i) \in Seq(Values) /\ Count(Repeated(i), v) = Added(i, v)
    BY CountRepeated
  <2>3. Added(i, v) \in Nat
    BY ItemsListed DEF Added
  <2>4. FillOf[1 .. i] \in Seq(Values)
    BY <1>2, <2>1, <2>2
  <2>5. Count(FillOf[1 .. i], v) = Count(FillOf[1 .. i - 1], v) + Count(Repeated(i), v)
    BY <1>2, <2>1, <2>2, CountConcat
  <2> QED
    BY <1>2, <2>1, <2>2, <2>3, <2>4, <2>5
<1> HIDE DEF Good
<1>3. Good(N)
  <2> SUFFICES ASSUME ~Good(N) PROVE FALSE
    OBVIOUS
  <2>1. Bad \subseteq Nat /\ N \in Bad
    BY <1>0
  <2>2. PICK i \in Bad : \A j \in Bad : i <= j
    <3> HIDE DEF Bad
    <3> QED
      BY <2>1, LeastNumber
  <2>3. i \in 1 .. N /\ i - 1 \in 0 .. N
    BY <1>0, <1>1
  <2>4. i - 1 \notin Bad
    <3> HIDE DEF Bad
    <3> QED
      BY <2>2, <2>3
  <2> QED
    BY <1>2, <2>3, <2>4
<1> QED
  BY <1>3, FilledIsFold, WeightIsFold DEF Good

\* A permuted list holds each value as often.
LEMMA PermutedCounts ==
  ASSUME NEW V, NEW l \in Seq(V), NEW p \in Bijection(DOMAIN l, DOMAIN l), NEW v
  PROVE  LET m == [n \in DOMAIN l |-> l[p[n]]]
         IN  m \in Seq(V) /\ Len(m) = Len(l) /\ Count(m, v) = Count(l, v)
<1> DEFINE m == [n \in DOMAIN l |-> l[p[n]]]
<1>1. Len(l) \in Nat /\ DOMAIN l = 1 .. Len(l)
  OBVIOUS
<1>2. /\ p \in [DOMAIN l -> DOMAIN l]
      /\ \A n, k \in DOMAIN l : p[n] = p[k] => n = k
      /\ \A k \in DOMAIN l : \E n \in DOMAIN l : p[n] = k
  BY DEF Bijection, Injection, Surjection, IsInjective
<1>3. m \in Seq(V) /\ Len(m) = Len(l)
  BY <1>1, <1>2
<1> DEFINE q == [n \in At(m, v) |-> p[n]]
<1>4. q \in Bijection(At(m, v), At(l, v))
  <2>1. \A n \in At(m, v) : n \in DOMAIN l /\ p[n] \in At(l, v)
    BY <1>1, <1>2, <1>3 DEF At
  <2>2. \A k \in At(l, v) : \E n \in At(m, v) : p[n] = k
    BY <1>1, <1>2, <1>3 DEF At
  <2> HIDE DEF m
  <2> QED
    BY <1>2, <2>1, <2>2 DEF Bijection, Injection, Surjection, IsInjective
<1>5. IsFiniteSet(At(m, v))
  BY <1>1, <1>3, PlacesFinite
<1> HIDE DEF q
<1>6. Cardinality(At(l, v)) = Cardinality(At(m, v))
  <2> HIDE DEF m
  <2> QED
    BY <1>4, <1>5, FS_Bijection DEF ExistsBijection
<1> QED
  BY <1>3, <1>6 DEF Count

\* So does a shuffled bag.
LEMMA ShuffledHoldsWeights ==
  ASSUME NEW s \in Seeds
  PROVE  /\ Shuffle(s, Filled) \in Seq(ToSet(Filled))
         /\ Len(Shuffle(s, Filled)) = Len(Filled)
         /\ Len(Filled) \in Nat \ {0}
         /\ \A v : Count(Shuffle(s, Filled), v) = Weight(v)
<1>1. Filled \in Seq(Values) /\ Filled # <<>>
  BY FilledHoldsWeights, BagAssumption
<1>2. /\ Len(Filled) \in Nat \ {0} /\ DOMAIN Filled = 1 .. Len(Filled)
  BY <1>1
<1>3. Filled \in Seq(ToSet(Filled))
  <2>1. \A n \in 1 .. Len(Filled) : Filled[n] \in ToSet(Filled)
    BY <1>2 DEF ToSet
  <2> QED
    BY <1>1, <2>1
<1>4. PICK p \in Bijection(DOMAIN Filled, DOMAIN Filled) :
        Shuffle(s, Filled) = [n \in DOMAIN Filled |-> Filled[p[n]]]
  BY BagAssumption
<1>5. ASSUME NEW v
      PROVE  /\ Shuffle(s, Filled) \in Seq(ToSet(Filled))
             /\ Len(Shuffle(s, Filled)) = Len(Filled)
             /\ Count(Shuffle(s, Filled), v) = Count(Filled, v)
  BY <1>3, <1>4, PermutedCounts
<1> QED
  BY <1>2, <1>5, FilledHoldsWeights

-----------------------------------------------------------------------------
(* BagDraw: saving and going on                                              *)

\* What was drawn is the beginning of the bag that the seed gives; the saved
\* numbers say of which bag, and how much of it, had been drawn.
PrefixInv ==
  /\ drawBag = Shuffle(seed, Filled)
  /\ drawn = SubSeq(drawBag, 1, index)
  /\ saved # NotSaved => savedDrawn = SubSeq(Shuffle(saved.seed, Filled), 1, saved.index)

BagInv == BagTypeOK /\ PrefixInv

\* A beginning of a list is a list, and one longer with the element that follows.
LEMMA Beginnings ==
  ASSUME NEW V, NEW l \in Seq(V), NEW i \in 0 .. Len(l)
  PROVE  /\ SubSeq(l, 1, i) \in Seq(V) /\ Len(SubSeq(l, 1, i)) = i
         /\ \A n \in 1 .. i : SubSeq(l, 1, i)[n] = l[n]
         /\ i < Len(l) => SubSeq(l, 1, i + 1) = Append(SubSeq(l, 1, i), l[i + 1])
<1>1. /\ SubSeq(l, 1, i) \in Seq(V) /\ Len(SubSeq(l, 1, i)) = i
      /\ \A n \in 1 .. i : SubSeq(l, 1, i)[n] = l[n]
  OBVIOUS
<1>2. ASSUME i < Len(l) PROVE SubSeq(l, 1, i + 1) = Append(SubSeq(l, 1, i), l[i + 1])
  <2>1. i + 1 \in 1 .. Len(l) /\ l[i + 1] \in V
    BY <1>2
  <2>2. /\ SubSeq(l, 1, i + 1) \in Seq(V) /\ Len(SubSeq(l, 1, i + 1)) = i + 1
        /\ \A n \in 1 .. i + 1 : SubSeq(l, 1, i + 1)[n] = l[n]
    BY <2>1
  <2>3. /\ Append(SubSeq(l, 1, i), l[i + 1]) \in Seq(V)
        /\ Len(Append(SubSeq(l, 1, i), l[i + 1])) = i + 1
        /\ \A n \in 1 .. i + 1 : Append(SubSeq(l, 1, i), l[i + 1])[n] = l[n]
    BY <1>1, <2>1
  <2> QED
    BY <2>2, <2>3, SeqEqual
<1> QED
  BY <1>1, <1>2

\* A new bag is undrawn and unsaved.
LEMMA BagInvInit == BagInit => BagInv
<1> SUFFICES ASSUME BagInit PROVE BagInv
  OBVIOUS
<1>1. /\ drawBag \in Seq(ToSet(Filled)) /\ Len(drawBag) = Len(Filled) /\ Len(Filled) \in Nat
  BY ShuffledHoldsWeights DEF BagInit
<1>2. BagTypeOK
  BY <1>1 DEF BagInit, BagTypeOK
<1>3. PrefixInv
  <2>1. SubSeq(drawBag, 1, 0) = <<>>
    BY <1>1
  <2> QED
    BY <2>1 DEF BagInit, PrefixInv
<1> QED
  BY <1>2, <1>3 DEF BagInv

\* Every call keeps the draws a beginning of the bag.
LEMMA BagInvStep == BagInv /\ [BagNext]_bagVars => BagInv'
<1> SUFFICES ASSUME BagInv, [BagNext]_bagVars PROVE BagInv'
  OBVIOUS
<1> USE DEF BagInv, BagTypeOK, PrefixInv
<1>0. /\ seed \in Seeds /\ drawBag \in Seq(ToSet(Filled)) /\ Len(drawBag) = Len(Filled)
      /\ Len(Filled) \in Nat \ {0} /\ index \in 0 .. Len(Filled)
      /\ drawBag = Shuffle(seed, Filled)
  BY ShuffledHoldsWeights
<1>1. CASE DrawRest
  <2>1. index + 1 \in 0 .. Len(drawBag) /\ index < Len(drawBag)
    BY <1>0, <1>1 DEF DrawRest
  <2>2. /\ index' = index + 1 /\ drawn' = Append(drawn, drawBag[index + 1])
        /\ UNCHANGED <<drawBag, seed, saved, savedDrawn>>
    BY <1>1 DEF DrawRest
  <2>3. index \in 0 .. Len(drawBag)
    BY <1>0
  <2>4. SubSeq(drawBag, 1, index + 1) = Append(SubSeq(drawBag, 1, index), drawBag[index + 1])
    BY <1>0, <2>1, <2>3, Beginnings, Zenon
  <2>5. SubSeq(drawBag, 1, index + 1) \in Seq(ToSet(Filled))
    BY <1>0, <2>1, Beginnings, Zenon
  <2> QED
    BY <1>0, <2>1, <2>2, <2>4, <2>5
<1>2. ASSUME NEW s \in Seeds, DrawNewCycle(s) PROVE BagInv'
  <2>1. /\ drawBag' \in Seq(ToSet(Filled)) /\ Len(drawBag') = Len(Filled)
        /\ drawBag' = Shuffle(s, Filled) /\ seed' = s /\ index' = 1
        /\ drawn' = <<drawBag'[1]>> /\ UNCHANGED <<saved, savedDrawn>>
    BY <1>2, ShuffledHoldsWeights DEF DrawNewCycle, TakesSeed
  <2>2. 1 \in 1 .. Len(drawBag') /\ drawBag'[1] \in ToSet(Filled)
    BY <1>0, <2>1
  <2>3. <<drawBag'[1]>> \in Seq(ToSet(Filled))
    BY <2>2
  <2>4. SubSeq(drawBag', 1, 1) = <<drawBag'[1]>>
    <3>1. 1 \in 0 .. Len(drawBag')
      BY <2>2
    <3>2. /\ SubSeq(drawBag', 1, 1) \in Seq(ToSet(Filled)) /\ Len(SubSeq(drawBag', 1, 1)) = 1
          /\ \A n \in 1 .. 1 : SubSeq(drawBag', 1, 1)[n] = drawBag'[n]
      BY <2>1, <3>1, Beginnings, Zenon
    <3>3. SubSeq(drawBag', 1, 1)[1] = drawBag'[1]
      BY <3>2
    <3>4. Len(<<drawBag'[1]>>) = 1 /\ <<drawBag'[1]>>[1] = drawBag'[1]
      OBVIOUS
    <3> DEFINE one == <<drawBag'[1]>>
    <3> HIDE DEF one
    <3>5. \A n \in 1 .. 1 : SubSeq(drawBag', 1, 1)[n] = one[n]
      BY <3>3, <3>4 DEF one
    <3>6. one \in Seq(ToSet(Filled)) /\ Len(one) = 1
      BY <2>3, <3>4 DEF one
    <3>7. SubSeq(drawBag', 1, 1) = one
      BY <3>2, <3>5, <3>6, SeqEqual
    <3> QED
      BY <3>7 DEF one
  <2> QED
    BY <1>0, <2>1, <2>2, <2>3, <2>4
<1>3. CASE SaveState
  <2>1. /\ saved' = [seed |-> seed, bag_size |-> Len(Filled), index |-> index]
        /\ savedDrawn' = drawn
        /\ UNCHANGED <<drawBag, seed, index, drawn>>
    BY <1>0, <1>3 DEF SaveState
  <2>2. saved' \in [seed : Seeds, bag_size : {Len(Filled)}, index : 0 .. Len(Filled)]
    BY <1>0, <2>1
  <2>3. saved'.seed = seed /\ saved'.index = index
    BY <2>1
  <2>4. BagTypeOK'
    BY <2>1, <2>2
  <2>5. PrefixInv'
    BY <2>1, <2>3
  <2> QED
    BY <2>4, <2>5
<1>4. CASE Restore
  <2>1. /\ saved \in [seed : Seeds, bag_size : {Len(Filled)}, index : 0 .. Len(Filled)]
        /\ savedDrawn = SubSeq(Shuffle(saved.seed, Filled), 1, saved.index)
    BY <1>4 DEF Restore
  <2>2. saved.seed \in Seeds /\ saved.index \in 0 .. Len(Filled)
    BY <2>1
  <2>3. /\ seed' = saved.seed /\ drawBag' = Shuffle(saved.seed, Filled)
        /\ index' = saved.index /\ drawn' = savedDrawn /\ UNCHANGED <<saved, savedDrawn>>
    BY <1>4 DEF Restore
  <2>4. drawBag' \in Seq(ToSet(Filled)) /\ Len(drawBag') = Len(Filled)
    BY <2>2, <2>3, ShuffledHoldsWeights
  <2>5. BagTypeOK'
    BY <2>2, <2>3, <2>4
  <2>6. PrefixInv'
    BY <2>1, <2>3
  <2> QED
    BY <2>5, <2>6
<1>5. CASE UNCHANGED bagVars
  BY <1>5 DEF bagVars
<1> QED
  BY <1>1, <1>2, <1>3, <1>4, <1>5 DEF BagNext

\* The beginning and the rest of the bag hold what all of it holds.
LEMMA BagIsWhole == BagInv => CyclesAreWhole
<1> SUFFICES ASSUME BagInv, NEW v \in ToSet(Filled)
             PROVE  Cardinality({n \in 1 .. Len(drawn) : drawn[n] = v})
                      + Cardinality({n \in index + 1 .. Len(drawBag) : drawBag[n] = v}) = Weight(v)
  BY DEF CyclesAreWhole
<1> DEFINE Begun == {n \in 1 .. Len(drawn) : drawn[n] = v}
           Rest == {n \in index + 1 .. Len(drawBag) : drawBag[n] = v}
<1>1. /\ drawBag \in Seq(ToSet(Filled)) /\ index \in 0 .. Len(drawBag)
      /\ drawn = SubSeq(drawBag, 1, index)
      /\ Count(drawBag, v) = Weight(v) /\ Weight(v) \in Nat
  BY ShuffledHoldsWeights, FilledHoldsWeights DEF BagInv, BagTypeOK, PrefixInv
<1>2. Len(drawn) = index /\ \A n \in 1 .. index : drawn[n] = drawBag[n]
  <2>1. /\ Len(SubSeq(drawBag, 1, index)) = index
        /\ \A n \in 1 .. index : SubSeq(drawBag, 1, index)[n] = drawBag[n]
    BY <1>1, Beginnings, Zenon
  <2> QED
    BY <1>1, <2>1
<1>3. Begun \cup Rest = At(drawBag, v) /\ Begun \cap Rest = {}
  BY <1>1, <1>2 DEF At
<1>4. IsFiniteSet(At(drawBag, v))
  BY <1>1, PlacesFinite
<1> HIDE DEF Begun, Rest
<1>5. /\ IsFiniteSet(Begun) /\ IsFiniteSet(Rest)
      /\ Cardinality(Begun) \in Nat /\ Cardinality(Rest) \in Nat
  <2>1. Begun \in SUBSET At(drawBag, v) /\ Rest \in SUBSET At(drawBag, v)
    BY <1>3
  <2>2. IsFiniteSet(Begun) /\ IsFiniteSet(Rest)
    BY <1>4, <2>1, FS_Subset
  <2> QED
    BY <2>2, FS_CardinalityType
<1>6. Cardinality(Begun \cup Rest)
        = Cardinality(Begun) + Cardinality(Rest) - Cardinality(Begun \cap Rest)
  BY <1>5, FS_Union
<1>7. Cardinality(Begun \cap Rest) = 0
  BY <1>3, FS_EmptySet
<1>8. Cardinality(Begun) + Cardinality(Rest) = Weight(v)
  <2>1. Cardinality(Begun \cup Rest) = Weight(v)
    BY <1>1, <1>3 DEF Count
  <2> QED
    BY <1>5, <1>6, <1>7, <2>1
<1> QED
  BY <1>8 DEF Begun, Rest

\* A bag keeps its type: an index never leaves the list, and a saved state is one
\* that this bag had.
THEOREM BagTypeCorrect == BagSpec => []BagTypeOK
<1>1. BagInv => BagTypeOK
  BY DEF BagInv
<1> QED
  BY <1>1, BagInvInit, BagInvStep, PTL DEF BagSpec

\* However often a bag is saved and built again, in whichever cycle, the draws of
\* the cycle and the rest of the bag hold each value as often as its weight.
THEOREM CyclesAreWholeSafe == BagSpec => []CyclesAreWhole
<1> QED
  BY BagIsWhole, BagInvInit, BagInvStep, PTL DEF BagSpec
===============================================================================
