----------------------------- MODULE ClientProofs -----------------------------
(***************************************************************************)
(* Theorems about the client's containers, prompts and views, for any      *)
(* items, kinds, capacities, prompts, views and sequences of calls.        *)
(***************************************************************************)
EXTENDS ClientItems, ClientPrompts, ClientViews, FiniteSetTheorems,
        SequenceTheorems, WellFoundedInduction, TLAPS

-----------------------------------------------------------------------------
(* ClientViews                                                               *)

ViewsInv == ViewsTypeOK /\ ViewsFollowTheirSource

\* Binding a view subscribes it to its new container and to that one only.
LEMMA BindKeepsViews ==
  ASSUME ViewsInv, NEW v \in Views, NEW c \in Sources \cup {NoSource}, BindComponent(v, c),
         constructed' \subseteq Views, destructed' = destructed
  PROVE  ViewsInv'
<1> USE ViewsAssumption
<1> USE DEF ViewsInv, ViewsTypeOK, ViewsFollowTheirSource
<1>1. CASE BindAgain(v, c)
  BY <1>1 DEF BindAgain
<1>2. CASE BindTo(v, c)
  <2>1. /\ bound' = [bound EXCEPT ![v] = c]
        /\ \A w \in Views : \A s \in Sources :
             <<w, s>> \in listeners' <=>
               \/ <<w, s>> \in listeners /\ <<w, s>> # <<v, bound[v]>>
               \/ w = v /\ s = c
        /\ listeners' \subseteq Views \X Sources
        /\ missed' \subseteq missed
        /\ v \in missed' => c = NoSource
    BY <1>2 DEF BindTo, Unsubscribed
  <2>2. ViewsTypeOK'
    BY <2>1
  <2>3. ASSUME NEW w \in Views, NEW s \in Sources, <<w, s>> \in listeners'
        PROVE  bound'[w] = s
    BY <2>1, <2>3
  <2>4. ASSUME NEW w \in Views, bound'[w] # NoSource, w \in Forgetful \/ w \notin destructed
        PROVE  <<w, bound'[w]>> \in listeners' /\ w \notin missed'
    <3>1. CASE w = v
      BY <2>1, <2>4, <3>1
    <3>2. CASE w # v
      <4>1. bound'[w] = bound[w] /\ bound[w] \in Sources
        BY <2>1, <2>4, <3>2
      <4>2. <<w, bound[w]>> \in listeners /\ w \notin missed
        BY <2>4, <4>1
      <4> QED
        BY <2>1, <3>2, <4>1, <4>2
    <3> QED
      BY <3>1, <3>2
  <2> QED
    BY <2>2, <2>3, <2>4
<1> QED
  BY <1>1, <1>2 DEF BindComponent

\* Every step of the views keeps the invariant.
LEMMA ViewsInvStep == ViewsInv /\ [ViewsNext]_viewVars => ViewsInv'
<1> SUFFICES ASSUME ViewsInv, [ViewsNext]_viewVars PROVE ViewsInv'
  OBVIOUS
<1>1. ASSUME NEW v \in Views, NativeConstruct(v) PROVE ViewsInv'
  <2>1. OwnSource[v] \in Sources \cup {NoSource}
    BY ViewsAssumption
  <2> QED
    BY <1>1, <2>1, BindKeepsViews DEF NativeConstruct, ViewsInv, ViewsTypeOK
<1>2. ASSUME NEW v \in Views, NativeDestruct(v) PROVE ViewsInv'
  <2> USE ViewsAssumption
  <2> USE DEF ViewsInv, ViewsTypeOK, ViewsFollowTheirSource
  <2>1. /\ listeners' \subseteq listeners
        /\ \A s \in Sources : <<v, s>> \notin listeners'
        /\ \A w \in Views \ {v} : \A s \in Sources :
             <<w, s>> \in listeners' <=> <<w, s>> \in listeners
        /\ missed' = missed /\ destructed' = destructed \cup {v}
    BY <1>2 DEF NativeDestruct, Unsubscribed
  <2>2. /\ bound' \in [Views -> Sources \cup {NoSource}]
        /\ \A w \in Views \ {v} : bound'[w] = bound[w]
        /\ v \in Forgetful => bound'[v] = NoSource
    BY <1>2 DEF NativeDestruct
  <2>3. constructed' \subseteq Views
    BY <1>2 DEF NativeDestruct
  <2>4. ASSUME NEW w \in Views \ {v}
        PROVE  /\ \A s \in Sources : <<w, s>> \in listeners' => bound'[w] = s
               /\ bound'[w] # NoSource /\ (w \in Forgetful \/ w \notin destructed') =>
                    <<w, bound'[w]>> \in listeners' /\ w \notin missed'
    BY <2>1, <2>2
  <2> QED
    BY <2>1, <2>2, <2>3, <2>4
<1>3. ASSUME NEW v \in Views, RootBinds(v) PROVE ViewsInv'
  <2>1. PICK s \in SourcesOf[v] \cup {NoSource} : BindComponent(v, s)
    BY <1>3 DEF RootBinds
  <2>2. s \in Sources \cup {NoSource}
    BY ViewsAssumption
  <2> QED
    BY <1>3, <2>1, <2>2, BindKeepsViews DEF RootBinds, ViewsInv, ViewsTypeOK
<1>4. ASSUME NEW c \in Sources, Announces(c) PROVE ViewsInv'
  BY <1>4 DEF Announces, ViewsInv, ViewsTypeOK, ViewsFollowTheirSource
<1>5. CASE UNCHANGED viewVars
  BY <1>5 DEF viewVars, ViewsInv, ViewsTypeOK, ViewsFollowTheirSource
<1> QED
  BY <1>1, <1>2, <1>3, <1>4, <1>5 DEF ViewsNext

\* To begin with no view has been constructed, and nobody listens.
LEMMA ViewsInvInit == ViewsInit => ViewsInv
BY DEF ViewsInit, ViewsInv, ViewsTypeOK, ViewsFollowTheirSource

\* A view is bound to, and listens to, containers only.
THEOREM ViewsTypeCorrect == ViewsSpec => []ViewsTypeOK
<1>1. ViewsInv => ViewsTypeOK
  BY DEF ViewsInv
<1> QED
  BY <1>1, ViewsInvInit, ViewsInvStep, PTL DEF ViewsSpec

\* However often views are shown, hidden and bound, none is repainted for a
\* container that it has left, and none misses a change of its own one, except
\* those that were hidden and keep their pointer.
THEOREM ViewsFollowSafe == ViewsSpec => []ViewsFollowTheirSource
<1>1. ViewsInv => ViewsFollowTheirSource
  BY DEF ViewsInv
<1> QED
  BY <1>1, ViewsInvInit, ViewsInvStep, PTL DEF ViewsSpec

-----------------------------------------------------------------------------
(* ClientPrompts                                                             *)

\* A sequence is its first element before the others, and to put one before a
\* sequence changes nothing of what comes after.
LEMMA Heads ==
  ASSUME NEW S, NEW s \in Seq(S), NEW a \in S, NEW b \in S
  PROVE  /\ s # <<>> => <<Head(s)>> \o Tail(s) = s /\ Head(s) \in S /\ Tail(s) \in Seq(S)
         /\ <<a>> \o s # <<>> /\ Tail(<<a>> \o s) = s
         /\ <<a>> \o Append(s, b) = Append(<<a>> \o s, b)
         /\ <<a>> \o <<>> = <<a>> /\ Tail(<<a>>) = <<>> /\ Append(<<>>, b) = <<b>>
<1>1. s # <<>> => <<Head(s)>> \o Tail(s) = s /\ Head(s) \in S /\ Tail(s) \in Seq(S)
  OBVIOUS
<1>2. <<a>> \o s # <<>> /\ Tail(<<a>> \o s) = s
  OBVIOUS
<1>3. <<a>> \o Append(s, b) = Append(<<a>> \o s, b)
  OBVIOUS
<1>4. <<a>> \o <<>> = <<a>> /\ Tail(<<a>>) = <<>> /\ Append(<<>>, b) = <<b>>
  OBVIOUS
<1> QED
  BY <1>1, <1>2, <1>3, <1>4

\* Nothing waits behind no active prompt; a toast is not answered; and the
\* answer of a consent prompt whose listeners only push is to the active one.
PromptsInv ==
  /\ PromptsTypeOK
  /\ active = NoPrompt => pending = <<>>
  /\ widget = "toast" => answering = <<>>
  /\ widget = "consent" /\ answering # <<>> =>
       Len(answering) = 1 /\ answering[1] = active /\ active # NoPrompt

\* Going on to the next prompt takes the first one off the line.
LEMMA AdvanceMovesLine ==
  ASSUME PromptsInv, Advance
  PROVE  /\ active' \in Ids \cup {NoPrompt} /\ pending' \in Seq(Ids)
         /\ active' = NoPrompt => pending' = <<>>
         /\ active = NoPrompt => Line' = Line
         /\ active # NoPrompt => Line # <<>> /\ Line' = Tail(Line)
<1> USE DEF PromptsInv, PromptsTypeOK, Line
<1>1. CASE pending = <<>>
  <2>1. active' = NoPrompt /\ pending' = <<>>
    BY <1>1 DEF Advance
  <2>2. active # NoPrompt => Line = <<active>> /\ Line' = <<>> /\ Tail(<<active>>) = <<>>
    BY <1>1, <2>1, Heads
  <2> QED
    BY <1>1, <2>1, <2>2
<1>2. CASE pending # <<>>
  <2>1. active' = Head(pending) /\ pending' = Tail(pending) /\ active \in Ids
    BY <1>2 DEF Advance
  <2>2. /\ active' \in Ids /\ pending' \in Seq(Ids) /\ <<active'>> \o pending' = pending
        /\ Tail(<<active>> \o pending) = pending /\ <<active>> \o pending # <<>>
    BY <1>2, <2>1, Heads
  <2>3. active # NoPrompt /\ active' # NoPrompt
    BY <1>2, <2>2, PromptsAssumption
  <2> QED
    BY <2>2, <2>3
<1> QED
  BY <1>1, <1>2

\* Every step of the prompts keeps the invariant.
LEMMA PromptsInvStep == PromptsInv /\ [PromptsNext]_promptVars => PromptsInv'
<1> SUFFICES ASSUME PromptsInv, [PromptsNext]_promptVars PROVE PromptsInv'
  OBVIOUS
<1>1. ASSUME NEW id \in Ids, PushPrompt(id) PROVE PromptsInv'
  <2> USE PromptsAssumption DEF PromptsInv, PromptsTypeOK
  <2>1. CASE active = NoPrompt
    BY <1>1, <2>1 DEF PushPrompt
  <2>2. CASE active # NoPrompt
    <3>1. pending' = Append(pending, id) /\ UNCHANGED <<widget, active, answering>>
      BY <1>1, <2>2 DEF PushPrompt
    <3>2. Append(pending, id) \in Seq(Ids)
      OBVIOUS
    <3> QED
      BY <2>2, <3>1, <3>2
  <2> QED
    BY <2>1, <2>2
<1>2. CASE RespondBegins
  <2>1. /\ answering' = Append(answering, active) /\ active \in Ids
        /\ UNCHANGED <<widget, active, pending>>
        /\ widget = "consent" => answering = <<>>
        /\ widget # "toast" /\ Len(answering) < MaxNesting
    BY <1>2 DEF RespondBegins, Called, PromptsInv, PromptsTypeOK
  <2>2. answering' \in Seq(Ids) /\ Len(answering') <= MaxNesting
    BY <2>1, PromptsAssumption DEF PromptsInv, PromptsTypeOK
  <2>3. widget = "consent" => Len(answering') = 1 /\ answering'[1] = active
    BY <2>1
  <2> QED
    BY <2>1, <2>2, <2>3, PromptsAssumption DEF PromptsInv, PromptsTypeOK
<1>3. CASE RespondEnds
  <2>1. /\ answering' = Front(answering) /\ widget' = widget /\ answering # <<>> /\ Advance
    BY <1>3 DEF RespondEnds
  <2>2. answering' \in Seq(Ids) /\ Len(answering') = Len(answering) - 1
    <3>1. answering \in Seq(Ids) /\ Len(answering) >= 1
      BY <2>1, EmptySeq DEF PromptsInv, PromptsTypeOK
    <3>2. \A n \in 1 .. Len(answering) - 1 : answering[n] \in Ids
      BY <3>1
    <3>3. 1 \in Int /\ Len(answering) - 1 \in Int /\ answering' = SubSeq(answering, 1, Len(answering) - 1)
      BY <2>1, <3>1 DEF Front
    <3>4. /\ SubSeq(answering, 1, Len(answering) - 1) \in Seq(Ids)
          /\ Len(SubSeq(answering, 1, Len(answering) - 1))
               = IF 1 <= Len(answering) - 1 THEN Len(answering) - 1 - 1 + 1 ELSE 0
      BY ONLY <3>2, <3>3, SubSeqProperties
    <3>5. \A n \in Nat : n >= 1 => (IF 1 <= n - 1 THEN n - 1 - 1 + 1 ELSE 0) = n - 1
      OBVIOUS
    <3>6. Len(answering) \in Nat
      BY <3>1
    <3>7. Len(SubSeq(answering, 1, Len(answering) - 1)) = Len(answering) - 1
      BY ONLY <3>1, <3>4, <3>5, <3>6
    <3> QED
      BY ONLY <3>3, <3>4, <3>7
  <2>3. widget = "consent" => answering' = <<>>
    <3>1. widget = "consent" => Len(answering') = 0
      BY <2>1, <2>2 DEF PromptsInv
    <3> QED
      BY <2>2, <3>1, EmptySeq
  <2> QED
    BY <2>1, <2>2, <2>3, AdvanceMovesLine, PromptsAssumption DEF PromptsInv, PromptsTypeOK
<1>4. CASE DismissActive
  BY <1>4, AdvanceMovesLine DEF DismissActive, PromptsInv, PromptsTypeOK
<1>5. CASE ClearAllPrompts
  BY <1>5 DEF ClearAllPrompts, Called, PromptsInv, PromptsTypeOK
<1>6. CASE UNCHANGED promptVars
  BY <1>6 DEF promptVars, PromptsInv, PromptsTypeOK
<1> QED
  BY <1>1, <1>2, <1>3, <1>4, <1>5, <1>6 DEF PromptsNext

\* What a step may do to the line.
TurnTaken ==
  \/ Line' = Line
  \/ \E id \in Ids \ ToSet(Line) : Line' = Append(Line, id)
  \/ /\ Line # <<>> /\ Line' = Tail(Line)
     /\ widget = "consent" => ClearAllPrompts \/ active = Last(answering)
  \/ Line' = <<>> /\ ClearAllPrompts

\* An id that the widget does not know is not in the line and joins its end.
LEMMA PushJoinsLine ==
  ASSUME PromptsInv, NEW id \in Ids, PushPrompt(id)
  PROVE  id \notin ToSet(Line) /\ Line' = Append(Line, id)
<1> USE DEF PromptsInv, PromptsTypeOK
<1>1. id # active /\ id \notin ToSet(pending)
  BY DEF PushPrompt, KnowsPrompt
<1>2. CASE active = NoPrompt
  <2>1. Line = <<>> /\ active' = id /\ pending' = <<>>
    BY <1>2 DEF PushPrompt, Line
  <2>2. Line' = <<id>> \o <<>>
    BY <2>1, PromptsAssumption DEF Line
  <2>3. Line' = Append(Line, id)
    BY <2>1, <2>2, Heads
  <2> QED
    BY <2>1, <2>3 DEF ToSet
<1>3. CASE active # NoPrompt
  <2>1. Line = <<active>> \o pending /\ active \in Ids
    BY <1>3 DEF Line
  <2>2. Line' = <<active>> \o Append(pending, id)
    BY <1>3 DEF PushPrompt, Line
  <2>3. Line' = Append(Line, id)
    BY <2>1, <2>2, Heads
  <2>4. ASSUME NEW n \in 1 .. Len(Line) PROVE Line[n] # id
    <3>1. CASE n = 1
      BY <1>1, <2>1, <3>1
    <3>2. CASE n # 1
      <4>1. Len(Line) = Len(pending) + 1
        BY <2>1
      <4>2. n - 1 \in 1 .. Len(pending) /\ Line[n] = pending[n - 1]
        BY <2>1, <3>2, <4>1
      <4> QED
        BY <1>1, <4>2 DEF ToSet
    <3> QED
      BY <3>1, <3>2
  <2>5. id \notin ToSet(Line)
    BY <2>4 DEF ToSet
  <2> QED
    BY <2>3, <2>5
<1> QED
  BY <1>2, <1>3

\* Every step takes its turn.
LEMMA TurnStep == PromptsInv /\ [PromptsNext]_promptVars => TurnTaken \/ UNCHANGED promptVars
<1> SUFFICES ASSUME PromptsInv, PromptsNext PROVE TurnTaken
  OBVIOUS
<1>1. ASSUME NEW id \in Ids, PushPrompt(id) PROVE TurnTaken
  BY <1>1, PushJoinsLine DEF TurnTaken
<1>2. CASE RespondBegins
  BY <1>2 DEF RespondBegins, Line, TurnTaken
<1>3. CASE RespondEnds
  <2>1. Advance /\ answering # <<>>
    BY <1>3 DEF RespondEnds
  <2>2. widget = "consent" => active = Last(answering)
    BY <2>1 DEF PromptsInv, Last
  <2> QED
    BY <2>1, <2>2, AdvanceMovesLine DEF TurnTaken
<1>4. CASE DismissActive
  BY <1>4, AdvanceMovesLine DEF DismissActive, TurnTaken
<1>5. CASE ClearAllPrompts
  BY <1>5 DEF ClearAllPrompts, Line, TurnTaken
<1> QED
  BY <1>1, <1>2, <1>3, <1>4, <1>5 DEF PromptsNext

\* To begin with there is no prompt.
LEMMA PromptsInvInit == PromptsInit => PromptsInv
BY PromptsAssumption DEF PromptsInit, PromptsInv, PromptsTypeOK

\* Prompts keep their types, and answers nest no deeper than MaxNesting.
THEOREM PromptsTypeCorrect == PromptsSpec => []PromptsTypeOK
<1>1. PromptsInv => PromptsTypeOK
  BY DEF PromptsInv
<1> QED
  BY <1>1, PromptsInvInit, PromptsInvStep, PTL DEF PromptsSpec

\* No prompt is in the line twice, overtakes or is left out; the one that leaves
\* is the first, which has been answered; whatever listeners do in an answer.
THEOREM PromptsLeaveInTurnSafe == PromptsSpec => PromptsLeaveInTurn
<1>1. PromptsInv /\ [PromptsNext]_promptVars => [TurnTaken]_promptVars
  BY TurnStep
<1>2. [TurnTaken]_promptVars
      <=> [\/ Line' = Line
           \/ \E id \in Ids \ ToSet(Line) : Line' = Append(Line, id)
           \/ /\ Line # <<>> /\ Line' = Tail(Line)
              /\ widget = "consent" => ClearAllPrompts \/ active = Last(answering)
           \/ Line' = <<>> /\ ClearAllPrompts]_promptVars
  BY DEF TurnTaken
<1> QED
  BY <1>1, <1>2, PromptsInvInit, PromptsInvStep, PTL DEF PromptsSpec, PromptsLeaveInTurn

-----------------------------------------------------------------------------
(* ClientItems: sums over a kind, as the fold in Total computes them         *)

OfKind(k) == {i \in Items : Kind[i] = k}

Pick(s) == CHOOSE x \in s : TRUE

\* What the fold says of the sum of n over each subset of S.
Adds(n, S, f) ==
  f = [s \in SUBSET S |-> IF s = {} THEN 0 ELSE n[Pick(s)] + f[s \ {Pick(s)}]]

SumOf(n, S) == CHOOSE f : Adds(n, S, f)

\* Total is the fold's sum over the items of a kind.
LEMMA TotalIsSum == \A n, k : Total(n, k) = SumOf(n, OfKind(k))[OfKind(k)]
BY DEF Total, MapThenSumSet, MapThenFoldSet, OfKind, SumOf, Adds, Pick

\* A set of natural numbers has a least one.
LEMMA LeastOfNaturals ==
  ASSUME NEW S, S \subseteq Nat, S # {}
  PROVE  \E m \in S : \A k \in S : m <= k
<1>1. PICK m \in S : \A k \in S : <<k, m>> \notin OpToRel(<, Nat)
  BY NatLessThanWellFounded, WFMin
<1>2. \A k \in S : ~(k < m)
  BY <1>1, Zenon DEF OpToRel
<1> QED
  BY <1>2

\* Without the element that is picked a subset is smaller by one.
LEMMA PickedOut ==
  ASSUME NEW S, IsFiniteSet(S), NEW s \in SUBSET S, s # {}
  PROVE  /\ Pick(s) \in s /\ s \ {Pick(s)} \in SUBSET S
         /\ Cardinality(s) \in Nat /\ Cardinality(s \ {Pick(s)}) \in Nat
         /\ Cardinality(s \ {Pick(s)}) = Cardinality(s) - 1
<1>1. Pick(s) \in s
  BY DEF Pick
<1>2. IsFiniteSet(s)
  BY FS_Subset
<1>3. IsFiniteSet(s \ {Pick(s)}) /\ Cardinality(s \ {Pick(s)}) = Cardinality(s) - 1
  BY <1>1, <1>2, FS_RemoveElement
<1>4. Cardinality(s) \in Nat /\ Cardinality(s \ {Pick(s)}) \in Nat
  BY <1>2, <1>3, FS_CardinalityType
<1> QED
  BY <1>1, <1>3, <1>4

\* The recursion of the fold has a solution: one for the subsets of m elements
\* at most, for every m.
LEMMA SumsExist ==
  ASSUME NEW S, IsFiniteSet(S), NEW n
  PROVE  \A s \in SUBSET S :
           SumOf(n, S)[s] = IF s = {} THEN 0 ELSE n[Pick(s)] + SumOf(n, S)[s \ {Pick(s)}]
<1> DEFINE UpTo(m) == {s \in SUBSET S : Cardinality(s) <= m}
           Of(f, s) == IF s = {} THEN 0 ELSE n[Pick(s)] + f[s \ {Pick(s)}]
           Rec(f, m) == f = [s \in UpTo(m) |-> Of(f, s)]
<1>1. \A m \in Nat : \E f : Rec(f, m)
  <2> SUFFICES ASSUME NEW u \in Nat, ~\E f : Rec(f, u) PROVE FALSE
    OBVIOUS
  <2> DEFINE Without == {m \in Nat : ~\E f : Rec(f, m)}
  <2>1. PICK m \in Without : \A k \in Without : m <= k
    <3>1. Without \subseteq Nat /\ Without # {}
      OBVIOUS
    <3> HIDE DEF Without
    <3> QED
      BY <3>1, LeastOfNaturals
  <2>2. m # 0
    <3>1. UpTo(0) = {{}}
      <4>1. \A s \in SUBSET S : Cardinality(s) <= 0 <=> s = {}
        BY FS_Subset, FS_EmptySet, FS_CardinalityType
      <4> QED
        BY <4>1
    <3>2. Rec([s \in UpTo(0) |-> 0], 0)
      BY <3>1
    <3>3. 0 \notin Without
      BY <3>2
    <3> HIDE DEF Without
    <3> QED
      BY <2>1, <3>3
  <2>3. m - 1 \in Nat /\ m - 1 \notin Without
    <3>1. m \in Nat
      BY <2>1
    <3> HIDE DEF Without
    <3> QED
      BY <2>1, <2>2, <3>1
  <2>4. PICK f : Rec(f, m - 1)
    BY <2>3
  <2> DEFINE g == [s \in UpTo(m) |-> Of(f, s)]
  <2>5. ASSUME NEW s \in UpTo(m) PROVE g[s] = Of(g, s)
    <3>1. CASE s = {}
      BY <3>1
    <3>2. CASE s # {}
      <4> DEFINE r == s \ {Pick(s)}
      <4>1. r \in UpTo(m - 1) /\ r \in UpTo(m)
        BY <2>1, <3>2, PickedOut
      <4>2. f[r] = Of(f, r) /\ g[r] = Of(f, r)
        BY <2>4, <4>1
      <4> QED
        BY <3>2, <4>2
    <3> QED
      BY <3>1, <3>2
  <2>6. Rec(g, m)
    BY <2>5
  <2> QED
    BY <2>1, <2>6
<1>2. Cardinality(S) \in Nat
  BY FS_CardinalityType
<1>3. PICK f : Rec(f, Cardinality(S))
  BY <1>1, <1>2
<1>4. UpTo(Cardinality(S)) = SUBSET S
  BY FS_Subset
<1>5. Adds(n, S, f)
  BY <1>3, <1>4 DEF Adds
<1>6. Adds(n, S, SumOf(n, S))
  BY <1>5 DEF SumOf
<1> QED
  BY <1>6 DEF Adds

\* To change a number changes the sums it is part of by as much.
LEMMA SumFollows ==
  ASSUME NEW S, S \subseteq Items, IsFiniteSet(S),
         NEW n \in [Items -> Nat], NEW m \in [Items -> Nat], NEW d \in Items,
         \A j \in Items \ {d} : m[j] = n[j]
  PROVE  /\ SumOf(n, S)[S] \in Nat /\ SumOf(m, S)[S] \in Nat
         /\ SumOf(m, S)[S] - SumOf(n, S)[S] = IF d \in S THEN m[d] - n[d] ELSE 0
<1> DEFINE N == SumOf(n, S)
           M == SumOf(m, S)
           Good(s) == /\ N[s] \in Nat /\ M[s] \in Nat
                      /\ M[s] - N[s] = IF d \in s THEN m[d] - n[d] ELSE 0
<1>1. \A s \in SUBSET S : /\ N[s] = IF s = {} THEN 0 ELSE n[Pick(s)] + N[s \ {Pick(s)}]
                          /\ M[s] = IF s = {} THEN 0 ELSE m[Pick(s)] + M[s \ {Pick(s)}]
  BY SumsExist
<1> HIDE DEF N, M
<1>2. Good({})
  <2>1. {} \in SUBSET S
    OBVIOUS
  <2>2. N[{}] = 0 /\ M[{}] = 0
    BY <1>1, <2>1
  <2> QED
    BY <2>2
<1>3. ASSUME NEW s \in SUBSET S, s # {}, Good(s \ {Pick(s)}) PROVE Good(s)
  <2> DEFINE x == Pick(s)
             r == s \ {x}
  <2>1. x \in s /\ x \in Items
    BY <1>3, PickedOut
  <2>2. /\ N[r] \in Nat /\ M[r] \in Nat
        /\ M[r] - N[r] = IF d \in r THEN m[d] - n[d] ELSE 0
    BY <1>3
  <2>3. N[s] = n[x] + N[r] /\ M[s] = m[x] + M[r]
    BY <1>1, <1>3
  <2>4. n[x] \in Nat /\ m[x] \in Nat /\ n[d] \in Nat /\ m[d] \in Nat
    BY <2>1
  <2>5. CASE x = d
    <3>1. d \notin r /\ d \in s
      BY <2>1, <2>5
    <3> HIDE DEF x, r
    <3>2. M[r] = N[r] /\ N[r] \in Nat
      BY <2>2, <3>1
    <3>3. N[s] = n[d] + N[r] /\ M[s] = m[d] + N[r]
      BY <2>3, <2>5, <3>2
    <3>4. N[s] \in Nat /\ M[s] \in Nat /\ M[s] - N[s] = m[d] - n[d]
      BY <2>4, <3>2, <3>3
    <3> QED
      BY <3>1, <3>4
  <2>6. CASE x # d
    <3>1. (d \in r <=> d \in s) /\ m[x] = n[x]
      BY <2>1, <2>6
    <3> HIDE DEF x, r
    <3> QED
      BY <2>2, <2>3, <2>4, <3>1
  <2> QED
    BY <2>5, <2>6
<1> HIDE DEF Good
<1>4. \A s \in SUBSET S : Good(s)
  <2> SUFFICES ASSUME NEW u \in SUBSET S, ~Good(u) PROVE FALSE
    OBVIOUS
  <2> DEFINE Sizes == {Cardinality(s) : s \in {t \in SUBSET S : ~Good(t)}}
  <2>1. PICK c \in Sizes : \A k \in Sizes : c <= k
    <3>1. Sizes \subseteq Nat
      BY FS_Subset, FS_CardinalityType
    <3>2. Sizes # {}
      OBVIOUS
    <3> HIDE DEF Sizes
    <3> QED
      BY <3>1, <3>2, LeastOfNaturals
  <2>2. PICK s \in SUBSET S : ~Good(s) /\ c = Cardinality(s)
    BY <2>1
  <2>3. s # {}
    BY <1>2, <2>2
  <2>4. /\ s \ {Pick(s)} \in SUBSET S /\ ~Good(s \ {Pick(s)})
        /\ Cardinality(s \ {Pick(s)}) = c - 1 /\ c \in Nat
    BY <1>3, <2>2, <2>3, PickedOut
  <2>5. c - 1 \in Sizes
    BY <2>4
  <2>6. c <= c - 1
    BY <2>1, <2>5
  <2> QED
    BY <2>4, <2>6
<1> QED
  BY <1>4 DEF Good, N, M

\* So with the number of pieces of a kind.
LEMMA TotalFollows ==
  ASSUME NEW n \in [Items -> Nat], NEW m \in [Items -> Nat], NEW d \in Items,
         \A j \in Items \ {d} : m[j] = n[j], NEW k
  PROVE  /\ Total(n, k) \in Nat /\ Total(m, k) \in Nat
         /\ Total(m, k) - Total(n, k) = IF Kind[d] = k THEN m[d] - n[d] ELSE 0
<1>1. OfKind(k) \subseteq Items /\ IsFiniteSet(OfKind(k)) /\ (d \in OfKind(k) <=> Kind[d] = k)
  BY ItemsAssumption, FS_Subset DEF OfKind
<1>2. Total(n, k) = SumOf(n, OfKind(k))[OfKind(k)] /\ Total(m, k) = SumOf(m, OfKind(k))[OfKind(k)]
  BY TotalIsSum
<1>3. /\ SumOf(n, OfKind(k))[OfKind(k)] \in Nat /\ SumOf(m, OfKind(k))[OfKind(k)] \in Nat
      /\ SumOf(m, OfKind(k))[OfKind(k)] - SumOf(n, OfKind(k))[OfKind(k)]
           = IF d \in OfKind(k) THEN m[d] - n[d] ELSE 0
  BY <1>1, SumFollows
<1> QED
  BY <1>1, <1>2, <1>3

-----------------------------------------------------------------------------
(* ClientItems: stacks                                                       *)

Counts == {n \in [Items -> Nat] : \A i \in Items : n[i] <= MaxStack[Kind[i]]}

\* SetCount never makes a stack too large, and leaves alone what fits.
LEMMA Clamping ==
  ASSUME NEW a \in Nat, NEW b \in Nat
  PROVE  Min({a, b}) \in Nat /\ Min({a, b}) <= a /\ Min({a, b}) <= b /\ (a <= b => Min({a, b}) = a)
<1>1. \E m \in {a, b} : \A k \in {a, b} : m <= k
  OBVIOUS
<1>2. Min({a, b}) \in {a, b} /\ \A k \in {a, b} : Min({a, b}) <= k
  BY <1>1 DEF Min
<1> QED
  BY <1>2

\* Merging one stack into another takes only from the second, keeps within the
\* limits and the total, and does nothing to a stack that is merged into itself.
LEMMA Merging ==
  ASSUME NEW n \in Counts, NEW to \in Items, NEW from \in Items
  PROVE  /\ Merged(n, to, from) \in Counts
         /\ \A j \in Items \ {from} : Merged(n, to, from)[j] >= n[j]
         /\ to = from => Merged(n, to, from) = n
         /\ \A k : Total(Merged(n, to, from), k) = Total(n, k)
<1>0. /\ n \in [Items -> Nat] /\ MaxStack[Kind[to]] \in Nat /\ MaxStack[Kind[from]] \in Nat
      /\ \A j \in Items : n[j] <= MaxStack[Kind[j]]
  BY ItemsAssumption DEF Counts
<1>1. CASE ~TakesFrom(n, to, from)
  BY <1>0, <1>1 DEF Merged
<1>2. CASE TakesFrom(n, to, from)
  <2> DEFINE m     == MoveCount(MaxStack[Kind[to]] - n[to], n[from])
             grown == [n EXCEPT ![to] = Clamped(to, n[to] + m)]
             last  == [grown EXCEPT ![from] = Clamped(from, grown[from] - m)]
  <2>1. MaxStack[Kind[to]] - n[to] \in Nat /\ n[from] \in Nat /\ n[to] \in Nat
    BY <1>0, <1>2 DEF TakesFrom
  <2>2. m \in Nat /\ m <= MaxStack[Kind[to]] - n[to] /\ m <= n[from]
    BY <2>1, Clamping DEF MoveCount
  <2>3. Merged(n, to, from) = last
    BY <1>2 DEF Merged
  <2> HIDE DEF m
  <2>4. n[to] + m \in Nat /\ n[to] + m <= MaxStack[Kind[to]]
    BY <1>0, <2>1, <2>2
  <2>5. Clamped(to, n[to] + m) = n[to] + m
    BY <1>0, <2>4, Clamping DEF Clamped
  <2>6. /\ grown \in [Items -> Nat] /\ grown[to] = n[to] + m
        /\ \A j \in Items \ {to} : grown[j] = n[j]
    BY <1>0, <2>4, <2>5
  <2>7. grown[from] - m \in Nat /\ grown[from] - m <= MaxStack[Kind[from]]
    BY <1>0, <2>1, <2>2, <2>4, <2>6
  <2>8. Clamped(from, grown[from] - m) = grown[from] - m
    BY <1>0, <2>7, Clamping DEF Clamped
  <2> HIDE DEF grown
  <2>9. /\ last \in [Items -> Nat] /\ last[from] = grown[from] - m
        /\ \A j \in Items \ {from} : last[j] = grown[j]
    BY <2>6, <2>7, <2>8
  <2> HIDE DEF last
  <2>10. \A j \in Items : last[j] <= MaxStack[Kind[j]]
    BY <1>0, <2>4, <2>6, <2>7, <2>9
  <2>11. \A j \in Items \ {from} : last[j] >= n[j]
    BY <1>0, <2>2, <2>6, <2>9
  <2>12. ASSUME to = from PROVE last = n
    <3>1. last[from] = n[from]
      BY <2>1, <2>2, <2>6, <2>9, <2>12
    <3>2. \A j \in Items : last[j] = n[j]
      BY <2>6, <2>9, <2>12, <3>1
    <3> QED
      BY <1>0, <2>9, <3>2
  <2>13. ASSUME NEW k PROVE Total(last, k) = Total(n, k)
    <3>1. /\ Total(n, k) \in Nat /\ Total(grown, k) \in Nat
          /\ Total(grown, k) - Total(n, k) = IF Kind[to] = k THEN grown[to] - n[to] ELSE 0
      BY <1>0, <2>6, TotalFollows
    <3>2. /\ Total(last, k) \in Nat
          /\ Total(last, k) - Total(grown, k) = IF Kind[from] = k THEN last[from] - grown[from] ELSE 0
      BY <2>6, <2>9, TotalFollows
    <3>3. grown[to] - n[to] = m /\ last[from] - grown[from] = 0 - m
      BY <2>1, <2>2, <2>6, <2>9
    <3>4. Kind[to] = Kind[from]
      BY <1>2 DEF TakesFrom
    <3> QED
      BY <2>2, <3>1, <3>2, <3>3, <3>4
  <2> QED
    BY <2>3, <2>9, <2>10, <2>11, <2>12, <2>13 DEF Counts
<1> QED
  BY <1>1, <1>2

\* Pouring an item over the slots of a tab takes only from that item and loses
\* nothing.
LEMMA Pouring ==
  ASSUME count \in Counts, storage \in [Slots -> Items \cup {NoItem}],
         NEW i \in Items, NEW t \in Tabs
  PROVE  /\ Poured(i, t) \in Counts
         /\ \A j \in Items \ {i} : Poured(i, t)[j] >= count[j]
         /\ \A c : Total(Poured(i, t), c) = Total(count, c)
<1> DEFINE Next1(n, k) == PouredInto(n, <<t, k>>, i)
           Rec(f, m) == f = [k \in 0 .. m |-> IF k = 0 THEN count ELSE Next1(f[k - 1], k)]
           after == CHOOSE f : Rec(f, Capacities[t])
<1>0. Capacities[t] \in Nat
  BY ItemsAssumption DEF Tabs
<1>1. Poured(i, t) = after[Capacities[t]]
  BY DEF Poured
<1>2. ASSUME NEW n \in Counts, NEW k \in 1 .. Capacities[t]
      PROVE  /\ Next1(n, k) \in Counts
             /\ \A j \in Items \ {i} : Next1(n, k)[j] >= n[j]
             /\ \A c : Total(Next1(n, k), c) = Total(n, c)
  <2>1. <<t, k>> \in Slots
    BY DEF Slots, SlotsOf
  <2>2. CASE storage[<<t, k>>] = NoItem
    BY <2>2 DEF PouredInto, Counts
  <2>3. CASE storage[<<t, k>>] # NoItem
    <3>1. storage[<<t, k>>] \in Items
      BY <2>1, <2>3
    <3>2. Next1(n, k) = Merged(n, storage[<<t, k>>], i)
      BY <2>3 DEF PouredInto
    <3> HIDE DEF Next1
    <3>3. PICK x \in Items : x = storage[<<t, k>>]
      BY <3>1
    <3>4. Next1(n, k) = Merged(n, x, i)
      BY <3>2, <3>3
    <3>5. /\ Merged(n, x, i) \in Counts
          /\ \A j \in Items \ {i} : Merged(n, x, i)[j] >= n[j]
          /\ \A c : Total(Merged(n, x, i), c) = Total(n, c)
      BY ONLY n \in Counts, x \in Items, i \in Items, Merging
    <3> QED
      BY ONLY <3>4, <3>5
  <2> QED
    BY <2>2, <2>3
<1> HIDE DEF Next1
<1>3. \A m \in Nat : \E f : Rec(f, m)
  <2> SUFFICES ASSUME NEW u \in Nat, ~\E f : Rec(f, u) PROVE FALSE
    OBVIOUS
  <2> DEFINE Without == {m \in Nat : ~\E f : Rec(f, m)}
  <2>1. PICK m \in Without : \A k \in Without : m <= k
    <3>1. Without \subseteq Nat /\ Without # {}
      OBVIOUS
    <3> HIDE DEF Without
    <3> QED
      BY <3>1, LeastOfNaturals
  <2>2. m # 0
    <3>1. Rec([k \in 0 .. 0 |-> count], 0)
      OBVIOUS
    <3> QED
      BY <2>1, <3>1
  <2>3. m - 1 \in Nat /\ m - 1 \notin Without
    BY <2>1, <2>2
  <2>4. PICK f : Rec(f, m - 1)
    BY <2>3
  <2> DEFINE g == [k \in 0 .. m |-> IF k = m THEN Next1(f[m - 1], m) ELSE f[k]]
  <2>5. ASSUME NEW k \in 0 .. m
        PROVE  g[k] = IF k = 0 THEN count ELSE Next1(g[k - 1], k)
    <3>1. CASE k = m
      BY <2>2, <2>3, <3>1
    <3>2. CASE k # m
      <4>1. k \in 0 .. m - 1 /\ g[k] = f[k]
        BY <3>2
      <4>2. f[k] = IF k = 0 THEN count ELSE Next1(f[k - 1], k)
        BY <2>4, <4>1
      <4>3. k # 0 => k - 1 \in 0 .. m /\ k - 1 # m /\ g[k - 1] = f[k - 1]
        BY <4>1
      <4> QED
        BY <4>1, <4>2, <4>3
    <3> QED
      BY <3>1, <3>2
  <2>6. Rec(g, m)
    BY <2>5
  <2> QED
    BY <2>1, <2>6
<1>4. Rec(after, Capacities[t])
  <2> HIDE DEF Rec
  <2> QED
    BY <1>0, <1>3
<1>5. \A k \in 0 .. Capacities[t] : after[k] = IF k = 0 THEN count ELSE Next1(after[k - 1], k)
  BY <1>4
<1> HIDE DEF after
<1> DEFINE Good(k) == /\ after[k] \in Counts
                      /\ \A j \in Items \ {i} : after[k][j] >= count[j]
                      /\ \A c : Total(after[k], c) = Total(count, c)
<1>6. ASSUME NEW k \in 1 .. Capacities[t], Good(k - 1) PROVE Good(k)
  <2>1. after[k] = Next1(after[k - 1], k)
    BY <1>0, <1>5
  <2>2. after[k - 1] \in Counts /\ after[k] \in Counts
    BY <1>2, <1>6, <2>1
  <2>3. ASSUME NEW j \in Items \ {i} PROVE after[k][j] >= count[j]
    <3>1. after[k][j] >= after[k - 1][j] /\ after[k - 1][j] >= count[j]
      BY <1>2, <1>6, <2>1, <2>2
    <3>2. after[k][j] \in Nat /\ after[k - 1][j] \in Nat /\ count[j] \in Nat
      BY <2>2 DEF Counts
    <3> QED
      BY <3>1, <3>2
  <2>4. \A c : Total(after[k], c) = Total(count, c)
    BY <1>2, <1>6, <2>1, <2>2
  <2> QED
    BY <2>2, <2>3, <2>4
<1>7. Good(0)
  BY <1>0, <1>5 DEF Counts
<1>8. ASSUME ~Good(Capacities[t]) PROVE FALSE
  <2> DEFINE Bad == {k \in 0 .. Capacities[t] : ~Good(k)}
  <2>1. Bad \subseteq Nat /\ Capacities[t] \in Bad
    BY <1>0, <1>8
  <2>2. PICK k \in Bad : \A l \in Bad : k <= l
    <3> HIDE DEF Bad
    <3> QED
      BY <2>1, LeastOfNaturals
  <2> HIDE DEF Good
  <2>3. k # 0 /\ k \in 1 .. Capacities[t] /\ k - 1 \in 0 .. Capacities[t]
    BY <1>0, <1>7, <2>2
  <2>4. Good(k - 1)
    BY <2>2, <2>3
  <2> QED
    BY <1>6, <2>2, <2>3, <2>4
<1> QED
  BY <1>1, <1>8

-----------------------------------------------------------------------------
(* ClientItems: places                                                       *)

\* Where a location is told from another.
LEMMA Locations ==
  /\ \A s, r : InStorage(s) = InStorage(r) => s = r
  /\ \A s, r : InEquipment(s) = InEquipment(r) => s = r
  /\ \A s, r : InQuickSlot(s) = InQuickSlot(r) => s = r
  /\ Nowhere # InInventory
  /\ \A s : InStorage(s) \notin {Nowhere, InInventory}
  /\ \A s : InEquipment(s) \notin {Nowhere, InInventory}
  /\ \A s : InQuickSlot(s) \notin {Nowhere, InInventory}
  /\ \A s, r : /\ InStorage(s) # InEquipment(r)
               /\ InStorage(s) # InQuickSlot(r)
               /\ InEquipment(s) # InQuickSlot(r)
BY DEF InStorage, InEquipment, InQuickSlot, Nowhere, InInventory

Places == {Nowhere, InInventory} \cup {InStorage(s) : s \in Slots}
            \cup {InEquipment(e) : e \in EquipSlots} \cup {InQuickSlot(q) : q \in QuickSlots}

ItemsTyped ==
  /\ count \in Counts
  /\ place \in [Items -> Places]
  /\ bag \subseteq Items
  /\ storage \in [Slots -> Items \cup {NoItem}]
  /\ worn \in [EquipSlots -> Items \cup {NoItem}]
  /\ quick \in [QuickSlots -> Items \cup {NoItem}]

\* An item is in a container other than a quick slot if and only if its location
\* says so; in a quick slot only if.
BagAgrees     == \A i \in Items : i \in bag <=> place[i] = InInventory
StorageAgrees == \A i \in Items, s \in Slots : storage[s] = i <=> place[i] = InStorage(s)
WornAgrees    == \A i \in Items, e \in EquipSlots : worn[e] = i <=> place[i] = InEquipment(e)
QuickAgrees   == \A i \in Items, q \in QuickSlots : quick[q] = i => place[i] = InQuickSlot(q)

NoneEmpty ==
  /\ \A i \in bag : count[i] > 0
  /\ \A s \in Slots : storage[s] # NoItem => count[storage[s]] > 0
  /\ \A e \in EquipSlots : worn[e] # NoItem => count[worn[e]] > 0
  /\ \A q \in QuickSlots : quick[q] # NoItem => count[quick[q]] > 0

ItemsInv == ItemsTyped /\ BagAgrees /\ StorageAgrees /\ WornAgrees /\ QuickAgrees /\ NoneEmpty

\* What no container holds is in none of them.
LEMMA LooseIsInNone ==
  ASSUME NEW i \in Items, Loose(i), ItemsInv
  PROVE  /\ i \notin bag /\ \A s \in Slots : storage[s] # i
         /\ \A e \in EquipSlots : worn[e] # i
         /\ \A q \in QuickSlots : quick[q] # i
         /\ place[i] # InInventory
         /\ \A s \in Slots : place[i] # InStorage(s)
         /\ \A e \in EquipSlots : place[i] # InEquipment(e)
         /\ count[i] > 0
<1>1. /\ i \notin bag /\ \A s \in Slots : storage[s] # i
      /\ \A e \in EquipSlots : worn[e] # i
      /\ \A q \in QuickSlots : quick[q] # i
      /\ count[i] > 0
  BY DEF Loose, Held
<1> QED
  BY <1>1 DEF ItemsInv, BagAgrees, StorageAgrees, WornAgrees

\* A count that does not become zero keeps the containers free of empty stacks.
LEMMA CountsOfOthersKept ==
  ASSUME ItemsInv, NEW n \in Counts, NEW i \in Items,
         \A j \in Items \ {i} : n[j] >= count[j]
  PROVE  \A j \in Items \ {i} : count[j] > 0 => n[j] > 0
BY DEF ItemsInv, ItemsTyped, Counts

\* An item that is added to the list is merged into one of its stacks or becomes
\* an entry itself.
LEMMA AddItemKeeps == ASSUME ItemsInv, NEW i \in Items, AddItem(i) PROVE ItemsInv'
<1> USE DEF ItemsInv
<1>1. Loose(i) /\ UNCHANGED <<storage, worn, quick>>
  BY DEF AddItem
<1>2. /\ count' \in Counts /\ \A j \in Items \ {i} : count'[j] >= count[j]
      /\ \/ count'[i] = 0 /\ UNCHANGED <<bag, place>>
         \/ /\ count'[i] # 0 /\ bag' = bag \cup {i}
            /\ place' = [place EXCEPT ![i] = InInventory]
  <2>1. PICK n \in IF \E x \in bag : TakesFrom(count, x, i)
                   THEN {Merged(count, x, i) : x \in {y \in bag : TakesFrom(count, y, i)}}
                   ELSE {count} :
          /\ count' = n
          /\ IF n[i] = 0 THEN UNCHANGED <<bag, place>>
             ELSE bag' = bag \cup {i} /\ place' = [place EXCEPT ![i] = InInventory]
    BY DEF AddItem
  <2>2. n = count \/ \E x \in bag : n = Merged(count, x, i)
    BY <2>1
  <2>3. n \in Counts /\ \A j \in Items \ {i} : n[j] >= count[j]
    <3>1. CASE n = count
      BY <3>1 DEF ItemsTyped, Counts
    <3>2. CASE \E x \in bag : n = Merged(count, x, i)
      BY <3>2, Merging DEF ItemsTyped
    <3> QED
      BY <2>2, <3>1, <3>2
  <2> QED
    BY <2>1, <2>3
<1>3. \A j \in Items \ {i} : count[j] > 0 => count'[j] > 0
  BY <1>2, CountsOfOthersKept
<1>4. count'[i] \in Nat
  BY <1>2 DEF Counts
<1>5. CASE UNCHANGED <<bag, place>>
  <2>1. NoneEmpty'
    BY <1>1, <1>3, <1>5, LooseIsInNone DEF NoneEmpty, ItemsTyped
  <2> QED
    BY <1>1, <1>2, <1>5, <2>1 DEF ItemsTyped, BagAgrees, StorageAgrees, WornAgrees, QuickAgrees
<1>6. CASE /\ count'[i] # 0 /\ bag' = bag \cup {i}
           /\ place' = [place EXCEPT ![i] = InInventory]
  <2>1. ItemsTyped'
    BY <1>1, <1>2, <1>6 DEF ItemsTyped, Places
  <2>2. BagAgrees'
    BY <1>6 DEF BagAgrees, ItemsTyped
  <2>3. StorageAgrees' /\ WornAgrees' /\ QuickAgrees'
    BY <1>1, <1>6, LooseIsInNone, Locations
       DEF StorageAgrees, WornAgrees, QuickAgrees, ItemsTyped
  <2>4. NoneEmpty'
    BY <1>1, <1>3, <1>4, <1>6, LooseIsInNone DEF NoneEmpty, ItemsTyped
  <2> QED
    BY <2>1, <2>2, <2>3, <2>4
<1> QED
  BY <1>2, <1>5, <1>6

\* An item that is added to a tab is poured over its stacks, and what is left of
\* it goes to a free slot.
LEMMA AddItemToTabKeeps ==
  ASSUME ItemsInv, NEW i \in Items, NEW t \in Tabs, NEW p, AddItemToTab(i, t, p)
  PROVE  ItemsInv'
<1> USE DEF ItemsInv
<1>1. Loose(i) /\ UNCHANGED <<bag, worn, quick>>
  BY DEF AddItemToTab
<1>2. count' \in Counts /\ \A j \in Items \ {i} : count'[j] >= count[j]
  BY Pouring DEF AddItemToTab, ItemsTyped
<1>3. \A j \in Items \ {i} : count[j] > 0 => count'[j] > 0
  BY <1>2, CountsOfOthersKept
<1>4. count'[i] \in Nat
  BY <1>2 DEF Counts
<1>5. CASE UNCHANGED <<storage, place>>
  <2>1. NoneEmpty'
    BY <1>1, <1>3, <1>5, LooseIsInNone DEF NoneEmpty, ItemsTyped
  <2> QED
    BY <1>1, <1>2, <1>5, <2>1 DEF ItemsTyped, BagAgrees, StorageAgrees, WornAgrees, QuickAgrees
<1>6. CASE ~UNCHANGED <<storage, place>>
  <2>1. /\ count'[i] # 0 /\ FreeIn(t) # {}
        /\ AssignItemToSlot(i, <<t, IF p \in FreeIn(t) THEN p ELSE Min(FreeIn(t))>>)
    BY <1>6 DEF AddItemToTab
  <2>2. Min(FreeIn(t)) \in FreeIn(t)
    <3>1. FreeIn(t) \subseteq Nat
      BY DEF FreeIn
    <3>2. \E m \in FreeIn(t) : \A k \in FreeIn(t) : m <= k
      BY <2>1, <3>1, LeastOfNaturals
    <3> QED
      BY <3>2 DEF Min
  <2>3. PICK k \in FreeIn(t) : AssignItemToSlot(i, <<t, k>>)
    BY <2>1, <2>2
  <2>4. PICK s \in Slots : storage[s] = NoItem /\ AssignItemToSlot(i, s)
    BY <2>3 DEF FreeIn, Slots, SlotsOf
  <2>5. storage' = [storage EXCEPT ![s] = i] /\ place' = [place EXCEPT ![i] = InStorage(s)]
    BY <2>4 DEF AssignItemToSlot
  <2>6. ItemsTyped'
    BY <1>1, <1>2, <2>5 DEF ItemsTyped, Places
  <2>7. BagAgrees' /\ WornAgrees' /\ QuickAgrees'
    <3>1. BagAgrees'
      BY <1>1, <2>5, LooseIsInNone, Locations DEF BagAgrees, ItemsTyped
    <3>2. WornAgrees'
      <4>1. \A e \in EquipSlots : place[i] # InEquipment(e) /\ InStorage(s) # InEquipment(e)
        BY <1>1, <2>5, LooseIsInNone, Locations
      <4>2. \A x \in Items, e \in EquipSlots : place'[x] = InEquipment(e) <=> place[x] = InEquipment(e)
        BY <1>1, <2>5, LooseIsInNone, <4>1 DEF ItemsTyped
      <4> QED
        BY <1>1, <2>5, LooseIsInNone, <4>2 DEF WornAgrees
    <3>3. QuickAgrees'
      BY <1>1, <2>5, LooseIsInNone DEF QuickAgrees, ItemsTyped
    <3> QED
      BY <3>1, <3>2, <3>3
  <2>8. StorageAgrees'
    BY <1>1, <2>4, <2>5, LooseIsInNone, Locations, ItemsAssumption DEF StorageAgrees, ItemsTyped
  <2>9. NoneEmpty'
    BY <1>1, <1>3, <1>4, <2>1, <2>5, LooseIsInNone DEF NoneEmpty, ItemsTyped
  <2> QED
    BY <2>6, <2>7, <2>8, <2>9
<1> QED
  BY <1>5, <1>6

\* An item that leaves the list is nowhere.
LEMMA RemoveItemByKeyKeeps == ASSUME ItemsInv, NEW i \in Items, RemoveItemByKey(i) PROVE ItemsInv'
<1> USE DEF ItemsInv, RemoveItemByKey
<1>1. ItemsTyped'
  BY DEF ItemsTyped, Places
<1>2. BagAgrees'
  BY Locations DEF BagAgrees, ItemsTyped
<1>3. StorageAgrees'
  BY Locations DEF BagAgrees, StorageAgrees, ItemsTyped
<1>4. WornAgrees'
  BY Locations DEF BagAgrees, WornAgrees, ItemsTyped
<1>5. QuickAgrees'
  BY Locations DEF BagAgrees, QuickAgrees, ItemsTyped
<1>6. NoneEmpty'
  BY DEF NoneEmpty
<1> QED
  BY <1>1, <1>2, <1>3, <1>4, <1>5, <1>6

\* An item that leaves its slot of a tab is nowhere.
LEMMA RemoveItemKeeps == ASSUME ItemsInv, NEW s \in Slots, RemoveItem(s) PROVE ItemsInv'
<1> USE DEF ItemsInv
<1>0. PICK i \in Items : i = storage[s]
  BY DEF RemoveItem, ItemsTyped
<1>1. /\ place' = [place EXCEPT ![i] = Nowhere] /\ storage' = [storage EXCEPT ![s] = NoItem]
      /\ UNCHANGED <<count, bag, worn, quick>>
      /\ place[i] = InStorage(s)
  BY <1>0 DEF RemoveItem, StorageAgrees
<1>2. ItemsTyped'
  BY <1>1 DEF ItemsTyped, Places
<1>3. BagAgrees'
  BY <1>1, Locations DEF BagAgrees, ItemsTyped
<1>4. StorageAgrees'
  BY <1>0, <1>1, Locations, ItemsAssumption DEF StorageAgrees, ItemsTyped
<1>5. WornAgrees'
  <2>1. \A e \in EquipSlots : place[i] # InEquipment(e) /\ Nowhere # InEquipment(e)
    BY <1>1, Locations
  <2>2. \A x \in Items, e \in EquipSlots : place'[x] = InEquipment(e) <=> place[x] = InEquipment(e)
    BY <1>1, <2>1 DEF ItemsTyped
  <2> QED
    BY <1>1, <2>2 DEF WornAgrees
<1>6. QuickAgrees'
  BY <1>1, Locations DEF QuickAgrees, ItemsTyped
<1>7. NoneEmpty'
  BY <1>1 DEF NoneEmpty, ItemsTyped
<1> QED
  BY <1>2, <1>3, <1>4, <1>5, <1>6, <1>7

\* A stack that is moved onto another leaves its slot when nothing is left of it.
LEMMA MoveOntoKeeps ==
  ASSUME ItemsInv, NEW from \in Slots, NEW to \in Slots, MoveOnto(from, to)
  PROVE  ItemsInv'
<1> USE DEF ItemsInv
<1>0. PICK i \in Items, j \in Items : i = storage[from] /\ j = storage[to]
  BY DEF MoveOnto, ItemsTyped
<1>1. /\ count' = Merged(count, j, i)
      /\ storage' = ClearedIfEmptied(storage, count', from)
      /\ place' = IF count'[i] = 0 THEN [place EXCEPT ![i] = Nowhere] ELSE place
      /\ UNCHANGED <<bag, worn, quick>>
      /\ place[i] = InStorage(from)
  BY <1>0 DEF MoveOnto, StorageAgrees
<1>2. count' \in Counts /\ \A x \in Items \ {i} : count'[x] >= count[x]
  BY <1>1, Merging DEF ItemsTyped
<1>3. \A x \in Items \ {i} : count[x] > 0 => count'[x] > 0
  BY <1>2, CountsOfOthersKept
<1>4. count'[i] \in Nat
  BY <1>2 DEF Counts
<1>5. \A r \in Slots : storage[r] = i => r = from
  BY <1>1, Locations DEF StorageAgrees
<1>6. /\ i \notin bag /\ (\A e \in EquipSlots : worn[e] # i) /\ (\A q \in QuickSlots : quick[q] # i)
  BY <1>1, Locations DEF BagAgrees, WornAgrees, QuickAgrees
<1>7. CASE count'[i] # 0
  <2>1. storage' = storage /\ place' = place
    BY <1>0, <1>1, <1>7 DEF ClearedIfEmptied
  <2>2. NoneEmpty'
    BY <1>1, <1>3, <1>4, <1>7, <2>1 DEF NoneEmpty, ItemsTyped
  <2> QED
    BY <1>1, <1>2, <2>1, <2>2 DEF ItemsTyped, BagAgrees, StorageAgrees, WornAgrees, QuickAgrees
<1>8. CASE count'[i] = 0
  <2>1. storage' = [storage EXCEPT ![from] = NoItem] /\ place' = [place EXCEPT ![i] = Nowhere]
    BY <1>0, <1>1, <1>8 DEF ClearedIfEmptied
  <2>2. ItemsTyped'
    BY <1>1, <1>2, <2>1 DEF ItemsTyped, Places
  <2>3. BagAgrees'
    BY <1>1, <1>6, <2>1, Locations DEF BagAgrees, ItemsTyped
  <2>4. StorageAgrees'
    BY <1>0, <1>1, <1>5, <2>1, Locations, ItemsAssumption DEF StorageAgrees, ItemsTyped
  <2>5. WornAgrees'
    <3>1. \A e \in EquipSlots : place[i] # InEquipment(e) /\ Nowhere # InEquipment(e)
      BY <1>1, <2>1, Locations
    <3>2. \A x \in Items, e \in EquipSlots : place'[x] = InEquipment(e) <=> place[x] = InEquipment(e)
      BY <1>1, <2>1, <3>1 DEF ItemsTyped
    <3> QED
      BY <1>1, <2>1, <3>2 DEF WornAgrees
  <2>6. QuickAgrees'
    BY <1>1, <1>6, <2>1 DEF QuickAgrees, ItemsTyped
  <2>7. NoneEmpty'
    BY <1>1, <1>3, <1>5, <1>6, <2>1 DEF NoneEmpty, ItemsTyped
  <2> QED
    BY <2>2, <2>3, <2>4, <2>5, <2>6, <2>7
<1> QED
  BY <1>7, <1>8

\* An item that is moved to a slot changes places with what is there, itself
\* included.
LEMMA MoveSwapKeeps ==
  ASSUME ItemsInv, NEW from \in Slots, NEW to \in Slots, MoveSwap(from, to)
  PROVE  ItemsInv'
<1> USE DEF ItemsInv
<1>0. PICK i \in Items : i = storage[from]
  BY DEF MoveSwap, ItemsTyped
<1>1. PICK j \in Items \cup {NoItem} : j = storage[to]
  BY DEF ItemsTyped
<1>2. /\ storage' = [storage EXCEPT ![to] = i, ![from] = j]
      /\ place' = SwappedPlace([place EXCEPT ![i] = InStorage(to)], j, from)
      /\ UNCHANGED <<count, bag, worn, quick>>
      /\ place[i] = InStorage(from)
      /\ j # NoItem => place[j] = InStorage(to)
  BY <1>0, <1>1 DEF MoveSwap, StorageAgrees
<1>3. /\ place' \in [Items -> Places]
      /\ j # NoItem => place'[j] = InStorage(from)
      /\ i # j => place'[i] = InStorage(to)
      /\ \A x \in Items \ {i, j} : place'[x] = place[x]
  <2>1. InStorage(to) \in Places /\ InStorage(from) \in Places
    BY DEF Places
  <2>2. CASE j = NoItem
    BY <1>2, <2>1, <2>2, ItemsAssumption DEF SwappedPlace, ItemsTyped
  <2>3. CASE j # NoItem
    BY <1>2, <2>1, <2>3 DEF SwappedPlace, ItemsTyped
  <2> QED
    BY <2>2, <2>3
<1>4. /\ storage' \in [Slots -> Items \cup {NoItem}]
      /\ storage'[from] = j
      /\ from # to => storage'[to] = i
      /\ \A r \in Slots \ {from, to} : storage'[r] = storage[r]
  BY <1>2 DEF ItemsTyped
<1>5. i = j <=> from = to
  BY <1>0, <1>1, <1>2, Locations, ItemsAssumption
<1>6. ItemsTyped'
  BY <1>2, <1>3, <1>4 DEF ItemsTyped
<1>7. ASSUME NEW x \in Items, NEW y, \A s : InStorage(s) # y, x \in {i, j}
      PROVE  place[x] # y /\ place'[x] # y
  BY <1>2, <1>3, <1>7, ItemsAssumption
<1>8. BagAgrees'
  <2>1. \A x \in Items : place'[x] = InInventory <=> place[x] = InInventory
    BY <1>3, <1>7, Locations
  <2> QED
    BY <1>2, <2>1 DEF BagAgrees
<1>9. WornAgrees'
  <2>1. \A x \in Items, e \in EquipSlots : place'[x] = InEquipment(e) <=> place[x] = InEquipment(e)
    BY <1>3, <1>7, Locations
  <2> QED
    BY <1>2, <2>1 DEF WornAgrees
<1>10. QuickAgrees'
  <2>1. \A x \in Items, q \in QuickSlots :
          place'[x] = InQuickSlot(q) <=> place[x] = InQuickSlot(q)
    BY <1>3, <1>7, Locations
  <2> QED
    BY <1>2, <2>1 DEF QuickAgrees
<1>11. StorageAgrees'
  <2> SUFFICES ASSUME NEW x \in Items, NEW r \in Slots
               PROVE  storage'[r] = x <=> place'[x] = InStorage(r)
    BY DEF StorageAgrees
  <2>1. CASE x = j
    BY <1>0, <1>1, <1>2, <1>3, <1>4, <1>5, <2>1, Locations, ItemsAssumption DEF StorageAgrees
  <2>2. CASE x = i /\ x # j
    BY <1>0, <1>1, <1>2, <1>3, <1>4, <1>5, <2>2, Locations, ItemsAssumption DEF StorageAgrees
  <2>3. CASE x \notin {i, j}
    <3>1. place'[x] = place[x] /\ (storage[r] = x <=> place[x] = InStorage(r))
      BY <1>3, <2>3 DEF StorageAgrees
    <3>2. storage'[r] = x <=> storage[r] = x
      BY <1>0, <1>1, <1>4, <1>5, <2>3
    <3> QED
      BY <3>1, <3>2
  <2> QED
    BY <2>1, <2>2, <2>3
<1>12. NoneEmpty'
  BY <1>0, <1>1, <1>2, <1>4 DEF NoneEmpty
<1> QED
  BY <1>6, <1>8, <1>9, <1>10, <1>11, <1>12

\* An item that is worn displaces the one that was, which is nowhere then.
LEMMA SwapEquipItemKeeps ==
  ASSUME ItemsInv, NEW i \in Items, NEW e \in EquipSlots, SwapEquipItem(i, e)
  PROVE  ItemsInv'
<1> USE DEF ItemsInv
<1>0. Loose(i)
  BY DEF SwapEquipItem
<1>1. PICK j \in Items \cup {NoItem} : j = worn[e]
  BY DEF ItemsTyped
<1>2. /\ worn' = [worn EXCEPT ![e] = i] /\ UNCHANGED <<count, bag, storage, quick>>
      /\ i # j
      /\ j # NoItem => place[j] = InEquipment(e)
  BY <1>0, <1>1, LooseIsInNone DEF SwapEquipItem, WornAgrees
<1>3. /\ place' \in [Items -> Places] /\ place'[i] = InEquipment(e)
      /\ j # NoItem => place'[j] = Nowhere
      /\ \A x \in Items \ {i, j} : place'[x] = place[x]
  <2>1. InEquipment(e) \in Places /\ Nowhere \in Places
    BY DEF Places
  <2>2. CASE j = NoItem
    BY <1>1, <1>2, <2>1, <2>2, ItemsAssumption DEF SwapEquipItem, Unequipped, ItemsTyped
  <2>3. CASE j # NoItem
    BY <1>1, <1>2, <2>1, <2>3 DEF SwapEquipItem, Unequipped, ItemsTyped
  <2> QED
    BY <2>2, <2>3
<1>4. ItemsTyped'
  BY <1>2, <1>3 DEF ItemsTyped
<1>5. BagAgrees'
  <2>1. \A x \in Items : place'[x] = InInventory <=> place[x] = InInventory
    BY <1>0, <1>2, <1>3, LooseIsInNone, Locations, ItemsAssumption
  <2> QED
    BY <1>2, <2>1 DEF BagAgrees
<1>6. StorageAgrees'
  <2>1. /\ \A s \in Slots : InEquipment(e) # InStorage(s) /\ Nowhere # InStorage(s)
        /\ \A s \in Slots : place[i] # InStorage(s)
    BY <1>0, LooseIsInNone, Locations
  <2>2. \A x \in Items, s \in Slots : place'[x] = InStorage(s) <=> place[x] = InStorage(s)
    BY <1>2, <1>3, <2>1, ItemsAssumption
  <2> QED
    BY <1>2, <2>2 DEF StorageAgrees
<1>7. QuickAgrees'
  <2>1. \A x \in Items, q \in QuickSlots : quick[q] = x => x # i /\ (j # NoItem => x # j)
    BY <1>0, <1>2, LooseIsInNone, Locations DEF QuickAgrees
  <2>2. \A x \in Items, q \in QuickSlots : quick[q] = x => place'[x] = place[x]
    BY <1>3, <2>1, ItemsAssumption
  <2> QED
    BY <1>2, <2>2 DEF QuickAgrees
<1>8. WornAgrees'
  <2> SUFFICES ASSUME NEW x \in Items, NEW f \in EquipSlots
               PROVE  worn'[f] = x <=> place'[x] = InEquipment(f)
    BY DEF WornAgrees
  <2>1. worn'[e] = i /\ \A g \in EquipSlots \ {e} : worn'[g] = worn[g]
    BY <1>2 DEF ItemsTyped
  <2>2. CASE x = i
    BY <1>0, <1>3, <2>1, <2>2, LooseIsInNone, Locations
  <2>3. CASE x = j
    BY <1>1, <1>2, <1>3, <2>1, <2>3, Locations, ItemsAssumption DEF WornAgrees
  <2>4. CASE x \notin {i, j}
    BY <1>1, <1>3, <2>1, <2>4 DEF WornAgrees
  <2> QED
    BY <2>2, <2>3, <2>4
<1>9. NoneEmpty'
  BY <1>0, <1>2, LooseIsInNone DEF NoneEmpty, ItemsTyped
<1> QED
  BY <1>4, <1>5, <1>6, <1>7, <1>8, <1>9

\* An item that is taken off is nowhere.
LEMMA UnequipItemKeeps ==
  ASSUME ItemsInv, NEW e \in EquipSlots, UnequipItem(e) PROVE ItemsInv'
<1> USE DEF ItemsInv
<1>1. CASE worn[e] = NoItem
  <2>1. worn' = worn /\ place' = place /\ UNCHANGED <<count, bag, storage, quick>>
    BY <1>1 DEF UnequipItem, Unequipped, ItemsTyped
  <2> QED
    BY <2>1 DEF ItemsTyped, BagAgrees, StorageAgrees, WornAgrees, QuickAgrees, NoneEmpty
<1>2. CASE worn[e] # NoItem
  <2>0. PICK i \in Items : i = worn[e]
    BY <1>2 DEF ItemsTyped
  <2>1. /\ place' = [place EXCEPT ![i] = Nowhere] /\ worn' = [worn EXCEPT ![e] = NoItem]
        /\ UNCHANGED <<count, bag, storage, quick>>
        /\ place[i] = InEquipment(e)
    BY <1>2, <2>0 DEF UnequipItem, Unequipped, WornAgrees
  <2>2. ItemsTyped'
    BY <2>1 DEF ItemsTyped, Places
  <2>3. BagAgrees'
    BY <2>1, Locations DEF BagAgrees, ItemsTyped
  <2>4. StorageAgrees'
    <3>1. \A s \in Slots : place[i] # InStorage(s) /\ Nowhere # InStorage(s)
      BY <2>1, Locations
    <3>2. \A x \in Items, s \in Slots : place'[x] = InStorage(s) <=> place[x] = InStorage(s)
      BY <2>1, <3>1 DEF ItemsTyped
    <3> QED
      BY <2>1, <3>2 DEF StorageAgrees
  <2>5. WornAgrees'
    BY <2>0, <2>1, Locations, ItemsAssumption DEF WornAgrees, ItemsTyped
  <2>6. QuickAgrees'
    <3>1. \A q \in QuickSlots : quick[q] # i
      BY <2>1, Locations DEF QuickAgrees
    <3> QED
      BY <2>1, <3>1 DEF QuickAgrees, ItemsTyped
  <2>7. NoneEmpty'
    BY <2>1 DEF NoneEmpty, ItemsTyped
  <2> QED
    BY <2>2, <2>3, <2>4, <2>5, <2>6, <2>7
<1> QED
  BY <1>1, <1>2

\* An item that is put into a quick slot says so.
LEMMA AssignConsumableKeeps ==
  ASSUME ItemsInv, NEW i \in Items, NEW q \in QuickSlots, AssignConsumable(i, q)
  PROVE  ItemsInv'
<1> USE DEF ItemsInv
<1>1. /\ Loose(i) /\ quick' = [quick EXCEPT ![q] = i] /\ place' = [place EXCEPT ![i] = InQuickSlot(q)]
      /\ UNCHANGED <<count, bag, storage, worn>>
  BY DEF AssignConsumable
<1>2. ItemsTyped'
  BY <1>1 DEF ItemsTyped, Places
<1>3. BagAgrees'
  BY <1>1, LooseIsInNone, Locations DEF BagAgrees, ItemsTyped
<1>4. StorageAgrees'
  <2>1. \A s \in Slots : place[i] # InStorage(s) /\ InQuickSlot(q) # InStorage(s)
    BY <1>1, LooseIsInNone, Locations
  <2>2. \A x \in Items, s \in Slots : place'[x] = InStorage(s) <=> place[x] = InStorage(s)
    BY <1>1, <2>1 DEF ItemsTyped
  <2> QED
    BY <1>1, <2>2 DEF StorageAgrees
<1>5. WornAgrees'
  <2>1. \A e \in EquipSlots : place[i] # InEquipment(e) /\ InQuickSlot(q) # InEquipment(e)
    BY <1>1, LooseIsInNone, Locations
  <2>2. \A x \in Items, e \in EquipSlots : place'[x] = InEquipment(e) <=> place[x] = InEquipment(e)
    BY <1>1, <2>1 DEF ItemsTyped
  <2> QED
    BY <1>1, <2>2 DEF WornAgrees
<1>6. QuickAgrees'
  BY <1>1, LooseIsInNone DEF QuickAgrees, ItemsTyped
<1>7. NoneEmpty'
  BY <1>1, LooseIsInNone DEF NoneEmpty, ItemsTyped
<1> QED
  BY <1>2, <1>3, <1>4, <1>5, <1>6, <1>7

\* An item that leaves its quick slot is nowhere.
LEMMA ClearQuickSlotKeeps ==
  ASSUME ItemsInv, NEW q \in QuickSlots, ClearQuickSlot(q) PROVE ItemsInv'
<1> USE DEF ItemsInv
<1>0. PICK i \in Items : i = quick[q]
  BY DEF ClearQuickSlot, ItemsTyped
<1>1. /\ quick' = [quick EXCEPT ![q] = NoItem] /\ place' = [place EXCEPT ![i] = Nowhere]
      /\ UNCHANGED <<count, bag, storage, worn>>
      /\ place[i] = InQuickSlot(q)
  BY <1>0 DEF ClearQuickSlot, QuickAgrees
<1>2. ItemsTyped'
  BY <1>1 DEF ItemsTyped, Places
<1>3. BagAgrees'
  BY <1>1, Locations DEF BagAgrees, ItemsTyped
<1>4. StorageAgrees'
  <2>1. \A s \in Slots : place[i] # InStorage(s) /\ Nowhere # InStorage(s)
    BY <1>1, Locations
  <2>2. \A x \in Items, s \in Slots : place'[x] = InStorage(s) <=> place[x] = InStorage(s)
    BY <1>1, <2>1 DEF ItemsTyped
  <2> QED
    BY <1>1, <2>2 DEF StorageAgrees
<1>5. WornAgrees'
  <2>1. \A e \in EquipSlots : place[i] # InEquipment(e) /\ Nowhere # InEquipment(e)
    BY <1>1, Locations
  <2>2. \A x \in Items, e \in EquipSlots : place'[x] = InEquipment(e) <=> place[x] = InEquipment(e)
    BY <1>1, <2>1 DEF ItemsTyped
  <2> QED
    BY <1>1, <2>2 DEF WornAgrees
<1>6. QuickAgrees'
  <2>1. \A r \in QuickSlots \ {q} : quick[r] # i
    BY <1>1, Locations DEF QuickAgrees
  <2>2. \A r \in QuickSlots : quick'[r] # i
    BY <1>1, <2>1, ItemsAssumption DEF ItemsTyped
  <2>3. \A r \in QuickSlots, x \in Items : quick'[r] = x => quick[r] = x
    BY <1>1, ItemsAssumption DEF ItemsTyped
  <2> QED
    BY <1>1, <2>2, <2>3 DEF QuickAgrees, ItemsTyped
<1>7. NoneEmpty'
  BY <1>1 DEF NoneEmpty, ItemsTyped
<1> QED
  BY <1>2, <1>3, <1>4, <1>5, <1>6, <1>7

\* What is consumed to the last piece leaves its quick slot.
LEMMA ConsumeFromSlotKeeps ==
  ASSUME ItemsInv, NEW q \in QuickSlots, ConsumeFromSlot(q) PROVE ItemsInv'
<1> USE DEF ItemsInv
<1>0. PICK i \in Items : i = quick[q]
  BY DEF ConsumeFromSlot, ItemsTyped
<1>1. /\ count' = [count EXCEPT ![i] = @ - 1] /\ count[i] > 0
      /\ quick' = IF count'[i] = 0 THEN [quick EXCEPT ![q] = NoItem] ELSE quick
      /\ UNCHANGED <<place, bag, storage, worn>>
      /\ place[i] = InQuickSlot(q)
  BY <1>0 DEF ConsumeFromSlot, QuickAgrees
<1>2. /\ i \notin bag /\ (\A s \in Slots : storage[s] # i) /\ (\A e \in EquipSlots : worn[e] # i)
      /\ \A r \in QuickSlots : quick[r] = i => r = q
  BY <1>1, Locations DEF BagAgrees, StorageAgrees, WornAgrees, QuickAgrees
<1>3. /\ count' \in Counts /\ count'[i] \in Nat
      /\ \A x \in Items \ {i} : count'[x] = count[x]
  <2>1. count \in [Items -> Nat] /\ MaxStack[Kind[i]] \in Nat
    BY ItemsAssumption DEF ItemsTyped, Counts
  <2>2. count[i] - 1 \in Nat /\ (count[i] <= MaxStack[Kind[i]] => count[i] - 1 <= MaxStack[Kind[i]])
    BY <1>1, <2>1
  <2>3. count' \in [Items -> Nat]
    BY <1>1, <2>1, <2>2
  <2> QED
    BY <1>1, <2>1, <2>2, <2>3 DEF ItemsTyped, Counts
<1>4. /\ quick' \in [QuickSlots -> Items \cup {NoItem}]
      /\ \A r \in QuickSlots : quick'[r] # NoItem => quick'[r] = quick[r]
      /\ \A r \in QuickSlots : quick'[r] = i => count'[i] > 0
  <2>1. CASE count'[i] = 0
    BY <1>1, <1>2, <2>1, ItemsAssumption DEF ItemsTyped
  <2>2. CASE count'[i] # 0
    <3>1. quick' = quick
      BY <1>1, <2>2
    <3>2. count'[i] > 0
      BY ONLY <1>3, <2>2
    <3> QED
      BY <3>1, <3>2 DEF ItemsTyped
  <2> QED
    BY <2>1, <2>2
<1>5. ItemsTyped'
  BY <1>1, <1>3, <1>4 DEF ItemsTyped
<1>6. BagAgrees' /\ StorageAgrees' /\ WornAgrees' /\ QuickAgrees'
  BY <1>1, <1>4, ItemsAssumption DEF BagAgrees, StorageAgrees, WornAgrees, QuickAgrees
<1>7. NoneEmpty'
  BY <1>1, <1>2, <1>3, <1>4 DEF NoneEmpty, ItemsTyped
<1> QED
  BY <1>5, <1>6, <1>7

\* Every step of the containers keeps items and locations in agreement.
LEMMA ItemsInvStep == ItemsInv /\ [ItemsNext]_itemVars => ItemsInv'
<1> SUFFICES ASSUME ItemsInv, [ItemsNext]_itemVars PROVE ItemsInv'
  OBVIOUS
<1>1. CASE UNCHANGED itemVars
  BY <1>1 DEF itemVars, containers, ItemsInv, ItemsTyped, BagAgrees, StorageAgrees, WornAgrees,
              QuickAgrees, NoneEmpty
<1>2. CASE ItemsNext
  BY <1>2, AddItemKeeps, RemoveItemByKeyKeeps, AddItemToTabKeeps, SwapEquipItemKeeps,
     AssignConsumableKeeps, MoveOntoKeeps, MoveSwapKeeps, RemoveItemKeeps, UnequipItemKeeps,
     ClearQuickSlotKeeps, ConsumeFromSlotKeeps
     DEF ItemsNext
<1> QED
  BY <1>1, <1>2

\* To begin with the containers are empty and all items nowhere.
LEMMA ItemsInvInit == ItemsInit => ItemsInv
<1> SUFFICES ASSUME ItemsInit PROVE ItemsInv
  OBVIOUS
<1> USE ItemsAssumption DEF ItemsInit
<1>1. ItemsTyped
  BY DEF ItemsTyped, Counts, Places
<1>2. BagAgrees /\ StorageAgrees /\ WornAgrees /\ QuickAgrees
  BY Locations DEF BagAgrees, StorageAgrees, WornAgrees, QuickAgrees
<1>3. NoneEmpty
  BY DEF NoneEmpty
<1> QED
  BY <1>1, <1>2, <1>3 DEF ItemsInv

-----------------------------------------------------------------------------
(* ClientItems: the hotbar, and the theorems                                 *)

HotbarInv ==
  /\ weapon \in Weapons \cup {NoWeapon}
  /\ bindings \in [HotSlots -> Skills \cup {NoSkill}]
  /\ \A g, h \in HotSlots : bindings[g] = bindings[h] /\ bindings[g] # NoSkill => g = h
  /\ \A h \in HotSlots :
       bindings[h] \in IdentitySkills <=> h = IdentitySlot /\ bindings[h] # NoSkill

\* Registering a skill takes it out of the slot it was in.
LEMMA HotbarInvStep == HotbarInv /\ [HotbarNext]_hotbarVars => HotbarInv'
<1> SUFFICES ASSUME HotbarInv, [HotbarNext]_hotbarVars PROVE HotbarInv'
  OBVIOUS
<1> USE ItemsAssumption DEF HotbarInv
<1>1. ASSUME NEW w \in Weapons \cup {NoWeapon}, SetEquippedWeaponType(w) PROVE HotbarInv'
  BY <1>1 DEF SetEquippedWeaponType
<1>2. ASSUME NEW s \in Skills, NEW h \in HotSlots, RegisterSkillToSlot(s, h) PROVE HotbarInv'
  <2>1. /\ bindings' \in [HotSlots -> Skills \cup {NoSkill}]
        /\ bindings'[h] = s /\ s # NoSkill
        /\ \A x \in HotSlots \ {h} :
             /\ bindings'[x] # s
             /\ bindings'[x] = bindings[x] \/ bindings'[x] = NoSkill
    BY <1>2 DEF RegisterSkillToSlot
  <2>2. s \in IdentitySkills <=> h = IdentitySlot
    BY <1>2 DEF RegisterSkillToSlot, CanRegisterSkillToSlot, HotSlots
  <2>3. weapon' = weapon
    BY <1>2 DEF RegisterSkillToSlot
  <2>4. ASSUME NEW x \in HotSlots \ {h}
        PROVE  bindings'[x] \in IdentitySkills <=> x = IdentitySlot /\ bindings'[x] # NoSkill
    BY <2>1
  <2>5. ASSUME NEW x \in HotSlots, NEW y \in HotSlots, bindings'[x] = bindings'[y],
               bindings'[x] # NoSkill
        PROVE  x = y
    BY <2>1, <2>5
  <2> QED
    BY <2>1, <2>2, <2>3, <2>4, <2>5
<1>3. ASSUME NEW h \in HotSlots, ClearHotSlot(h) PROVE HotbarInv'
  BY <1>3 DEF ClearHotSlot
<1>4. CASE UNCHANGED hotbarVars
  BY <1>4 DEF hotbarVars
<1> QED
  BY <1>1, <1>2, <1>3, <1>4 DEF HotbarNext

\* To begin with the hotbar is empty.
LEMMA HotbarInvInit == HotbarInit => HotbarInv
BY ItemsAssumption DEF HotbarInit, HotbarInv, HotSlots

\* Counts stay within the limits of the stacks, and every container holds items.
THEOREM ItemsTypeCorrect == ItemsSpec /\ HotbarSpec => []ItemsTypeOK
<1>1. ItemsInv /\ HotbarInv => ItemsTypeOK
  <2> SUFFICES ASSUME ItemsInv, HotbarInv PROVE ItemsTypeOK
    OBVIOUS
  <2>1. \A i \in Items : count[i] \in 0 .. MaxStack[Kind[i]]
    BY ItemsAssumption DEF ItemsInv, ItemsTyped, Counts
  <2> QED
    BY <2>1 DEF ItemsInv, ItemsTyped, Places, HotbarInv, ItemsTypeOK
<1> QED
  BY <1>1, ItemsInvInit, ItemsInvStep, HotbarInvInit, HotbarInvStep, PTL DEF ItemsSpec, HotbarSpec

\* Through any sequence of calls an item is in the container that its location
\* names and in no other, and no container holds an empty stack.
THEOREM PlacesAgreeSafe == ItemsSpec /\ HotbarSpec => []PlacesAgree
<1>1. ItemsInv /\ HotbarInv => PlacesAgree
  <2> SUFFICES ASSUME ItemsInv, HotbarInv PROVE PlacesAgree
    OBVIOUS
  <2>1. NoItem \notin bag
    BY ItemsAssumption DEF ItemsInv, ItemsTyped
  <2>2. \A i \in Held \ {NoItem} : count[i] > 0
    BY DEF ItemsInv, NoneEmpty, Held
  <2> QED
    BY <2>1, <2>2 DEF ItemsInv, BagAgrees, StorageAgrees, WornAgrees, QuickAgrees, HotbarInv,
                      PlacesAgree
<1> QED
  BY <1>1, ItemsInvInit, ItemsInvStep, HotbarInvInit, HotbarInvStep, PTL DEF ItemsSpec, HotbarSpec

-----------------------------------------------------------------------------
(* ClientItems: nothing is made or lost                                      *)

Conserved ==
  count' # count => \A k \in Kinds :
    \/ Total(count', k) = Total(count, k)
    \/ \E q \in QuickSlots :
         /\ quick[q] # NoItem /\ Kind[quick[q]] = k
         /\ count' = [count EXCEPT ![quick[q]] = @ - 1]

\* Merges, and the pouring of an item over a tab, keep the totals; whoever
\* consumes a piece changes the total of its kind only.
LEMMA ConservedStep == ItemsInv /\ ItemsNext => Conserved
<1> SUFFICES ASSUME ItemsInv, ItemsNext PROVE Conserved
  OBVIOUS
<1> USE DEF ItemsInv
<1>1. ASSUME NEW i \in Items, AddItem(i) PROVE Conserved
  <2>1. count' = count \/ \E x \in bag : count' = Merged(count, x, i)
    BY <1>1 DEF AddItem
  <2> QED
    BY <2>1, Merging DEF Conserved, ItemsTyped
<1>2. ASSUME NEW i \in Items, NEW t \in Tabs, NEW p, AddItemToTab(i, t, p) PROVE Conserved
  <2>1. count' = Poured(i, t)
    BY <1>2 DEF AddItemToTab
  <2>2. \A c : Total(Poured(i, t), c) = Total(count, c)
    BY Pouring DEF ItemsTyped
  <2> QED
    BY <2>1, <2>2 DEF Conserved
<1>3. ASSUME NEW from \in Slots, NEW to \in Slots, MoveOnto(from, to) PROVE Conserved
  <2>1. /\ count' = Merged(count, storage[to], storage[from])
        /\ storage[to] \in Items /\ storage[from] \in Items
    BY <1>3 DEF MoveOnto, ItemsTyped
  <2> QED
    BY <2>1, Merging DEF Conserved, ItemsTyped
<1>4. ASSUME NEW q \in QuickSlots, ConsumeFromSlot(q) PROVE Conserved
  <2>1. PICK i \in Items : i = quick[q] /\ i # NoItem
    BY <1>4 DEF ConsumeFromSlot, ItemsTyped
  <2>2. count' = [count EXCEPT ![i] = @ - 1] /\ count[i] > 0
    BY <1>4, <2>1 DEF ConsumeFromSlot
  <2> SUFFICES ASSUME NEW k \in Kinds, Kind[i] # k
               PROVE  Total(count', k) = Total(count, k)
    BY <2>1, <2>2 DEF Conserved
  <2>3. count \in [Items -> Nat] /\ count[i] \in Nat
    BY DEF ItemsTyped, Counts
  <2>4. count[i] - 1 \in Nat
    BY <2>2, <2>3
  <2>5. PICK m : m = count'
    OBVIOUS
  <2>6. m \in [Items -> Nat] /\ \A j \in Items \ {i} : m[j] = count[j]
    BY <2>2, <2>3, <2>4, <2>5
  <2>7. /\ Total(count, k) \in Nat /\ Total(m, k) \in Nat
        /\ Total(m, k) - Total(count, k) = 0
    BY <2>3, <2>6, TotalFollows
  <2> QED
    BY <2>5, <2>7
<1>5. ASSUME count' = count PROVE Conserved
  BY <1>5 DEF Conserved
<1> QED
  BY <1>1, <1>2, <1>3, <1>4, <1>5
     DEF ItemsNext, RemoveItemByKey, SwapEquipItem, AssignConsumable, MoveSwap, RemoveItem,
         UnequipItem, ClearQuickSlot

\* No sequence of calls makes or loses a piece of any kind; only consuming one
\* out of a quick slot uses it up.
THEOREM StacksConservedSafe == ItemsSpec => StacksConserved
<1>1. ItemsInv /\ [ItemsNext]_itemVars => [Conserved]_itemVars
  BY ConservedStep
<1>2. [Conserved]_itemVars
      <=> [count' # count => \A k \in Kinds :
             \/ Total(count', k) = Total(count, k)
             \/ \E q \in QuickSlots :
                  /\ quick[q] # NoItem /\ Kind[quick[q]] = k
                  /\ count' = [count EXCEPT ![quick[q]] = @ - 1]]_itemVars
  BY DEF Conserved
<1> QED
  BY <1>1, <1>2, ItemsInvInit, ItemsInvStep, PTL DEF ItemsSpec, StacksConserved
=============================================================================
