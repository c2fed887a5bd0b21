------------------------------ MODULE ClientViews ------------------------------
(***************************************************************************)
(* The client's widgets that show a container of ClientItems and repaint   *)
(* when it announces a change: inventory, quick slots, equipment, storage  *)
(* and skill hotbar. The engine constructs and destructs a widget whenever *)
(* it enters or leaves the viewport, as the HUD does with ShowHUD and      *)
(* HideHUD; the UI root may bind it to another container at any time, also *)
(* while it is not shown.                                                  *)
(***************************************************************************)
CONSTANTS
  Views,      \* widgets
  Forgetful,  \* those whose NativeDestruct drops the pointer: inventory, quick slots
  Sources,    \* containers
  NoSource,   \* the null pointer
  SourcesOf,  \* the containers whose type a view can be bound to
  OwnSource   \* the one that ClientCharacterSubsystem has for it

ASSUME ViewsAssumption ==
  /\ Forgetful \subseteq Views
  /\ NoSource \notin Sources
  /\ \A v \in Views : SourcesOf[v] \subseteq Sources /\ OwnSource[v] \in SourcesOf[v]

VARIABLES
  constructed,  \* views between NativeConstruct and NativeDestruct
  destructed,   \* views whose NativeDestruct has been called at least once
  bound,        \* the pointer to the container
  listeners,    \* <<view, container>>: the delegate's dynamic bindings
  missed        \* views not repainted since their container announced a change

viewVars == <<constructed, destructed, bound, listeners, missed>>

\* Slip: RemoveDynamic is forgotten.
StillSubscribed(v) == listeners

\* RemoveDynamic, which changes nothing for a view that is not subscribed.
Unsubscribed(v) == {l \in listeners : l # <<v, bound[v]>>}

\* Equipment, storage and hotbar look no further if they have this container.
BindAgain(v, c) ==
  /\ v \notin Forgetful /\ bound[v] = c
  /\ missed' = missed \ {v}
  /\ UNCHANGED <<bound, listeners>>

\* Inventory and quick slots are not repainted when they lose their container.
BindTo(v, c) ==
  /\ v \in Forgetful \/ bound[v] # c
  /\ bound' = [bound EXCEPT ![v] = c]
  /\ listeners' = Unsubscribed(v) \cup {<<v, s>> : s \in {c} \ {NoSource}}
  /\ missed' = IF v \in Forgetful /\ c = NoSource THEN missed ELSE missed \ {v}

BindComponent(v, c) == BindAgain(v, c) \/ BindTo(v, c)

RootBinds(v) ==
  /\ \E c \in SourcesOf[v] \cup {NoSource} : BindComponent(v, c)
  /\ UNCHANGED <<constructed, destructed>>

NativeConstruct(v) ==
  /\ v \notin constructed
  /\ constructed' = constructed \cup {v}
  /\ BindComponent(v, OwnSource[v])
  /\ UNCHANGED destructed

NativeDestruct(v) ==
  /\ v \in constructed
  /\ constructed' = constructed \ {v}
  /\ destructed' = destructed \cup {v}
  /\ listeners' = Unsubscribed(v)
  /\ bound' = IF v \in Forgetful THEN [bound EXCEPT ![v] = NoSource] ELSE bound
  /\ UNCHANGED missed

\* A container changes and broadcasts: its listeners repaint.
Announces(c) ==
  /\ missed' = {v \in Views : <<v, c>> \notin listeners /\ (v \in missed \/ bound[v] = c)}
  /\ UNCHANGED <<constructed, destructed, bound, listeners>>

-----------------------------------------------------------------------------
ViewsInit ==
  /\ constructed = {} /\ destructed = {}
  /\ bound = [v \in Views |-> NoSource]
  /\ listeners = {}
  /\ missed = {}

ViewsNext ==
  \/ \E v \in Views : NativeConstruct(v) \/ NativeDestruct(v) \/ RootBinds(v)
  \/ \E c \in Sources : Announces(c)

ViewsSpec == ViewsInit /\ [][ViewsNext]_viewVars

-----------------------------------------------------------------------------
ViewsTypeOK ==
  /\ constructed \subseteq Views /\ destructed \subseteq Views
  /\ bound \in [Views -> Sources \cup {NoSource}]
  /\ listeners \subseteq Views \X Sources
  /\ missed \subseteq Views

\* Through any sequence of showing, hiding and rebinding, a view is never
\* repainted for a container that it has left, and it misses no change of the
\* one it is bound to. Excepted from the latter are the equipment, storage and
\* hotbar views once they have been hidden: they keep their pointer and lose
\* their subscription, and being shown again does not bring it back.
ViewsFollowTheirSource ==
  \A v \in Views :
    /\ \A c \in Sources : <<v, c>> \in listeners => bound[v] = c
    /\ bound[v] # NoSource /\ (v \in Forgetful \/ v \notin destructed) =>
         <<v, bound[v]>> \in listeners /\ v \notin missed
=============================================================================
